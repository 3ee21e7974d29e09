------------------------- MODULE ChronicleOperations -------------------------
(***************************************************************************)
(* What a view offers to do with chronicles: desktop/operations.py behind  *)
(* the cards of the archive and the action row of a chronicle, with its    *)
(* forms (forms.py), dialogs (dialogs.py), file pickers (picking.py) and   *)
(* imports (imports.py), and the rows of the archive database all of them  *)
(* and the worker write (sqlite/chronicle_repository.py).                  *)
(*                                                                         *)
(* Every click is a coroutine of its own, here a job: it goes on where it  *)
(* awaited, after whatever the others did meanwhile.  A step of a job ends *)
(* at an await or a commit.  The forms, and the chronicle they are about,  *)
(* belong to the view and are shared.  No handler asks whether its form is *)
(* still open, or another is: a click that was on its way when a form      *)
(* opened or closed is handled as any other, a form's button twice when it *)
(* was clicked twice.  The last steps of the worker's handlers, which      *)
(* write the row, are a job too.                                           *)
(***************************************************************************)
EXTENDS Naturals, FiniteSets

CONSTANTS
    Chronicles,     \* ids, in the archive or not yet
    Jobs,           \* bound: the coroutines that run at once
    Worker,         \* the job of the worker
    Absent, Gone,   \* a row before it is made, and after it is deleted
    None,           \* nothing, and no chronicle: an import that makes one
    Values,         \* what a column may hold
    NewRow,         \* the row of a chronicle that was only made
    MaxClicks       \* bound: the clicks that begin something

\* "count" is what only the worker and identify find out; the status is settled with it.
Columns == {"title", "duration", "count"}

ASSUME OperationsAssumption ==
    /\ Worker \notin Jobs
    /\ None \notin Chronicles
    /\ {None, Absent, Gone} \cap [Columns -> Values] = {}
    /\ Absent # Gone
    /\ NewRow \in [Columns -> Values]
    /\ MaxClicks \in Nat

VARIABLES
    row,        \* the row of each chronicle
    lines,      \* whether the chronicle has a transcript
    tracks,     \* how many files sources/ has
    queued,     \* the tasks that wait for the worker
    form,       \* the forms: open, shown before, and the chronicle each was opened for
    fields,     \* what the fields of the edit form hold, and whose values they are
    pending,    \* _pending
    job,        \* the coroutines
    clicks,     \* the clicks so far
    raced       \* history: the jobs that had a row changed between their two reads of it

archive == <<row, lines, tracks, queued>>
screen == <<form, fields, pending>>
vars == <<archive, screen, job, clicks, raced>>

Row == [Columns -> Values]
InArchive(c) == c # None /\ row[c] \in Row

\* The columns each kind of job means to write.
Own == [edit |-> {"title", "duration"}, identify |-> {"count"}, counting |-> {"count"},
        link |-> {"count", "duration"}, worker |-> {"count", "duration"}]

Kinds == DOMAIN Own \cup {"audio", "transcript", "new", "delete", "task"}
Places == {"none", "get", "select", "write", "pick", "stage", "create", "add", "lines", "ask",
           "queue", "confirm", "delete", "remove"}
Idle == [kind |-> "new", at |-> "none", on |-> None, for |-> None, copy |-> None, base |-> None,
         from |-> None, append |-> FALSE, alone |-> FALSE]

Job ==
    [kind : Kinds, at : Places, on : Chronicles \cup {None}, for : Chronicles \cup {None},
     copy : Row \cup {None}, base : Row \cup {None}, from : Chronicles \cup {None},
     append : BOOLEAN, alone : BOOLEAN]
Form == [open : BOOLEAN, shown : BOOLEAN, for : Chronicles \cup {None}, alone : BOOLEAN]
Task == [of : Chronicles, append : BOOLEAN]

\* What a job at each place has.
Sound(r) ==
    /\ r.at \in {"select", "write", "add", "lines", "ask", "queue", "confirm", "delete", "remove"}
          => r.on # None
    /\ r.at \in {"get", "select", "write"} => r.kind \in DOMAIN Own
    /\ r.at \in {"select", "write"} => r.copy # None
    /\ r.at = "write" => r.base # None

TypeOK ==
    /\ row \in [Chronicles -> Row \cup {Absent, Gone}]
    /\ lines \in [Chronicles -> BOOLEAN]
    /\ tracks \in [Chronicles -> Nat]
    /\ queued \subseteq Task
    /\ form \in [{"edit", "transcript"} -> Form]
    /\ \A f \in {"edit", "transcript"} : form[f].open => form[f].shown
    /\ fields \in [of : Chronicles \cup {None}, title : Values, duration : Values]
    /\ pending \in Chronicles \cup {None}
    /\ job \in [Jobs \cup {Worker} -> Job]
    /\ \A j \in Jobs \cup {Worker} : Sound(job[j])
    /\ job[Worker].at # "none" => job[Worker].kind = "worker"
    /\ clicks \in 0 .. MaxClicks
    /\ raced \subseteq Jobs \cup {Worker}

Init ==
    /\ row \in [Chronicles -> {NewRow, Absent}]
    /\ lines \in [Chronicles -> BOOLEAN]
    /\ \A c \in Chronicles : lines[c] => InArchive(c)
    /\ tracks = [c \in Chronicles |-> 0]
    /\ \E waiting \in SUBSET {c \in Chronicles : InArchive(c)} :
          queued = [of : waiting, append : {FALSE}]
    /\ form = [f \in {"edit", "transcript"} |->
                 [open |-> FALSE, shown |-> FALSE, for |-> None, alone |-> FALSE]]
    /\ fields = [of |-> None, title |-> NewRow.title, duration |-> NewRow.duration]
    /\ pending = None
    /\ job = [j \in Jobs \cup {Worker} |-> Idle]
    /\ clicks = 0
    /\ raced = {}
-----------------------------------------------------------------------------
Goes(j, record) == job' = [job EXCEPT ![j] = record]
To(j, place) == Goes(j, [job[j] EXCEPT !.at = place])
Ends(j) == Goes(j, Idle)

\* A click on the page or on a form: what it begins takes a free job.
Click(j, kind, at, c) ==
    /\ job[j].at = "none"
    /\ clicks < MaxClicks
    /\ clicks' = clicks + 1
    /\ Goes(j, [Idle EXCEPT !.kind = kind, !.at = at, !.on = c, !.for = c])

\* The jobs that still look at what the forms share.
Shares(r) == <<r.kind, r.at>> \in {<<"edit", "get">>, <<"transcript", "pick">>}
Sharing == {j \in Jobs : Shares(job[j])}

\* None of them, and no form, has it to itself any longer.
Crowded == [j \in DOMAIN job |->
              IF j \in Sharing THEN [job[j] EXCEPT !.alone = FALSE] ELSE job[j]]
CrowdedForms == [f \in DOMAIN form |-> [form[f] EXCEPT !.alone = FALSE]]

NoneOpenBut(f) == \A g \in {"edit", "transcript"} \ {f} : ~form[g].open

\* A form opens, over another or for another chronicle as well.
Opens(f, c) ==
    /\ clicks < MaxClicks
    /\ clicks' = clicks + 1
    /\ form' = [CrowdedForms EXCEPT ![f] = [open |-> TRUE, shown |-> TRUE, for |-> c,
                                             alone |-> Sharing = {} /\ NoneOpenBut(f)]]
    /\ job' = Crowded
    /\ UNCHANGED <<archive, raced>>

\* The button of a form begins a job; once the form is closed, it is the button's second click.
Answers(f, j, record) ==
    \/ /\ form[f].open
       /\ form' = [form EXCEPT ![f].open = FALSE]
       /\ Goes(j, [record EXCEPT !.alone = form[f].alone])
       /\ UNCHANGED clicks
    \/ /\ ~form[f].open
       /\ clicks < MaxClicks
       /\ clicks' = clicks + 1
       /\ form' = CrowdedForms
       /\ job' = [Crowded EXCEPT ![j] = record]

\* Mutant: only the first form's chronicle is remembered.
RemembersFirst(c) == pending' = IF pending = None THEN c ELSE pending

Remembers(c) == pending' = c
-----------------------------------------------------------------------------
(* Editing the metadata *)

\* begin_edit: the fields show what the list had loaded, until something is typed.
BeginEdit(c, title, duration) ==
    /\ InArchive(c)
    /\ Opens("edit", c)
    /\ Remembers(c)
    /\ fields' = [of |-> c, title |-> title, duration |-> duration]

\* cancel_edit, cancel_transcript_import, or a click beside the form
Cancel(f) ==
    /\ form[f].open
    /\ form' = [form EXCEPT ![f].open = FALSE]
    /\ UNCHANGED <<archive, fields, pending, job, clicks, raced>>

\* finish_edit
Save(j) ==
    /\ form["edit"].shown
    /\ job[j].at = "none"
    /\ pending' = None
    /\ IF pending = None
       THEN form' = [form EXCEPT !["edit"].open = FALSE] /\ UNCHANGED <<job, clicks>>
       ELSE Answers("edit", j, [Idle EXCEPT !.kind = "edit", !.at = "get", !.on = pending,
                                            !.for = form["edit"].for])
    /\ UNCHANGED <<archive, fields, raced>>
-----------------------------------------------------------------------------
(* Reading a row, changing it, and writing it back *)

\* apply_to; what the other writers change is what they found out.
Changed(r, j) ==
    IF job[j].kind = "edit"
    THEN {[r EXCEPT !.title = fields.title, !.duration = fields.duration]}
    ELSE {s \in Row : \A k \in Columns \ Own[job[j].kind] : s[k] = r[k]}

\* hydrate_from_project goes on after refresh_speaker_count.
AfterRow(j) ==
    IF job[j].kind = "counting" THEN Goes(j, [job[j] EXCEPT !.kind = "link", !.at = "get"])
    ELSE Ends(j)

\* get_by_id; nothing is written when there is no row, or nothing to change.
Get(j) ==
    /\ job[j].at = "get"
    /\ raced' = raced \ {j}
    /\ IF InArchive(job[j].on)
       THEN \E s \in Changed(row[job[j].on], j) :
              IF s = row[job[j].on] /\ job[j].kind # "edit"
              THEN AfterRow(j)
              ELSE Goes(j, [job[j] EXCEPT !.at = "select", !.copy = s, !.from = fields.of])
       ELSE Ends(j)
    /\ UNCHANGED <<archive, screen, clicks>>

\* update reads the row again: only what differs from that is written.
Select(j) ==
    /\ job[j].at = "select"
    /\ IF InArchive(job[j].on)
       THEN Goes(j, [job[j] EXCEPT !.at = "write", !.base = row[job[j].on]])
       ELSE Ends(j)
    /\ UNCHANGED <<archive, screen, clicks, raced>>

\* Mutant: every column is written, not only those that differ.
WrittenWhole(j) == job[j].copy

Written(j) ==
    [k \in Columns |-> IF job[j].copy[k] # job[j].base[k] THEN job[j].copy[k]
                       ELSE row[job[j].on][k]]

\* The writers that have read this row once, and have yet to read it again, while a column
\* that is not theirs changes.
CutOff(j) ==
    {i \in DOMAIN job \ {j} :
        /\ job[i].at = "select" /\ job[i].on = job[j].on
        /\ \E k \in Columns \ Own[job[i].kind] : Written(j)[k] # row[job[j].on][k]}

\* A row that went meanwhile makes the commit raise.
Write(j) ==
    /\ job[j].at = "write"
    /\ IF InArchive(job[j].on)
       THEN /\ row' = [row EXCEPT ![job[j].on] = Written(j)]
            /\ AfterRow(j)
            /\ raced' = (raced \ {j}) \cup CutOff(j)
       ELSE Ends(j) /\ UNCHANGED <<row, raced>>
    /\ UNCHANGED <<lines, tracks, queued, screen, clicks>>
-----------------------------------------------------------------------------
(* Importing *)

BeginTranscriptImport(c) ==
    /\ c # None => InArchive(c)
    /\ Opens("transcript", c)
    /\ Remembers(c)
    /\ UNCHANGED fields

\* finish_transcript_import, to the file dialog
ChooseTranscript(j) ==
    /\ form["transcript"].shown
    /\ job[j].at = "none"
    /\ Answers("transcript", j, [Idle EXCEPT !.kind = "transcript", !.at = "pick",
                                             !.for = form["transcript"].for])
    /\ UNCHANGED <<archive, fields, pending, raced>>

\* import_audio and link_chronicle keep their chronicle themselves.
ChooseAudio(j, c) ==
    /\ c # None => InArchive(c)
    /\ Click(j, "audio", "pick", c)
    /\ UNCHANGED <<archive, screen, raced>>

ChooseProject(j) ==
    /\ Click(j, "counting", "pick", None)
    /\ UNCHANGED <<archive, screen, raced>>

\* pick_file: the user cancels, or the dialog fails, or there is a file.
Picked(j) ==
    /\ job[j].at = "pick"
    /\ \/ Ends(j) /\ UNCHANGED pending
       \/ IF job[j].kind = "transcript"
          THEN /\ Goes(j, [job[j] EXCEPT !.at = "stage", !.on = pending])
               /\ pending' = None
          ELSE /\ To(j, IF job[j].kind = "audio" THEN "stage" ELSE "create")
               /\ UNCHANGED pending
    /\ UNCHANGED <<archive, form, fields, clicks, raced>>

\* Mutant: no chronicle is made for a file that has none.
StagedForNone(j) ==
    /\ job[j].at = "stage"
    /\ To(j, IF job[j].kind = "audio" THEN "add" ELSE "lines")
    /\ UNCHANGED <<archive, screen, clicks, raced>>

\* stage_file is done.
Staged(j) ==
    /\ job[j].at = "stage"
    /\ To(j, IF job[j].on = None THEN "create"
             ELSE IF job[j].kind = "audio" THEN "add" ELSE "lines")
    /\ UNCHANGED <<archive, screen, clicks, raced>>

\* create_chronicle
Create(j, c) ==
    /\ job[j].at = "create"
    /\ row[c] = Absent
    /\ row' = [row EXCEPT ![c] = NewRow]
    /\ lines' \in {lines, [lines EXCEPT ![c] = job[j].kind = "counting"]}
    /\ IF job[j].kind = "new" THEN Ends(j)
       ELSE Goes(j, [job[j] EXCEPT !.on = c,
                      !.at = CASE job[j].kind = "counting" -> "get"
                               [] job[j].kind = "audio" -> "add"
                               [] OTHER -> "queue"])
    /\ UNCHANGED <<tracks, queued, screen, clicks, raced>>

\* create_chronicle_clicked; the form stays open until the row is there.
New(j) == Click(j, "new", "create", None) /\ UNCHANGED <<archive, screen, raced>>

\* add_audio_source gives the file a name that is free, whether or not there is a row.
Add(j) ==
    /\ job[j].at = "add"
    /\ tracks' = [tracks EXCEPT ![job[j].on] = @ + 1]
    /\ Ends(j)
    /\ UNCHANGED <<row, lines, queued, screen, clicks, raced>>

\* import_transcript asks where there are lines already.
LookAtLines(j) ==
    /\ job[j].at = "lines"
    /\ IF InArchive(job[j].on)
       THEN To(j, IF lines[job[j].on] THEN "ask" ELSE "queue")
       ELSE Ends(j)
    /\ UNCHANGED <<archive, screen, clicks, raced>>

\* _ask_overwrite_or_append; a dialog that is dismissed never answers.
Asked(j) ==
    /\ job[j].at = "ask"
    /\ \/ Ends(j)
       \/ \E append \in BOOLEAN : Goes(j, [job[j] EXCEPT !.at = "queue", !.append = append])
    /\ UNCHANGED <<archive, screen, clicks, raced>>

Queue(j) ==
    /\ job[j].at = "queue"
    /\ queued' = queued \cup {[of |-> job[j].on, append |-> job[j].append]}
    /\ Ends(j)
    /\ UNCHANGED <<row, lines, tracks, screen, clicks, raced>>
-----------------------------------------------------------------------------
(* The other operations *)

\* refresh_speaker_count
Identify(j, c) ==
    /\ InArchive(c)
    /\ Click(j, "identify", "get", c)
    /\ UNCHANGED <<archive, screen, raced>>

\* clean, generate and the transcribe dialog ask, and queue a task; delete asks.
Ask(j, kind, c) ==
    /\ InArchive(c)
    /\ Click(j, kind, "confirm", c)
    /\ UNCHANGED <<archive, screen, raced>>

Confirmed(j) ==
    /\ job[j].at = "confirm"
    /\ \/ Ends(j)
       \/ To(j, IF job[j].kind = "delete" THEN "delete" ELSE "queue")
    /\ UNCHANGED <<archive, screen, clicks, raced>>

\* delete_chronicle: the tasks and the row
Delete(j) ==
    /\ job[j].at = "delete"
    /\ row' = [row EXCEPT ![job[j].on] = Gone]
    /\ queued' = {t \in queued : t.of # job[j].on}
    /\ To(j, "remove")
    /\ UNCHANGED <<lines, tracks, screen, clicks, raced>>

\* remove_directory may give up.
Remove(j) ==
    /\ job[j].at = "remove"
    /\ \/ /\ tracks' = [tracks EXCEPT ![job[j].on] = 0]
          /\ lines' = [lines EXCEPT ![job[j].on] = FALSE]
       \/ UNCHANGED <<tracks, lines>>
    /\ Ends(j)
    /\ UNCHANGED <<row, queued, screen, clicks, raced>>

\* Anything awaited may raise; _report and the handlers tell, and end.
Raises(j) ==
    /\ job[j].at \notin {"none", "pick", "ask", "confirm"}
    /\ Ends(j)
    /\ UNCHANGED <<archive, screen, clicks, raced>>

\* A handler of the worker has its result, and settles the row.
Settle(t) ==
    /\ job[Worker].at = "none"
    /\ t \in queued
    /\ queued' = queued \ {t}
    /\ lines' \in {lines, [lines EXCEPT ![t.of] = InArchive(t.of)]}
    /\ Goes(Worker, [Idle EXCEPT !.kind = "worker", !.at = "get", !.on = t.of])
    /\ UNCHANGED <<row, tracks, screen, clicks, raced>>
-----------------------------------------------------------------------------
Begins(j) ==
    \/ Save(j) \/ ChooseTranscript(j) \/ ChooseProject(j) \/ New(j)
    \/ \E c \in Chronicles \cup {None} : ChooseAudio(j, c)
    \/ \E c \in Chronicles :
          Identify(j, c) \/ \E kind \in {"delete", "task"} : Ask(j, kind, c)

GoesOn(j) ==
    \/ Get(j) \/ Select(j) \/ Write(j) \/ Picked(j) \/ Staged(j) \/ Add(j) \/ LookAtLines(j)
    \/ Asked(j) \/ Queue(j) \/ Confirmed(j) \/ Delete(j) \/ Remove(j) \/ Raises(j)
    \/ \E c \in Chronicles : Create(j, c)

Next ==
    \/ \E c \in Chronicles, title, duration \in Values : BeginEdit(c, title, duration)
    \/ \E c \in Chronicles \cup {None} : BeginTranscriptImport(c)
    \/ \E f \in {"edit", "transcript"} : Cancel(f)
    \/ \E j \in Jobs : Begins(j)
    \/ \E j \in Jobs \cup {Worker} : GoesOn(j)
    \/ \E t \in queued : Settle(t)

Spec == Init /\ [][Next]_vars
-----------------------------------------------------------------------------
(* An edit goes to the chronicle its form was filled from, with the values of that     *)
(* form, and an imported transcript to the chronicle the import was opened for - as    *)
(* long as no other form is opened, and no form is answered a second time, from when   *)
(* the form opens until the row is read or the file is chosen.  Either takes the       *)
(* chronicle, or the fields, from under the job: finish_edit and                       *)
(* finish_transcript_import look at _pending and at the fields after an await.         *)
Keeps(r) ==
    /\ r.kind = "edit" /\ r.at = "get" => r.on = r.for
    /\ r.kind = "edit" /\ r.at \in {"select", "write"} => r.on = r.for /\ r.from = r.on
    /\ r.kind = "transcript" /\ r.at \in {"stage", "lines", "ask"} => r.on = r.for
FormsKeepTheirChronicle == \A j \in Jobs : job[j].alone => Keeps(job[j])

(* An imported transcript goes to the chronicle its form was opened for: confirming    *)
(* "imports into the remembered chronicle", and an import has none only "from the      *)
(* archive header, which creates one from the file".  It does not where another form   *)
(* is opened while the file dialog is up; and who clicks Import twice has two dialogs, *)
(* of which the second file makes a chronicle of its own.                              *)
ImportsIntoTheRemembered ==
    \A j \in Jobs :
        job[j].kind = "transcript" /\ job[j].at \in {"stage", "lines", "ask"}
            => job[j].on = job[j].for

(* A writer changes no column but its own - an edit not the count the worker found,    *)
(* the worker not the title that was typed -, whatever was written before its first    *)
(* read and after its second.  In between, update takes what it read first for a       *)
(* change and writes it over another's (raced).  The duration is a column of the       *)
(* worker and of the form: an edit writes the one its form was filled with.            *)
Leaves(j) ==
    job[j].at = "write" /\ job'[j].at # "write" /\ j \notin raced =>
       \A c \in Chronicles : row[c] \in Row /\ row'[c] \in Row =>
          \A k \in Columns \ Own[job[j].kind] : row'[c][k] = row[c][k]
OthersColumnsStay == [][\A j \in DOMAIN job : Leaves(j)]_vars
-----------------------------------------------------------------------------
(* The parts of the inductive invariant.  A form that is open, or a job that still     *)
(* looks at what the forms share, is the only one as long as it is alone; and a writer *)
(* that was not raced has read the columns of the others as they are, or as they were  *)
(* when it read them again.                                                            *)
FormsAlone ==
    \A f \in {"edit", "transcript"} : form[f].open /\ form[f].alone =>
        /\ Sharing = {} /\ NoneOpenBut(f)
        /\ pending = form[f].for
        /\ f = "edit" => fields.of = form[f].for /\ pending # None
JobsAlone ==
    \A j \in Sharing : job[j].alone =>
        /\ Sharing = {j} /\ \A f \in {"edit", "transcript"} : ~form[f].open
        /\ job[j].kind = "edit" => job[j].on = job[j].for /\ fields.of = job[j].for
        /\ job[j].kind = "transcript" => pending = job[j].for
Fresh(j) ==
    /\ job[j].at \in {"select", "write"} => row[job[j].on] # Absent
    /\ job[j].at = "select" /\ j \notin raced /\ row[job[j].on] \in Row =>
           \A k \in Columns \ Own[job[j].kind] : job[j].copy[k] = row[job[j].on][k]
    /\ job[j].at = "write" /\ j \notin raced =>
           \A k \in Columns \ Own[job[j].kind] : job[j].copy[k] = job[j].base[k]

IInv ==
    /\ TypeOK
    /\ FormsAlone /\ JobsAlone /\ FormsKeepTheirChronicle
    /\ \A j \in Jobs \cup {Worker} : Fresh(j)

=============================================================================

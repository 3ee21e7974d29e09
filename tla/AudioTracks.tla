----------------------------- MODULE AudioTracks -----------------------------
(***************************************************************************)
(* A chronicle's audio tracks: the files in its sources/ folder, the       *)
(* audio_sources rows that record what was done with them, the normalized  *)
(* copies beside them, and the TRANSCRIBE and NORMALIZE handlers           *)
(* (core/processing/handlers) that work on them, one commit or thread a    *)
(* step.  The queue the handlers run from is TaskLifecycle, which          *)
(* WorkerLoop implements but for a click on a list read before and for an  *)
(* outcome written twice; both are left out here, and a handler's end and  *)
(* the write of its outcome, apart there, are one step.                    *)
(*                                                                         *)
(* "The filesystem owns existence, the database owns state": anybody may   *)
(* put, replace or remove a file at any time.  A fingerprint is the        *)
(* content itself, None for a file that is not there.                      *)
(***************************************************************************)
EXTENDS TaskLifecycle, Sequences

CONSTANTS
    Files,          \* the names of the tracks
    Contents,       \* what such a file may hold
    None,           \* no file, no fingerprint
    NoTask,         \* the worker is between tasks
    FileOf,         \* file_path of each task
    CopyOf,         \* normalized_path_for each file
    Forced,         \* tasks with "force" in their data
    NormalizeFirst, \* tasks with "normalize_first" in their data
    MaxAttempts,    \* bound: a task with this many attempts is not retried
    MaxFaults       \* bound: crashes and stops of the worker; statements that raise

ASSUME TracksAssumption ==
    /\ None \notin Contents
    /\ NoTask \notin Tasks
    /\ TypeOf \in [Tasks -> {"TRANSCRIBE", "NORMALIZE"}]
    /\ FileOf \in [Tasks -> Files]
    /\ Forced \subseteq {t \in Tasks : TypeOf[t] = "NORMALIZE"}
    /\ NormalizeFirst \subseteq {t \in Tasks : TypeOf[t] = "TRANSCRIBE"}
    /\ MaxAttempts \in Nat
    /\ MaxFaults \in [{"down", "error"} -> Nat]

VARIABLES
    disk,       \* the content of each file in sources/
    copy,       \* what each normalized copy was made from; <<f, None>> is unfinished
    hash,       \* row.content_hash
    tstate,     \* row.transcription_state
    thash,      \* row.transcribed_hash
    nstate,     \* row.normalization_state
    nhash,      \* row.normalized_hash
    lines,      \* for each track, what its transcript lines were heard from
    cur,        \* the task the worker runs
    step,       \* where its handler is
    heard,      \* what the handler's thread reads
    untidy,     \* the tasks recovery has failed and not cleaned up after yet
    swapped,    \* history: files replaced under a handler that had read them
    unsettled,  \* history: tracks a handler or a cleanup hook broke off at
    faults      \* history: how many faults of each kind there were

queue == <<status, attempts>>
rows == <<hash, tstate, thash, nstate, nhash>>
run == <<cur, step, heard, untidy>>
history == <<swapped, unsettled, faults>>
vars == <<queue, disk, copy, rows, lines, run, history>>

Copies == {CopyOf[f] : f \in Files}
Fingerprint == Contents \cup {None}
SourceState == {"PENDING", "RUNNING", "DONE", "FAILED"}
Audio == Files \X Fingerprint
Step == {"down", "idle", "register", "check", "mark", "level", "leveling", "normalized",
         "unnormalized", "choose", "hear copy", "hear source", "whisper", "save",
         "untranscribed", "tag"}

TypeOK ==
    /\ status \in [Tasks -> {"none", "PENDING", "WORKING", "DONE", "FAILED"}]
    /\ attempts \in [Tasks -> Nat]
    /\ disk \in [Files -> Fingerprint]
    /\ copy \in [Copies -> Audio \cup {None}]
    /\ hash \in [Files -> Fingerprint]
    /\ tstate \in [Files -> SourceState]
    /\ thash \in [Files -> Fingerprint]
    /\ nstate \in [Files -> SourceState]
    /\ nhash \in [Files -> Fingerprint]
    /\ lines \in [Files -> Seq(Audio)]
    /\ cur \in Tasks \cup {NoTask}
    /\ step \in Step
    /\ (cur = NoTask) = (step \in {"down", "idle"})
    /\ heard \in Audio \cup {None}
    /\ untidy \subseteq Tasks
    /\ (untidy # {} => step = "idle")
    /\ swapped \subseteq Files
    /\ unsettled \subseteq Files
    /\ faults \in [{"down", "error"} -> Nat]

Init ==
    /\ LInit
    /\ disk \in [Files -> Fingerprint]
    /\ copy = [p \in Copies |-> None]
    /\ hash = [f \in Files |-> None]
    /\ tstate = [f \in Files |-> "PENDING"]
    /\ thash = [f \in Files |-> None]
    /\ nstate = [f \in Files |-> "PENDING"]
    /\ nhash = [f \in Files |-> None]
    /\ lines = [f \in Files |-> <<>>]
    /\ cur = NoTask
    /\ step = "idle"
    /\ heard = None
    /\ untidy = {}
    /\ swapped = {}
    /\ unsettled = {}
    /\ faults = [k \in {"down", "error"} |-> 0]
-----------------------------------------------------------------------------
(* AudioSource: "only when the content is still the content on disk". *)

IsTranscribed(f) == tstate[f] = "DONE" /\ thash[f] # None /\ thash[f] = hash[f]
IsNormalized(f) == nstate[f] = "DONE" /\ nhash[f] # None /\ nhash[f] = hash[f]

File == FileOf[cur]
Copy == CopyOf[File]

\* IsNormalized once the row has the file's fingerprint, and the copy exists.
HasCurrentCopy(f) ==
    nstate[f] = "DONE" /\ nhash[f] # None /\ nhash[f] = disk[f] /\ copy[CopyOf[f]] # None

\* SQLiteAudioSourceRepository.register: the row has the file's fingerprint.
Fingerprinted == hash' = [hash EXCEPT ![File] = disk[File]]

\* Mutant: the worker stays on the task it has finished.
OverButBusy == step' = "idle" /\ heard' = None /\ UNCHANGED <<cur, untidy>>

\* The worker is done with its task.
Over == cur' = NoTask /\ step' = "idle" /\ heard' = None /\ UNCHANGED untidy
Succeeds == Succeed(cur) /\ Over
Fails == LoseAttempt({cur}) /\ Over
Then(s) == step' = s /\ UNCHANGED <<queue, cur, untidy>>

\* What the handler had marked as RUNNING stays so.
BreaksOff == unsettled' = unsettled \cup {File} /\ UNCHANGED <<swapped, faults>>

\* ensure_normalized is over.  Its failure fails a NORMALIZE task, and only
\* a warning is left of it in a TRANSCRIBE task.
AfterNormalizing ==
    IF TypeOf[cur] = "TRANSCRIBE" THEN Then("choose") /\ heard' = None ELSE Succeeds
AfterNotNormalizing ==
    IF TypeOf[cur] = "TRANSCRIBE" THEN Then("choose") /\ heard' = None ELSE Fails
-----------------------------------------------------------------------------
(* The handlers *)

Claim(t) ==
    /\ step = "idle" /\ untidy = {}
    /\ Take(t)
    /\ cur' = t
    /\ step' = IF TypeOf[t] = "TRANSCRIBE" THEN "register" ELSE "check"
    /\ UNCHANGED <<disk, copy, rows, lines, heard, untidy, history>>

RegisterSource ==
    /\ step = "register"
    /\ Fingerprinted
    /\ tstate' = [tstate EXCEPT ![File] = "RUNNING"]
    /\ Then(IF cur \in NormalizeFirst THEN "check" ELSE "choose")
    /\ UNCHANGED <<disk, copy, thash, nstate, nhash, lines, heard, history>>

\* ensure_normalized: skipped when there is a current copy.
CheckNormalized ==
    /\ step = "check"
    /\ Fingerprinted
    /\ IF cur \notin Forced /\ HasCurrentCopy(File)
       THEN AfterNormalizing
       ELSE Then("mark") /\ UNCHANGED heard
    /\ UNCHANGED <<disk, copy, tstate, thash, nstate, nhash, lines, history>>

\* Mutant: the row still says DONE while its copy is written anew.
MarkNothing ==
    /\ step = "mark"
    /\ Then("level")
    /\ UNCHANGED <<disk, copy, rows, lines, heard, history>>

MarkNormalizing ==
    /\ step = "mark"
    /\ nstate' = [nstate EXCEPT ![File] = "RUNNING"]
    /\ Then("level")
    /\ UNCHANGED <<disk, copy, hash, tstate, thash, nhash, lines, heard, history>>

\* normalize_audio in its thread: the source is opened, then the copy.
Level ==
    /\ step = "level"
    /\ \/ /\ disk[File] # None
          /\ heard' = <<File, disk[File]>>
          /\ copy' = [copy EXCEPT ![Copy] = <<File, None>>]
          /\ Then("leveling")
       \/ Then("unnormalized") /\ UNCHANGED <<heard, copy>>
    /\ UNCHANGED <<disk, rows, lines, history>>

Leveled ==
    /\ step = "leveling"
    /\ \/ copy' = [copy EXCEPT ![Copy] = heard] /\ Then("normalized")
       \/ UNCHANGED copy /\ Then("unnormalized")
    /\ UNCHANGED <<disk, rows, lines, heard, history>>

\* fingerprint_file raises for a file that is gone, and nothing is marked.
MarkNormalized ==
    /\ step = "normalized"
    /\ IF disk[File] = None
       THEN AfterNotNormalizing /\ BreaksOff /\ UNCHANGED <<nstate, nhash>>
       ELSE /\ nstate' = [nstate EXCEPT ![File] = "DONE"]
            /\ nhash' = [nhash EXCEPT ![File] = disk[File]]
            /\ AfterNormalizing /\ UNCHANGED history
    /\ UNCHANGED <<disk, copy, hash, tstate, thash, lines>>

MarkNormalizationFailed ==
    /\ step = "unnormalized"
    /\ nstate' = [nstate EXCEPT ![File] = "FAILED"]
    /\ AfterNotNormalizing
    /\ UNCHANGED <<disk, copy, hash, tstate, thash, nhash, lines, history>>

\* Mutant: any copy there is will do.
ChooseAnyCopy ==
    /\ step = "choose"
    /\ Fingerprinted
    /\ Then(IF copy[Copy] # None THEN "hear copy" ELSE "hear source")
    /\ UNCHANGED <<disk, copy, tstate, thash, nstate, nhash, lines, heard, history>>

\* transcription_source: the copy when it is current, else the source.
Choose ==
    /\ step = "choose"
    /\ Fingerprinted
    /\ Then(IF HasCurrentCopy(File) THEN "hear copy" ELSE "hear source")
    /\ UNCHANGED <<disk, copy, tstate, thash, nstate, nhash, lines, heard, history>>

\* transcribe_audio in its thread opens the file that was chosen.
Hear ==
    /\ step \in {"hear copy", "hear source"}
    /\ heard' = IF step = "hear copy" THEN copy[Copy]
                ELSE IF disk[File] = None THEN None ELSE <<File, disk[File]>>
    /\ Then(IF heard' = None THEN "untranscribed" ELSE "whisper")
    /\ UNCHANGED <<disk, copy, rows, lines, history>>

Transcribed ==
    /\ step = "whisper"
    /\ Then("save") \/ Then("untranscribed")
    /\ UNCHANGED <<disk, copy, rows, lines, heard, history>>

\* Mutant: the lines of the run before stay.
AppendLines(f) == lines' = [lines EXCEPT ![f] = Append(@, heard)]

\* delete_track_lines and add_lines.
ReplaceLines(f) == lines' = [lines EXCEPT ![f] = <<heard>>]

\* One commit.  A file that is gone has no fingerprint: all is rolled back.
Save ==
    /\ step = "save"
    /\ IF disk[File] = None
       THEN Fails /\ BreaksOff /\ UNCHANGED <<rows, lines>>
       ELSE /\ Fingerprinted
            /\ ReplaceLines(File)
            /\ tstate' = [tstate EXCEPT ![File] = "DONE"]
            /\ thash' = [thash EXCEPT ![File] = disk[File]]
            /\ Then("tag") /\ heard' = None
            /\ UNCHANGED <<nstate, nhash, history>>
    /\ UNCHANGED <<disk, copy>>

RecordFailure ==
    /\ step = "untranscribed"
    /\ tstate' = [tstate EXCEPT ![File] = "FAILED"]
    /\ Fails
    /\ UNCHANGED <<disk, copy, hash, thash, nstate, nhash, lines, history>>

\* tag_as_transcript and _backfill_metadata, in the archive database.
Tag ==
    /\ step = "tag"
    /\ Succeeds
    /\ UNCHANGED <<disk, copy, rows, lines, history>>
-----------------------------------------------------------------------------
(* Faults *)

Fault(k) ==
    /\ faults[k] < MaxFaults[k]
    /\ faults' = [faults EXCEPT ![k] = @ + 1]
    /\ UNCHANGED swapped

\* The statements of the step raise: the database stays locked, the disk is
\* full, the task's speaker has two rows.  No handler marks its track for it.
Raises ==
    /\ step \in {"register", "check", "mark", "normalized", "unnormalized", "choose",
                 "save", "untranscribed", "tag"}
    /\ Fault("error")
    /\ IF step \in {"check", "mark", "normalized", "unnormalized"}
       THEN AfterNotNormalizing ELSE Fails
    /\ unsettled' = IF step = "tag" THEN unsettled ELSE unsettled \cup {File}
    /\ UNCHANGED <<disk, copy, rows, lines>>

\* The worker is stopped.  The thread finishes its copy before the process
\* does, and nothing of the handler's runs on.
Stop ==
    /\ cur # NoTask
    /\ Fault("down")
    /\ GiveBack(cur)
    /\ copy' = IF step = "leveling" THEN [copy EXCEPT ![Copy] = heard] ELSE copy
    /\ cur' = NoTask /\ step' = "down" /\ heard' = None
    /\ UNCHANGED <<disk, rows, lines, untidy, unsettled>>

Crash ==
    /\ cur # NoTask
    /\ Fault("down")
    /\ cur' = NoTask /\ step' = "down" /\ heard' = None
    /\ UNCHANGED <<queue, disk, copy, rows, lines, untidy, unsettled>>

FilesOf(S) == {FileOf[t] : t \in S}

\* The next process recovers the interrupted task before it claims one: one
\* commit, and what it failed is cleaned up after.
Restart ==
    /\ step = "down"
    /\ step' = "idle"
    /\ IF In("WORKING") = {} THEN UNCHANGED queue ELSE LoseAttempt(In("WORKING"))
    /\ untidy' = {t \in In("WORKING") : status'[t] = "FAILED"}
    /\ UNCHANGED <<disk, copy, rows, lines, cur, heard, history>>

\* Mutant: no cleanup hook is registered for NORMALIZE.
ReleaseTranscribing(t) ==
    /\ tstate' = IF TypeOf[t] = "TRANSCRIBE" /\ tstate[FileOf[t]] = "RUNNING"
                 THEN [tstate EXCEPT ![FileOf[t]] = "FAILED"] ELSE tstate
    /\ UNCHANGED nstate

\* release_source, the hook of both types.
Release(t) ==
    /\ tstate' = IF TypeOf[t] = "TRANSCRIBE" /\ tstate[FileOf[t]] = "RUNNING"
                 THEN [tstate EXCEPT ![FileOf[t]] = "FAILED"] ELSE tstate
    /\ nstate' = IF nstate[FileOf[t]] = "RUNNING"
                 THEN [nstate EXCEPT ![FileOf[t]] = "FAILED"] ELSE nstate

Tidy(t) ==
    /\ t \in untidy
    /\ untidy' = untidy \ {t}
    /\ Release(t)
    /\ UNCHANGED <<queue, disk, copy, hash, thash, nhash, lines, cur, step, heard, history>>

\* The hook raises, which is logged; nothing calls it again.
TidyRaises(t) ==
    /\ t \in untidy
    /\ Fault("error")
    /\ untidy' = untidy \ {t}
    /\ unsettled' = unsettled \cup {FileOf[t]}
    /\ UNCHANGED <<queue, disk, copy, rows, lines, cur, step, heard>>

\* A crash or a stop amid the hooks: the next recovery finds nothing WORKING.
CutShort ==
    /\ untidy # {}
    /\ Fault("down")
    /\ untidy' = {} /\ step' = "down"
    /\ unsettled' = unsettled \cup FilesOf(untidy)
    /\ UNCHANGED <<queue, disk, copy, rows, lines, cur, heard>>
-----------------------------------------------------------------------------
(* The users, and whoever else writes in sources/ *)

Ask(t) ==
    /\ Submit(t) \/ (attempts[t] < MaxAttempts /\ Retry(t))
    /\ UNCHANGED <<disk, copy, rows, lines, run, history>>

\* list_audio_sources registers every file it finds.
ListSources ==
    /\ hash' = [f \in Files |-> IF disk[f] # None THEN disk[f] ELSE hash[f]]
    /\ UNCHANGED <<queue, disk, copy, tstate, thash, nstate, nhash, lines, run, history>>

\* The steps between reading a track and recording what was read.
Reading == {"leveling", "normalized", "hear copy", "whisper", "save"}

PutFile(f, c) ==
    /\ disk[f] # c
    /\ disk' = [disk EXCEPT ![f] = c]
    /\ swapped' = IF step \in Reading /\ File = f THEN swapped \cup {f} ELSE swapped
    /\ UNCHANGED <<queue, copy, rows, lines, run, unsettled, faults>>

RemoveFile(f) ==
    /\ disk[f] # None
    /\ disk' = [disk EXCEPT ![f] = None]
    /\ UNCHANGED <<queue, copy, rows, lines, run, history>>

RemoveCopy(p) ==
    /\ copy[p] # None
    /\ step # "leveling"
    /\ copy' = [copy EXCEPT ![p] = None]
    /\ UNCHANGED <<queue, disk, rows, lines, run, history>>
-----------------------------------------------------------------------------
HandlerStep ==
    \/ RegisterSource \/ CheckNormalized \/ MarkNormalizing \/ Level \/ Leveled
    \/ MarkNormalized \/ MarkNormalizationFailed
    \/ Choose \/ Hear \/ Transcribed \/ Save \/ RecordFailure \/ Tag

Next ==
    \/ \E t \in Tasks : Claim(t) \/ Ask(t)
    \/ HandlerStep
    \/ Raises \/ Stop \/ Crash
    \/ Restart \/ CutShort \/ \E t \in untidy : Tidy(t) \/ TidyRaises(t)
    \/ ListSources
    \/ \E f \in Files : RemoveFile(f) \/ \E c \in Contents : PutFile(f, c)
    \/ \E p \in Copies : RemoveCopy(p)

Spec == Init /\ [][Next]_vars
-----------------------------------------------------------------------------
(* Properties *)

\* "Replace a file and its work re-runs" (docs/audio-sources.md): a track the
\* panel calls transcribed has the lines of exactly one run, and that run
\* heard this very track, with the content the row was last given.
TranscribedIsTrack(f) == IsTranscribed(f) => lines[f] = <<<<f, hash[f]>>>>

\* So it is, unless the file was replaced under a handler that had read it.
LinesAreTheTrack == \A f \in Files \ swapped : TranscribedIsTrack(f)

\* "Replace a file and its work re-runs": no track counts as done, to be skipped, on the
\* lines of a file that has been replaced - not one replaced while whisper was hearing it
\* either, whose new fingerprint mark_transcribed takes for the one that was heard.
ReplacedIsRedone == \A f \in Files : TranscribedIsTrack(f)

\* A copy called normalized, if it is still there, is the whole of this
\* track's content, whatever was cut short, forced or removed since.
CopyIsTheTrack ==
    \A f \in Files \ swapped :
        IsNormalized(f) /\ copy[CopyOf[f]] # None => copy[CopyOf[f]] = <<f, hash[f]>>

\* A track that shows as transcribing or normalizing has a task that is at it
\* or will be, or one recovery is about to clean up after.
AtWork(f, Types) ==
    \E t \in Tasks : /\ FileOf[t] = f /\ TypeOf[t] \in Types
                     /\ status[t] \in {"PENDING", "WORKING"} \/ t \in untidy
ShownAtWork(f) ==
    /\ tstate[f] = "RUNNING" => AtWork(f, {"TRANSCRIBE"})
    /\ nstate[f] = "RUNNING" => AtWork(f, {"TRANSCRIBE", "NORMALIZE"})

\* Whatever ends a task takes its track out of RUNNING, a crash and the
\* recovery from it too, unless a statement of its handler or of its cleanup
\* hook raised, the file was gone when the work was to be recorded, or a second
\* crash or a stop came amid the hooks: then no task may be at it.
RunningIsRun == \A f \in Files \ unsettled : ShownAtWork(f)

\* "A failure records it and leaves it visible in the Sources panel rather
\* than only in the task list": a failed task does not leave its track
\* RUNNING, with no other task to be at it.
FailureIsShown == \A t \in In("FAILED") : ShownAtWork(FileOf[t])

\* transcription_source returns "the normalized copy of `source`".
HearsItsTrack == step \in {"whisper", "save"} => heard[1] = File
=============================================================================

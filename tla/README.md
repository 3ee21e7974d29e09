# Chronicler in TLA+

Models of Chronicler (`src/chronicler`), model-checked with TLC and proved with TLAPS.
Chronicler keeps a workspace of *chronicles*, recorded sessions with their audio tracks,
transcripts and summaries. Long work (import, transcribe, normalize, clean, summarize) is
queued as rows of a database and done by one worker; a desktop application, or a server
with thin clients, works on the same databases meanwhile.

## The system and its parts

| Component | State it keeps | Operations | Talks to |
|---|---|---|---|
| Task queue (`core/sqlite/task_repository.py`, `services/task_service.py`) | `tasks` table of the archive database | create, claim, finish, fail or retry, recover, delete | worker, Tasks view |
| Worker (`core/workers.py`) | `_recovered`, the task it runs | start, recover, claim, run, record, publish, stop | queue, handlers, event bus |
| Handlers (`core/processing/handlers`) | none of their own | normalize, transcribe, import, clean, summarize, and the cleanup hooks | project database, archive database, `sources/` |
| Audio tracks (`sqlite/audio_source_repository.py`) | `audio_sources` rows, files, normalized copies | register, mark, reconcile with the disk | handlers, Sources panel |
| Transcript (`services/transcript_service.py`, `sqlite/transcript_repository.py`) | lines, speakers, summaries | edit, delete, assign, export | handlers, transcript view |
| Project stores (`database_manager.py`, `workspace_lock.py`) | one cached engine per chronicle, the workspace lock, snapshots | open, migrate once, snapshot, close, delete | every service and handler |
| Chronicle rows (`sqlite/chronicle_repository.py`, `known_speaker_repository.py`) | `chronicles`, tags, known speakers | create, update whole rows, tag, count | services, handlers |
| Remote calls (`rpc.py`, `remote.py`, `handshake.py`, `file_staging.py`) | a scope per call, staged uploads | call, upload, handshake | server, thin client |
| Recorder (`recording/recorder.py`) | queue of blocks, writer thread, WAV file | start, callback, write, stop | transcript view |
| Desktop (`desktop/app.py`, `container.py`, `operations.py`, views) | current view, its scope, the forms' pending chronicle | navigate, refresh after a task, close | services, event bus |
| Text algorithms (`cleaners.py`, `importers.py`, `summarizer.py`, `formatting.py`, `srt.py`) | none | parse, clean, chunk, format | handlers, exports |
| Configuration (`core/config.py`, the wizards, the settings page, `extras_prompt.py`) | the settings of the process, four possible files, the environment over them | load, save, set up, change, decide what a start runs as | every start |

The remaining parts (guarded regular expressions, language model client, exports, service
information, translations, migrations, widgets, packaging) are not modelled, see below;
`PROJECT.json` lists every part with what of it is.

What makes the program hard to get right:

* One event loop runs the worker, the views and, in a server, the remote calls. Between
  two `await`s anything else may commit, and most handlers read a row or the lines, await,
  and write what they computed from them.
* Two kinds of database (one archive, one per project) with no transaction over both: a
  handler commits its lines, then tags the chronicle, then has its outcome recorded.
* The process may be killed or stopped anywhere; work in a thread outlives a cancellation.
* SQLite locks time out, and a retry repeats a handler from its start.
* Files are replaced and removed by other programs at any time, by design.
* A recording has three threads, and stopping it blocks the event loop.
* What a form, a picker or a view shares is read again after an `await`, when somebody else
  may have changed it; a rebuilt view leaves tasks of the old one behind.
* A thin client's import is several calls. Nothing is sent twice, but a call that failed for
  the client may still run on the server.
* The file the settings are saved to and the one they are read from are found by different
  functions, and the environment lies over both.

## Modules

| Module | Models |
|---|---|
| `TaskTable` | the `tasks` table; one operator per committed statement of `SQLiteTaskRepository` |
| `WorkerLoop` | `WorkerManager` over that table: the loop, recovery, claiming, running, recording, publishing; users who queue, retry from a stale list and delete; crash, stop and lock at every await |
| `TaskLifecycle` | the abstract queue: the life of a task as `docs/tasks.md` draws it, without worker, database or clock |
| `AudioTracks` | the TRANSCRIBE and NORMALIZE handlers, the `audio_sources` rows, the files and their copies, on top of the abstract queue |
| `TranscriptEdits` | the IMPORT, CLEAN and SUMMARIZE handlers and the transcript editor on one project database: lines, speakers, summaries, snapshots; on top of the abstract queue |
| `TranscriptText` | what an import reads from a file, the rules of a clean in their order, the chunks of a summary: the texts `TranscriptEdits` abstracts from |
| `ProjectStore` | `DatabaseManager`'s engines and migration lock, the checks before a database is opened, linked chronicles and `delete_chronicle` |
| `TakeFile` | the abstract recording: what the file of a take promises |
| `Recorder` | the recording dialog on the event loop, the audio callback, the writer thread, and stop |
| `ViewScopes` | the desktop's views, their scopes and sessions, navigation, task events and cleanup |
| `ChronicleOperations` | the clicks on chronicles with the forms they share, and the archive rows they and the worker write |
| `ImportPromise` | the abstract import: stored at most once, and "done" only when it is |
| `RemoteCalls` | a thin client's imports call by call, with a server that dies, restarts and changes its version |
| `Configuration` | the files, the environment, the wizards, the settings page, and what a start runs as |
| `WorkerLoopProofs`, `AudioTracksProofs`, `TranscriptProofs`, `ProjectStoreProofs`, `RecorderProofs`, `ChronicleOperationsProofs`, `RemoteCallsProofs`, `DesktopProofs` | the inductive invariants and the theorems |
| `MC...` | the instance of each module for TLC |

How they compose. `WorkerLoop` implements `TaskLifecycle` row by row, but for the steps that
find a row astray: put back during its run by a click on an old list, or its outcome about to
be written a second time. `AudioTracks` and `TranscriptEdits` extend `TaskLifecycle`, so their
handlers run under the queue without the loop's detail, and without those two kinds of step.
Each recorder of `Recorder` implements `TakeFile`, and `RemoteCalls` implements
`ImportPromise`. These three refinements are checked by TLC and proved.

### The worker

`pc` is the await the worker is at. `recover`, `tidy` and `tell` are the three phases of
`recover_interrupted` (commit, cleanup hooks, events); `select` and `claim` are the SELECT
and the conditional UPDATE of `claim_next`; `load`, `run`, `record` and `publish` are
`get_by_id`, the handler, `_record_outcome` and `_publish_completion`. A stop that finds
the commit of an outcome in flight goes to `last`, if the commit fails after all, or to
`again`, if it happens and `_last_try` writes the outcome a second time; `repeats` counts
the latter. `status`, `attempts`, `backoff` (which of `RETRY_DELAYS` `not_before` waits out)
and `claimed` (`claimed_by`, `claimed_at`) are columns. `untidy` holds the tasks whose handler
was cut short after it marked an audio source RUNNING. `announced`, `claims`, `clicks` and
`faults` are history.

`listed` holds the tasks that a click may still put back: a retry button appears when a list
is loaded that shows the row DONE or FAILED, and stays until the list is loaded again, which
is awaits after the click. There may be any number of lists, each of any age, so a button
once shown may be clicked at any later time; one view is stale already between a retry's
commit and `load_tasks`.

The handler is one step, `HandlerEnds`; what handlers do is in `AudioTracks` and
`TranscriptEdits`. A lock that ends before its timeout is not a step. One worker only: the
workspace lock admits one process.

### The audio tracks

One step is one commit, or one thread's work. A fingerprint is the content itself, so
that a stored hash says which content it was taken of. A normalized copy is the pair of the
track and the content it was made from, `<<f, None>>` while it is unfinished. `lines[f]`
lists what the lines of a track were heard from, one element per run whose lines are still
there. `heard` is what the thread of the running handler reads. `Raises` is any statement of
a handler that raises, a lock, an I/O error or a speaker with two rows (`MultipleResultsFound`):
what it had not committed is rolled back and its task fails.

`AudioTracks` extends `TaskLifecycle` and drives its actions: `Claim` takes a task, a
handler's end succeeds or loses an attempt, a stop gives the task back. Recovery is two
steps, as in the code: `Restart` commits what becomes of the interrupted task, and `Tidy`, the
cleanup hook, releases the source of one that has failed. Between them `untidy` holds the task,
and the hook may raise (`TidyRaises`) or be cut short by a second crash or a stop (`CutShort`).
`unsettled` collects the tracks that no code looks after any more: those whose handler or
hook raised, those whose file was gone when its work was to be recorded, and those whose
hook was cut short.

### The transcript

`lines` maps the numbers of the lines there are to their speaker and text. A text is the
set of pieces it was made from, one for each imported line, and each piece says whether it
is speech, junk the cleaning rules drop, or corrected by a user; so a joined line has
several pieces and nothing that was said can disappear unnoticed. `speakers` counts the
rows of each name. `snapshots` are the files beside the database in the order of their
names. A read whose result is used after an await is a step of its own (`LookUpSpeaker`,
`ReadLines`, `PickNumber`, `ChooseSpeaker`, `LoadLines`), and what it read waits in `held`,
`pending` or `shown`. An overwriting import deletes first and so holds the database's
write lock from then on: it is one step. `SNAPSHOTS_KEPT` is the constant `SnapshotsKept`.
A snapshot is cut short by a crash, or by a `VACUUM INTO` that fails; its file stays (`torn`).

Not in the model: lines of audio tracks (`AudioTracks`), files that cannot be parsed (the
handler fails as it does on a lock), an import file with several speakers, and a clock
that steps back, which would put a new snapshot's name before the oldest.

### The project stores

Each caller is a coroutine in one call: a handler, a service, a clean's copy, an export or a
deletion. They differ in what they check first, and when: a service takes the path from the
row it checked, a handler reads it again, an export looks at the row only, a copy at nothing.
`db` says for each place who made the file there, so that a file made by a reader stands out.
`engines` lists every engine made, with what became of it; `cache` is `_project_engines`;
`queue` is the migration lock, its holder first. `raced`, `moved` and `stuck` record the
overlaps the code does not guard against: a chronicle deleted, or a linked file moved, after
a caller had checked it, and a file the system would not remove.

Not in the model: the archive database, the workspace lock, `close_all`, the bundle made of
an exported copy, and two chronicles linked to one file.

### The text

A transcript is heard line by line, a file's rows are imported after it, and the whole is cleaned
once; the settings are any of the allowed ones. A text is a sequence of words, so that a removed
noise, a joined turn or a dropped repeat can be told apart; times are in half seconds, which is
what rounding is about. Known phrases are matched in the three ways of `DropHallucinations`: as
they stand, folded, and as patterns, of which the model has the texts they match. An import drops
the rows before the first turn and those under a blank name, as `ImportedAsWritten` says. The
rules are folds in the order of `build_pipeline`. `CleanedAsListed` and `ImportedAsWritten` state
what must be left over declaratively, with sets of line numbers and no order of evaluation, and
`TextIsKept` says that the folds leave just that. White space, punctuation, time stamps and the
layout of subtitles are not in the model.

### Recording

The event loop runs the dialog: `Open`, and the clicks on Start, Stop, Save and Close. Every
start makes a `Recorder`, the number `take`. `OnAudio` is the callback of the audio backend;
`WriterOpen`, `WriterTest`, `WriterGet` and `WriterWrite` are the writer thread, whose test of
`_running` and of the queue are two reads. `AskStop`, `StopStream` and `Join` are
`Recorder.stop`; `loop` says that it blocks the event loop, while both threads go on. `Join`
may give up after its ten seconds. A save goes through `stopping`, `stage`, `add`, and keeps
the path it was clicked for. `State(r)` maps a recorder to the states of `TakeFile`.

### Views and scopes

An actor is a click's handler or the worker, publishing an event; `pc` says where it awaits in
`update_view`, `go_back` or `cleanup`: closing the old scope, asking the services through the new
one, deleting a chronicle, stopping the worker, releasing what is left. `cleanup` is registered
for the disconnect and for the close of the window and may run twice, one after the other or
interleaved: `closings` counts the two, and `crossed` says that one was called while an update or
the other was under way. A session is `idle` until its first query, `connecting`, `open`,
`closing`. `loads` counts the queries the tasks of a view have still to make: leaving a view does
not cancel them. The refresh of the model list has a scope of its own. `overlapped`, `failed` and
`late` record what the code does not guard against: an update that begins within another, one that
raises or is cancelled, and a query of a view that was left.

Not in the model: the thin client, which has no sessions; themes, locales and layout.

### Operations and forms

A job is the coroutine of one click, or the worker's bookkeeping at the end of a handler. `at` is
where it awaits: a form or picker, the copy of the file, or one of `get`, `select` and `write`,
the three steps of a whole-row update. `on` is the chronicle the job works on and `for` the one
the click was about: `FormsKeepTheirChronicle` says they are the same. `pending`, `form` and
`fields` belong to the view and are shared. No handler tests that its form is still open: while it
is `shown`, a form may be answered again, and each answer is a job. The columns are title,
duration and count, by who writes them. Failures are steps that end a job where it is.

Not in the model: search and filters, tags and known speakers, and the line editor, whose
changes of the transcript are in `TranscriptEdits`.

### Remote imports

`click` is what the client knows, `request` what the server has of it: sent, writing the
upload, in the method, closing the scope (the methods have committed before), answering. A call or
an answer may be lost at any time, a file write may fail or break off, the server may die with
its requests and come up again as the same or another version. A staged path has a fresh
identifier, so it is the click itself. `StoredOf` maps what is in `imports/`, `sources/` and
the queue to what `ImportPromise` calls stored.

Not in the model: keys, the encoding of arguments and answers, and calls that only read.

### Configuration

A layer is a function from the keys it sets. `ReadFile` and the target of a save are the two
functions that choose among the explicit file, the one in the home directory, `settings.yaml`
and the legacy `settings.json`. `mem` is the cached settings with the environment over
them; `Saves` leaves out what the environment set, `SaveFails` is the `OSError`. The
actions are a start as desktop or server, each step of both wizards, the settings page, the
extras prompt and its installer, and the end of the process. "auto" stands for all settings
of the sections.

The environment of a process, its .env file included, is chosen at its start and stays. The
code reads .env anew at each save (`config.py:226`): what an edit of that file under a running
process does to a save is not in the model.

## Runs

| Run | Bounds | Properties |
|---|---|---|
| `worker_safety` | 2 tasks (1 and 3 attempts), lists of any age, 2 clicks on one task, one crash, one stop, also with a commit in flight, one lock | `TypeOK`, `RunsPaidFor`, `AttemptBudget`, `AnnouncedIsRecorded`, `WorkingIsRunning`, `FailedIsTidied`, `TerminalIsStable` |
| `worker_live` | 2 tasks in 2 chronicles, one of a type without a handler, lists of any age, one click each, one crash, one stop | `EveryTaskEnds`, `Lifecycle` |
| `audio_tracks` | one track with two contents, a transcription that normalizes first and a forced normalization, two crashes or stops, one statement that raises, up to 2 attempts | `TypeOK`, `LinesAreTheTrack`, `CopyIsTheTrack`, `RunningIsRun` |
| `other_tracks_copy` | two tracks with one copy, no faults | `HearsItsTrack`: violated, see Findings |
| `transcript_edits` | an overwriting and an appending import, a clean and a summary, one editor, one edit or deletion, one retry by a user, one crash, stop or statement that fails, two snapshots kept | `TypeOK`, `OriginalKept`, `OverwritesOnce`, `SummariesNumbered`, `UntouchedHasCopy` |
| `transcript_text` | 3 lines heard or in the file, 3 voices of 2 speakers, 3 settings, one for each way to match phrases, 3 windows | `TextIsKept`, `ChunksFit` |
| `project_store` | a workspace chronicle and a linked one, 2 callers, 3 calls of any kind in any order | `TypeOK`, `OneEngine`, `DeletedIsGone`, `LookKeepsTheLink`, `EveryCallReturns` |
| `recorder` | 2 takes, of 2 blocks and 1, 2 clicks on Save | `TypeOK`, `SavedIsTheTake`, `TakeIsKept` |
| `view_scopes` | 2 click handlers and the worker, 2 cleanups, 2 chronicles, 3 scopes | `ViewsTypeOK`, `SessionsAccounted`, `ShownIsCurrent` |
| `chronicle_operations` | 2 chronicles, 2 jobs and the worker, 2 clicks, also on one form, columns of two values | `TypeOK`, `FormsKeepTheirChronicle`, `OthersColumnsStay` |
| `remote_imports` | 2 clients, one import each of files of one name, 2 versions, one death of the server, a linked chronicle | `TypeOK`, `ImportsKeepPromise` |
| `configuration` | 3 starts, 6 environments, 4 sets of files to begin with | `TypeOK`, `SavedIsRead`, `EnvironmentStaysOut`, `StartsTheSame` |

Why the bounds suffice. Two tasks are enough for the worker: it holds one task at a time, and
tasks meet only in the order of claiming and in recovery, where a second task shows a row
passed over or a set of rows recovered together. Three attempts with two clicks pass both
retry delays, the exhausted budget and a revived row. One fault of each kind, at any step and
in any order, includes a crash during recovery from a stop and the reverse; `audio_tracks`
has two of them, since the second may come between recovery's commit and its hooks. One track
suffices for `audio_tracks` because handlers touch the row, the copy and the lines of one file
only; the one way tracks do meet, a shared copy, has a run of its own. Its two contents tell
current from stale, and may be put back later.

`transcript_edits` keeps two snapshots instead of three, so that three runs of the clean (its
own, the one after the fault, the one after the retry) already prune. Its files are two
lines, one of them junk, and one line: enough to drop, to join and to have a line twice.
One edit suffices for each of the properties; users who have none left do not load lines.
In `transcript_text` a rule looks at a line, at the one before it and at the nearest earlier
one of that speaker, so three lines show each rule and any two of them in a row. The windows
leave budgets smaller than a turn, the size of one, and the size of several.

In `project_store` two callers are a holder of the lock and one who waits, or an opener and
a deleter; the third call comes after one of them has returned, failed or been cancelled. The
second take of `recorder` is the one that is started while the first is being saved; two
blocks show an order. Three scopes are the view's, the next view's and the model list's, and
two handlers already overlap in each way. Two clicks are a form and what is opened behind
its picker, with the worker beside both. Two imports of one name meet in `imports/` and in
`sources/`; the server dies in the middle of either. Three starts are a set-up, a start in
another environment, and one in the first again.

Symmetry is used for the contents, the clicks on Save, the handlers, the jobs and
the chronicles where no action tells them apart; never in a run with a liveness property.

Deadlock is checked where the system must be able to go on (`worker_*`, `audio_tracks`). The
others may stop: their clicks, starts or scopes run out, or nobody has to ask for more.

### Properties

*Worker.* `RunsPaidFor`: each run of a task costs an attempt, a click or a stop, so a task
that kills the process cannot run on every start. `AttemptBudget`: a task never exceeds its
budget plus one per click and per outcome written twice, has no more attempts than runs but
for the latter, and does not fail before they are counted. `WorkingIsRunning`: after recovery a
WORKING row is the one being run, unless a lock outlasted a write, the exception
`docs/tasks.md:62` names. `FailedIsTidied`: a task that recovery failed has its audio source
settled, with one interruption and no lock. `AnnouncedIsRecorded`: events and rows agree.
`TerminalIsStable`: only a click or a deletion takes a task out of DONE or FAILED.
`EveryTaskEnds`: liveness. `Lifecycle`: each row lives as `TaskLifecycle` says, but for the
steps that find it `Astray`.

*Tracks.* `LinesAreTheTrack`: a track called transcribed has the lines of one run that
heard this track in its present content. `CopyIsTheTrack`: a copy called normalized is whole
and of this content. Both except tracks replaced under a handler that had read them
(`swapped`). `RunningIsRun`: a track shown at work has a task at work, or queued, or about to be
cleaned up after; it excepts the `unsettled`.

*Transcript.* `UntouchedHasCopy`: what a clean rewrites is in a snapshot to the letter,
unless a user changed it after the snapshot. `OriginalKept`: once a clean has rewritten
the lines, the oldest snapshot is whole and from before, unless one was cut short, by a crash
or a `VACUUM INTO` that failed (`torn`). `OverwritesOnce`: an import that overwrites has each
line of its file in the transcript once, however often it was retried, interrupted or
followed by a clean. `SummariesNumbered`: no two summaries share a number.

*Text.* `TextIsKept`: an import has every turn of its file that is under a name, with all that it
says, and a clean drops, joins and changes no line but by what its rules say. `ChunksFit`: the
chunks of a summary are the transcript, in order, and none is over the budget but for one turn
that is.

*Project stores.* `OneEngine`: a project is created and migrated at most once at a time, no
two migrations overlap, and a closed engine is never handed out. `DeletedIsGone`: a deletion
leaves no database behind, except for `raced` and `stuck`. `LookKeepsTheLink`: what is made
where a linked file was is made by an export or a clean's copy, which do not look, or by a
caller whose file was moved after its look. It says how far that look goes, which is less than
the documentation promises (see below).
`EveryCallReturns`: the migration lock outlives no failure and no cancellation.

*Recording.* `TakeIsKept`: the file has the blocks that were delivered in their order, each
once, and a stop that returns in time hands over everything delivered before it was asked
for. What is delivered between the ask and the end of the stream may be left out. `SavedIsTheTake`:
what is stored of such a take is its whole file.

*Views.* `SessionsAccounted`: a session that holds a connection is the view's, the model
list's, or was opened again by a view that had been left (`late`): `update_view`, `go_back` and
`cleanup` lose none, also when they overlap, fail or are cancelled. Once the engines are disposed
the view's is closed too, unless cleanup was `crossed`. `ShownIsCurrent`: when no update is
under way, the screen shows where the user is, with the scope that is kept, unless one
began inside another or failed (`overlapped`, `failed`).

*Operations.* `FormsKeepTheirChronicle`: an edit or an imported transcript goes to the
chronicle its form was opened for, as long as no other form is opened and this one is not
answered again meanwhile. `OthersColumnsStay`: whole-row writes change no column that is not
theirs, unless that column was changed between the writer's two reads of the row (`raced`). The
duration is the worker's and the edit form's both: an edit writes the one its form shows.

*Remote imports.* `ImportsKeepPromise`: refinement of `ImportPromise`: an import is stored at most
once, and "done" means one whole file; one that failed for its client may leave a part of its
file, or be stored yet.

*Configuration.* `SavedIsRead`: what a save wrote is what the next process reads.
`EnvironmentStaysOut`: a key that only the environment has gets into no file.
`StartsTheSame`: once set up, the desktop comes up as the same and does not ask again. Three
kinds of environment are excepted (`Agrees`): one that sets the mode, one that sets a key or
an address to nothing, and a .env file. All three assume a .env that stays as it is while a
process runs.

Fairness of `worker_live`: the loop runs as long as the process lives and
handlers return (weak fairness of `WorkerStep`), the clock reaches `not_before` (of
`Elapse`), and the workspace is opened again (of `Start`). Fairness of `project_store`: a
coroutine that can go on does (weak fairness of `CallerStep`; the event loop is fair, the
lock serves in turn, and a migration or a statement ends or fails). There is no fairness for
users or faults, and none in the other specifications, whose properties are safety.

## Findings

`other_tracks_copy`: `talk.mp3` and `talk.wav` share `talk.normalized.wav`; one is
transcribed from the other's audio, while `transcription_source` promises "the normalized copy
of `source`" (`processing/handlers/normalizing.py:105`).

## Promises the code does not keep

Some sentences of the documentation say more than the code does. Each is a definition of its
module, beside the property that says what does hold, and TLC refutes it in the models: put
its name in place of the properties of the module's run, under INVARIANT or, where marked (a),
under PROPERTY.

| Definition | The sentence | What the code does |
|---|---|---|
| `FailedHadItsRuns` (`WorkerLoop`) | "a transcription is not retried automatically [...] Every other type keeps 3" (`docs/tasks.md:43`) | a stop that finds the commit of a failure in flight has it written again, which counts it twice (`workers.py:203`, `task_repository.py:99`): a NORMALIZE may be FAILED after two runs |
| `RetryFindsNoRun` (a) (`WorkerLoop`) | "The Tasks view does not offer retry on `WORKING` [...] retrying it would run it twice" (`docs/tasks.md:105`) | the list is loaded again awaits after the click, and a second click meanwhile puts back the row that runs (`views/tasks.py:95`) |
| `FailureIsShown` (`AudioTracks`) | "a failure records it and leaves it visible in the Sources panel rather than only in the task list" (`docs/audio-sources.md:56`) | a failure after the transcription itself rolls the lines back and leaves the source RUNNING (`transcribing.py:134`) |
| `ReplacedIsRedone` (`AudioTracks`) | "Replace a file and its work re-runs" (`docs/audio-sources.md:31`) | the fingerprint is taken after the transcription, so a file replaced meanwhile counts as done (`transcribing.py:125`) |
| `OldestIsBeforeAnyClean` (`TranscriptEdits`) | "the oldest, which holds the transcript as it was before any clean" (`cleaning.py:22`) | the file of a `VACUUM INTO` that failed or was cut off stays and may be the oldest (`database_manager.py:191`, `cleaning.py:98`) |
| `ImportsOnce` (`TranscriptEdits`) | "harmless for an import or a transcription, which replace their lines" (`docs/tasks.md:93`) | an appending import that runs again appends again (`importing.py:50`) |
| `RewriteHasCopy` (a) (`TranscriptEdits`) | "nothing is rewritten without a copy to go back to" (`cleaning.py:46`) | a correction saved between the snapshot and the write is overwritten, and no snapshot has it (`cleaning.py:55`) |
| `OnlyPreviousIsRepeated` (`TranscriptText`) | "Removes a line repeating that speaker's previous line within the time window" (`cleaners.py:125`) | a repeat is dropped also when the speaker said something else in between (`cleaners.py:133`) |
| `ReadingCreatesNothing` (`ProjectStore`) | "Reading a chronicle [...] whose linked `project.db` has moved, raises [...] rather than creating a new empty database" (`docs/audio-sources.md:108`) | `snapshot_project` does not look: an export, which reads, makes one (`database_manager.py:188`); so does a clean's copy |
| `NoDatabaseForTheDeleted` (`ProjectStore`) | "Raises LookupError for a chronicle with no row [...] instead of creating a new empty database" (`handlers/base.py:88`) | the row is checked awaits before the database is opened (`handlers/base.py:92`) |
| `NoneOpenAtDisposal` (a) (`ViewScopes`) | "Every session this app opened has to be closed before the engines are disposed" (`app.py:125`) | a refresh of the model list, a query of a view that was left or an update in flight holds one (`app.py:136`) |
| `LeftScopesAreClosed` (`ViewScopes`) | "Each navigation gets a fresh `Container` scope, closed when navigating away" (`docs/desktop.md:42`) | the tasks of the view go on, and their next query opens the session again (`views/tasks.py:99`) |
| `StateIsOnScreen` (`ViewScopes`) | "Which view is on screen and, for the transcript view, which chronicle it's showing" (`desktop/state.py:22`) | of two updates the one that began first may end last (`app.py:269`) |
| `QueuedIsWritten` (`Recorder`) | "`stop()` stops the stream first, then joins the writer, so anything still queued is written" (`docs/recording.md:40`) | `_running` is cleared before the stream is stopped, and what comes in between may stay queued (`recorder.py:140`) |
| `ReturnsFinishedFile` (`Recorder`) | "Stops and returns the finished file" (`recorder.py:136`) | the join gives up after ten seconds (`recorder.py:146`) |
| `ImportsIntoTheRemembered` (`ChronicleOperations`) | "imports into the remembered chronicle" (`tests/chronicler/desktop/test_operations.py:160`) | `_pending` is read after the file dialog: it may be another form's, or None after a second click, which makes a new chronicle (`operations.py:124`) |

## Observed

What the models do besides, and the exceptions in the properties allow. None of it breaks a
promise of the documentation, unless one is named.

*Worker, tracks, transcript, store.*

* The Tasks view offers retry on DONE rows, and a DONE task has attempts left: one click may
  buy three runs.
* A name that an editor and an import add at the same time gets two rows, and
  `scalar_one_or_none` raises for it ever after.
* `init_archive` takes the lock before it makes `imports/`, outside the `try`. The thread of a
  cancelled normalization may write its copy after the lock of its process is released.

*Text.*

* A row under a blank name loses its text and what follows it, uncounted; so do the rows
  before the first name.
* Cleaning again after a merge, or after `strip_patterns` left double spaces, may drop more,
  though `docs/tasks.md:93` calls another run harmless. A merged line ends where its last part
  ends, not the latest.
* Repeats are dropped across tracks, so transcribing one track anew loses the other's line.
* `format_timestamp` with milliseconds writes a comma, which `parse_timestamp`, its inverse,
  does not take. A transcript of blank lines asks for a summary of nothing. The summary of
  many chunks is not itself chunked, and the least budget of 256 ignores a smaller window.

*Recording, views, operations.*

* A second Start that fails makes Save forget the earlier take without a word
  (`recording.py:133`).
* `docs/desktop.md` says that awaiting the picker removes the state machine of file dialogs;
  `self._pending` is still read after it, and `finish_edit` reads the fields after
  `get_chronicle` (`operations.py:194`).
* The edit form's duration overwrites what TRANSCRIBE wrote. `add_audio_source` does not check
  the row, so the folder of a deleted chronicle comes back. A second import, before the first
  has run, overwrites without asking. A link that fails while it is read leaves its row
  (`chronicle_service.py:56`). Two clicks on Create make two chronicles.

*Remote imports.*

* A failed import may still be stored later; clicking again stores it under "name (1)".
* An upload that breaks off with an `OSError`, or with the server, leaves its part in
  `imports/`, where nothing is ever deleted. A new chronicle stays when the next call fails.
* A move to a linked chronicle on another file system that breaks off leaves half a track.
* A server replaced by another version after the handshake is not noticed.

*Configuration.*

* A key typed in the wizard is lost when a .env sets one and the file has an explicit null.
  A value of the file that the environment repeats is dropped at the next save, and that of
  a legacy `settings.json` is not carried over.
* The settings page takes `bool(server_url)` for the thin client (`settings/view.py:54`),
  which the start does not. A `CHRONICLER_MODE` that contradicts the wizard makes
  `build_runtime` raise.
* A setting whose save failed stays in effect though it is reported failed, and the file was
  truncated before it was written (`config.py:216`). A section that was not valid is
  replaced at the next save.

## Proofs

The theorems hold for any values of the constants, within each module's named assumption
(`TableAssumption`, `LoopAssumption`, `RecorderAssumption`, ...), which states the types of
the constants and what distinguishes the model values; TLC evaluates them in the runs. Five
theorems have a hypothesis of their own, named below. Every invariant was checked by TLC
before it was proved. Each proof has a lemma per invariant part, in it a step per action.

`WorkerLoopProofs`: `TypeOK`, `RunsPaidFor`, `AttemptBudget`, `QueuedRowIsClean`,
`TerminalIsStable`, `AnnouncedIsRecorded`, `WorkingIsRunning`, `FailedIsTidied`, `Lifecycle`.
None is inductive alone. `IInv` adds `Control` (at `load`, `run` and `record` the
current row is due and not terminal, at `claim` the candidates are due, at `again` it
shows what was written, or was put back or deleted), `FreshRow` (an uncreated row is blank),
`AttemptLeft` (a row that may still run has an attempt, a click or a repeat left) and
`RunsNotCounted` (a run at work is not counted as an attempt yet). A stale click is why `Control`
cannot say that the current row is WORKING. `AnnouncedIsRecorded` adds `Announcing` (what is
about to be published is not WORKING), `WorkingIsRunning` `Recovered`, `FailedIsTidied` `Tidied`.
The proofs first show that every step changes the table by one of a few row transitions
(`NextIsTableStep`), then treat each transition once. `LifeIsKept`, the refinement, goes row by
row: each of these moves is a step of the life or finds the row astray (`RowMovesIsLife`).

`AudioTracksProofs`: `TypeOK` and `RunningIsRun` from `Places` (no handler without its task, no
hook but after recovery), `TrackIsThere` and `AtWorkBy` (a track at work and not unsettled has
the task that marked it, running, queued or to be tidied); `CopyIsTheTrack` from `ReadIsTrack`
(what the handler has read is the track, unless it was replaced) and `CopyKept`;
`LinesAreTheTrack` from these and `LinesKept`. The last two assume `OwnCopies`, that no two
tracks share a copy, for any number of tracks: without it the finding refutes them.
`OwnCopiesAreHeard` says of the finding itself that nothing else is behind it: with `OwnCopies`,
`HearsItsTrack` holds, by `CopyOwned` and `HeardIsOwn`. `TaskIsHeld` says that the lifecycle's
guards never keep a handler from ending its task: its row is still WORKING.

`TranscriptProofs`, the edits: `TypeOK`; `SummariesNumbered` from `NumbersApart` (also of the number
that was picked and not yet used); `OriginalKept` and `UntouchedHasCopy` from `CopiesKept` and
`NewestIsLines`, with the hypothesis that `None` is no transcript, the first for as long as no
snapshot was cut short; `OverwritesOnce` from
`PiecesApart` and `OneRun`. A line's pieces lie between its number and the next line's,
so no piece is in two lines; and the pieces of an overwriting import that anybody has, in the
lines, in an editor's view or in what a clean has read, are of one run. `TaskIsHeld` is as for
the tracks; `QueueMoves` lists what a step does to the queue.

`TranscriptProofs`, the text: `TextIsKept` and `ChunksFit`, for any words, settings, files and
windows and for transcripts of any length. The only invariant they need is that the lines of
the transcript are lines (`LinesOK`). The work is in the algorithms: each fold of the model is
shown to be a walk along its sequence (`FoldWalk`), and what it builds is then followed one
element at a time by induction over the natural numbers, which `Induct` derives from the least
element of a set. `Picks` says which elements a rule has kept and in which order, so that
the rules of a clean compose (`PicksOfPicks`) to the sets `Listed` names. `LinesJoined` says, line
by line, from which parts a merge has made it, `ReadUpTo` which turns of a file are closed and
what the open one says so far, and `FullAndFilling` that every full chunk is under the budget and
had no room for the turn that begins the next.

`ProjectStoreProofs`: `TypeOK`, `OneEngine`,
`DeletedIsGone` and `LookKeepsTheLink`, for any chronicles, callers and number
of calls. For `OneEngine`, `IInv` says that the lock's queue is exactly who is at it
(`InOrder`), that whoever migrates has a new engine for a chronicle with nothing cached
(`Migrating`, `PathFound`), and that no other engine is new and none cached outside the cache
(`Accounted`, `CacheHolds`, `UsesEngine`). It is needed because a deletion empties the cache
without the lock: it never meets a migration of the same chronicle only since what it removes
was cached. For the files, `FInv` adds that a chronicle being opened still has its row unless
it raced (`RowOfOpening`, so nobody makes a file after a deletion), that a linked one is
opened by its link only, so that a deletion that skips the files leaves none, and that a
file seen at the check is there until the end unless its owner moved it (`FileIsThere`), which
is what `LookKeepsTheLink` comes down to.

`RecorderProofs`: `TypeOK`, `TakeIsKept`, `SavedIsTheTake`, for any number of takes and blocks.
File, block in hand and queue together are what was heard (`InOrder`), and where the writer is
says what it can have missed (`WriterPlace`): it ends only after it saw `_running` cleared
and then an empty queue. `LoopPlace`, `SavesStopped` and `StoredStopped` tie the dialog to it.

`ChronicleOperationsProofs`: `TypeOK`, `FormsKeepTheirChronicle`, `OthersColumnsStay`. A form
or a job that still looks at what is shared is the only one as long as it is alone
(`FormsAlone`, `JobsAlone`), though nothing keeps a form from being answered twice; and a writer
that was not raced holds the columns of others as they are (`Fresh`).

`RemoteCallsProofs`: `TypeOK`, and the refinement of `ImportPromise`. `InStep` ties what the
client knows to what the server does, `Staged` a path to its click, `Kept` what is stored to
the call that stores it; each step of the server then stores once or nothing (`StoreOnce`).

`DesktopProofs`, the views: `ViewsTypeOK`, `SessionsAccounted`, `ShownIsCurrent`, for any
number of handlers, chronicles and scopes. `SessionInv` is what the first rests on: until an
update began inside another's (`overlapped`), one actor at a time is in an update (`Alone`);
the scope that is being closed is the view's, and one actor closes it (`ClosesScope`); and
an open session is the view's, the model list's or late (`Counted`). `Ended` says of a cleanup
that was not crossed that no update is left under it, and that the view has no scope once
the window is closed (`AfterEnd`). `Made` gives
the model list a scope of its own. For the screen, `Placed` says what an update that waits
has still to show, and that nothing else is left to show.

`DesktopProofs`, the configuration: `TypeOK`, `SavedIsRead`, `EnvironmentStaysOut`,
`StartsTheSame`, for any environments, first files and starts. `SaveWrites` is the lemma they
rest on: the file a save writes is the one the next process reads, whichever files there are.
`KeyIsOutside` says that a key of the environment is in memory or in the wizard's hands only
while the environment has it, so that the save that follows leaves it out; it is about every
file, since a file not written may become the one read. `Asked` is what the wizard knows at each
step, so that what it finishes with is complete. `SetUp` says that memory, file and environment
agree once the desktop is set up, and that no save since takes away what it came up with.

Model-checked only: the liveness properties `EveryTaskEnds` and `EveryCallReturns`.
`HearsItsTrack` is violated where two tracks share a copy.

## Not modelled

* Within modelled parts: the progress column of tasks; which speaker a track has; the
  workspace lock, `close_all` and the bundle of an export; search, tags and known speakers
  (set insertions and a counter for suggestions); keys and encoding of remote calls; the
  line editor's layout; time stamps and subtitles.
* In files that cannot be parsed the handler fails as it does on a lock.
* Guarded regular expressions: whether a pattern is safe is a question about the engine that
  matches it. A refused pattern is a failing IMPORT or CLEAN.
* Language model client: one request and the reading of its answer; its failures are a failing
  SUMMARIZE.
* Exports, service information, translations, widgets and layout: no state that anything
  else depends on.
* Migrations: what Alembic does to a schema; that they run one at a time is in `ProjectStore`.
* Packaging and the scripts that build releases: not part of the running program.
* What SQLite, Whisper, PyAV, Flet and HTTP do inside: external, modelled by how the code
  uses them.

## What is left

Models of the workspace lock with `close_all`, of the bundles, and of the registration of known
speakers.

------------------------------ MODULE Recorder ------------------------------
(***************************************************************************)
(* Recording a source: the dialog (views/transcript/recording.py) on the   *)
(* event loop, a Recorder (core/recording/recorder.py) for each time       *)
(* recording is started, the callback by which the audio backend delivers  *)
(* blocks on a thread of its own, and the writer thread that drains the    *)
(* queue into a WAV file.                                                  *)
(*                                                                         *)
(* Recorder.stop blocks the event loop, so nothing else of the dialog runs *)
(* until it returns; the two threads go on.  A block is its number, so     *)
(* that a lost or repeated block shows.                                    *)
(***************************************************************************)
EXTENDS Naturals, Sequences

CONSTANTS
    MaxTakes,   \* bound: how often recording is started
    MaxBlocks,  \* bound: blocks delivered to each recorder
    Saves,      \* bound: the clicks on Save
    None        \* no block, no file, no click

Takes == 1..MaxTakes
Blocks == Nat \ {0}
File == Seq(Blocks)

ASSUME RecorderAssumption ==
    /\ MaxTakes \in Nat
    /\ MaxBlocks \in [Takes -> Nat]
    /\ None \notin Blocks \cup Saves \cup File

VARIABLES
    dialog,     \* whether the dialog is shown
    take,       \* the recorder it has; 0 is None
    loop,       \* what blocks the event loop: a stop, and where that is
    asker,      \* the click on Save that called stop; None for the other handlers
    running,    \* Recorder._running
    stream,     \* Recorder._stream
    queue,      \* Recorder._queue
    writer,     \* where the writer thread is
    block,      \* the block it took from the queue
    wav,        \* the blocks in the temporary file, None while there is none
    error,      \* Recorder._error
    saving,     \* where each click on Save is
    path,       \* the take whose file it saves
    staged,     \* the copy made of it
    stored,     \* the audio sources added
    heard,      \* history: the blocks delivered to each recorder
    due,        \* history: how many there were when it was asked to stop
    ended       \* history: how its stop returned

recorders == <<running, stream, queue, writer, block, wav, error>>
files == <<saving, path, staged, stored>>
history == <<heard, due, ended>>
vars == <<dialog, take, loop, asker, recorders, files, history>>

TypeOK ==
    /\ dialog \in {"new", "open", "closing", "closed"}
    /\ take \in 0..MaxTakes
    /\ loop \in {"free", "stream", "join"}
    /\ asker \in Saves \cup {None}
    /\ running \in [Takes -> BOOLEAN]
    /\ stream \in [Takes -> {"none", "open", "closed"}]
    /\ queue \in [Takes -> File]
    /\ writer \in [Takes -> {"none", "open", "test", "get", "write", "done"}]
    /\ block \in [Takes -> Blocks \cup {None}]
    /\ wav \in [Takes -> File \cup {None}]
    /\ error \in [Takes -> BOOLEAN]
    /\ saving \in [Saves -> {"none", "stopping", "stage", "add", "over"}]
    /\ path \in [Saves -> 0..MaxTakes]
    /\ staged \in [Saves -> File]
    /\ stored \subseteq [take : Takes, blocks : File]
    /\ heard \in [Takes -> File]
    /\ due \in [Takes -> Nat]
    /\ ended \in [Takes -> {"no", "whole", "raised", "late"}]

Init ==
    /\ dialog = "new"
    /\ take = 0
    /\ loop = "free"
    /\ asker = None
    /\ running = [r \in Takes |-> FALSE]
    /\ stream = [r \in Takes |-> "none"]
    /\ queue = [r \in Takes |-> <<>>]
    /\ writer = [r \in Takes |-> "none"]
    /\ block = [r \in Takes |-> None]
    /\ wav = [r \in Takes |-> None]
    /\ error = [r \in Takes |-> FALSE]
    /\ saving = [s \in Saves |-> "none"]
    /\ path = [s \in Saves |-> 0]
    /\ staged = [s \in Saves |-> <<>>]
    /\ stored = {}
    /\ heard = [r \in Takes |-> <<>>]
    /\ due = [r \in Takes |-> 0]
    /\ ended = [r \in Takes |-> "no"]

IsRecording == take # 0 /\ running[take]

\* RecordingDialog.run: shown when the extra is there and a device was found.
Open ==
    /\ dialog = "new"
    /\ dialog' = "open"
    /\ UNCHANGED <<take, loop, asker, recorders, files, history>>
-----------------------------------------------------------------------------
(* The threads of a recorder. *)

\* on_audio: the backend delivers a block, also while stream.stop() waits for it.
OnAudio(r) ==
    /\ stream[r] = "open"
    /\ Len(heard[r]) < MaxBlocks[r]
    /\ heard' = [heard EXCEPT ![r] = Append(@, Len(@) + 1)]
    /\ queue' = [queue EXCEPT ![r] = Append(@, Len(heard[r]) + 1)]
    /\ UNCHANGED <<dialog, take, loop, asker, running, stream, writer, block, wav, error,
                   files, due, ended>>

\* wave.open; a failure is kept in _error and ends the thread.
WriterOpen(r) ==
    /\ writer[r] = "open"
    /\ \/ /\ wav' = [wav EXCEPT ![r] = <<>>]
          /\ writer' = [writer EXCEPT ![r] = "test"]
          /\ UNCHANGED error
       \/ /\ error' = [error EXCEPT ![r] = TRUE]
          /\ writer' = [writer EXCEPT ![r] = "done"]
          /\ UNCHANGED wav
    /\ UNCHANGED <<dialog, take, loop, asker, running, stream, queue, block, files, history>>

\* Mutant: the writer stops with the recording, whatever is queued.
GoesOnWhileRunning(r) == running[r]

\* The condition of the loop: a recorder is not started twice, so that _running, read first,
\* can only have become false since.
GoesOn(r) == running[r] \/ queue[r] # <<>>

WriterTest(r) ==
    /\ writer[r] = "test"
    /\ writer' = [writer EXCEPT ![r] = IF GoesOn(r) THEN "get" ELSE "done"]
    /\ UNCHANGED <<dialog, take, loop, asker, running, stream, queue, block, wav, error,
                   files, history>>

\* queue.get(timeout=0.1); Empty goes back to the condition.
WriterGet(r) ==
    /\ writer[r] = "get"
    /\ IF queue[r] = <<>>
       THEN /\ writer' = [writer EXCEPT ![r] = "test"]
            /\ UNCHANGED <<queue, block>>
       ELSE /\ writer' = [writer EXCEPT ![r] = "write"]
            /\ block' = [block EXCEPT ![r] = Head(queue[r])]
            /\ queue' = [queue EXCEPT ![r] = Tail(@)]
    /\ UNCHANGED <<dialog, take, loop, asker, running, stream, wav, error, files, history>>

\* writeframes, which may fail (a full disk); the file is closed either way.
WriterWrite(r) ==
    /\ writer[r] = "write"
    /\ block' = [block EXCEPT ![r] = None]
    /\ \/ /\ wav' = [wav EXCEPT ![r] = Append(@, block[r])]
          /\ writer' = [writer EXCEPT ![r] = "test"]
          /\ UNCHANGED error
       \/ /\ error' = [error EXCEPT ![r] = TRUE]
          /\ writer' = [writer EXCEPT ![r] = "done"]
          /\ UNCHANGED wav
    /\ UNCHANGED <<dialog, take, loop, asker, running, stream, queue, files, history>>

Threads(r) ==
    \/ OnAudio(r)
    \/ WriterOpen(r)
    \/ WriterTest(r)
    \/ WriterGet(r)
    \/ WriterWrite(r)
-----------------------------------------------------------------------------
(* The dialog's handlers, and stop. *)

\* Recorder.start: the device opens and delivers, then the writer starts.
Started(r) ==
    /\ running' = [running EXCEPT ![r] = TRUE]
    /\ stream' = [stream EXCEPT ![r] = "open"]
    /\ writer' = [writer EXCEPT ![r] = "open"]

\* _start: a recorder and a temporary file of its own each time; a device that does not
\* open is shown, and leaves the dialog with a recorder that has no file.
StartClicked ==
    /\ dialog = "open" /\ loop = "free"
    /\ ~IsRecording
    /\ take < MaxTakes
    /\ take' = take + 1
    /\ Started(take + 1) \/ UNCHANGED <<running, stream, writer>>
    /\ UNCHANGED <<dialog, loop, asker, queue, block, wav, error, files, history>>

\* Recorder.stop up to stream.stop().
AskStop(who) ==
    /\ running' = [running EXCEPT ![take] = FALSE]
    /\ due' = [due EXCEPT ![take] = Len(heard[take])]
    /\ asker' = who
    /\ loop' = "stream"
    /\ UNCHANGED <<stream, queue, writer, block, wav, error, heard, ended>>

\* _stop.
StopClicked ==
    /\ dialog = "open" /\ loop = "free"
    /\ IsRecording
    /\ AskStop(None)
    /\ UNCHANGED <<dialog, take, files>>

\* Mutant: whether there is a file is not looked at.
FileUnseen(s) ==
    /\ saving' = [saving EXCEPT ![s] = IF take # 0 THEN "stage" ELSE "over"]
    /\ path' = [path EXCEPT ![s] = take]

\* _finish once nothing records: the current temporary file, if there is one.
FileChosen(s) ==
    IF take # 0 /\ wav[take] # None
    THEN /\ saving' = [saving EXCEPT ![s] = "stage"]
         /\ path' = [path EXCEPT ![s] = take]
    ELSE /\ saving' = [saving EXCEPT ![s] = "over"]
         /\ UNCHANGED path

\* Mutant: Save takes the file as it is.
SaveUnstopped(s) ==
    /\ dialog = "open" /\ loop = "free"
    /\ saving[s] = "none"
    /\ FileChosen(s)
    /\ UNCHANGED <<dialog, take, loop, asker, recorders, staged, stored, history>>

\* _finish.  The dialog stays open: on_choice only makes a handler.
SaveClicked(s) ==
    /\ dialog = "open" /\ loop = "free"
    /\ saving[s] = "none"
    /\ IF IsRecording
       THEN /\ AskStop(s)
            /\ saving' = [saving EXCEPT ![s] = "stopping"]
            /\ UNCHANGED path
       ELSE /\ FileChosen(s)
            /\ UNCHANGED <<loop, asker, recorders, history>>
    /\ UNCHANGED <<dialog, take, staged, stored>>

CloseClicked ==
    /\ dialog = "open" /\ loop = "free"
    /\ dialog' = "closing"
    /\ UNCHANGED <<take, loop, asker, recorders, files, history>>

\* run after the dialog: stops what is still recording; its file is not saved.
Closed ==
    /\ dialog = "closing" /\ loop = "free"
    /\ dialog' = "closed"
    /\ IF IsRecording
       THEN AskStop(None)
       ELSE UNCHANGED <<loop, asker, recorders, history>>
    /\ UNCHANGED <<take, files>>

\* stop returned or raised: _stop shows an error, run and _finish do not catch it.
StopEnds(how) ==
    /\ loop' = "free"
    /\ ended' = [ended EXCEPT ![take] = how]
    /\ IF asker = None
       THEN UNCHANGED <<asker, saving, path>>
       ELSE /\ asker' = None
            /\ IF how = "raised"
               THEN saving' = [saving EXCEPT ![asker] = "over"] /\ UNCHANGED path
               ELSE FileChosen(asker)

\* stream.stop() and close(), which may raise.
StopStream ==
    /\ loop = "stream"
    /\ \/ /\ stream' = [stream EXCEPT ![take] = "closed"]
          /\ loop' = "join"
          /\ UNCHANGED <<asker, saving, path, ended>>
       \/ /\ StopEnds("raised")
          /\ UNCHANGED stream
    /\ UNCHANGED <<dialog, take, running, queue, writer, block, wav, error, staged,
                   stored, heard, due>>

\* join(timeout=10), then the look at _error.
Join ==
    /\ loop = "join"
    /\ StopEnds(IF error[take] THEN "raised"
                ELSE IF writer[take] = "done" THEN "whole" ELSE "late")
    /\ UNCHANGED <<dialog, take, recorders, staged, stored, heard, due>>

\* FileStager.stage: a copy of the file, or an upload of it.
Stage(s) ==
    /\ saving[s] = "stage" /\ loop = "free"
    /\ \/ /\ staged' = [staged EXCEPT ![s] = wav[path[s]]]
          /\ saving' = [saving EXCEPT ![s] = "add"]
          /\ UNCHANGED path
       \/ /\ saving' = [saving EXCEPT ![s] = "over"]
          /\ path' = [path EXCEPT ![s] = 0]
          /\ UNCHANGED staged
    /\ UNCHANGED <<dialog, take, loop, asker, recorders, stored, history>>

\* add_audio_source: the copy becomes a source under a free name.
Add(s) ==
    /\ saving[s] = "add" /\ loop = "free"
    /\ \/ /\ stored' = stored \cup {[take |-> path[s], blocks |-> staged[s]]}
          /\ saving' = [saving EXCEPT ![s] = "over"]
       \/ /\ saving' = [saving EXCEPT ![s] = "over"]
          /\ UNCHANGED stored
    /\ path' = [path EXCEPT ![s] = 0]
    /\ staged' = [staged EXCEPT ![s] = <<>>]
    /\ UNCHANGED <<dialog, take, loop, asker, recorders, history>>

Next ==
    \/ Open \/ StartClicked \/ StopClicked \/ CloseClicked \/ Closed
    \/ StopStream \/ Join
    \/ \E s \in Saves : SaveClicked(s) \/ Stage(s) \/ Add(s)
    \/ \E r \in Takes : Threads(r)

Spec == Init /\ [][Next]_vars
-----------------------------------------------------------------------------
(* Properties. *)

State(r) ==
    IF ended[r] # "no" THEN ended[r]
    ELSE IF running[r] THEN "on"
    ELSE IF stream[r] = "none" THEN "new" ELSE "stopping"

Take(r) == INSTANCE TakeFile WITH
    heard <- heard[r],
    kept <- IF wav[r] = None THEN <<>> ELSE wav[r],
    state <- State(r),
    due <- due[r],
    Blocks <- 1..MaxBlocks[r]

\* Each recorder keeps to TakeFile: what is in the file was delivered, in order and without a
\* gap or a repeat, and a stop that returns in time hands over a finished file with all that
\* was delivered before it was asked for, although _running is cleared before the stream
\* stops.  What is delivered in between may be left out: see QueuedIsWritten.
TakeIsKept ==
    /\ \A r \in Takes : Take(r)!TInit
    /\ [][\A r \in Takes : [Take(r)!TNext]_(Take(r)!take)]_vars

\* What was stored of a take that stopped in time is the whole of its file, however often
\* Save, Stop and Start were clicked meanwhile.  Not so where join gave up or an error was
\* raised: a second Save stores such a file as it is.
SavedIsTheTake ==
    \A x \in stored : ended[x.take] = "whole" => x.blocks = wav[x.take]

\* "stop() stops the stream first, then joins the writer, so anything still queued is written
\* before the file is closed" (docs/recording.md:40-41): nothing is left in the queue of a
\* recording whose stop returned in time.
QueuedIsWritten == \A r \in Takes : ended[r] = "whole" => queue[r] = <<>>

\* "Stops and returns the finished file" (recorder.py:136): no writer is at work on a file
\* that stop has returned.
ReturnsFinishedFile == \A r \in Takes : ended[r] \in {"whole", "late"} => writer[r] = "done"
=============================================================================

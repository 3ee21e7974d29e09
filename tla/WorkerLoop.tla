----------------------------- MODULE WorkerLoop -----------------------------
(***************************************************************************)
(* WorkerManager (core/workers.py) over the tasks table, the process it    *)
(* runs in, and the users who queue, retry and delete tasks meanwhile.     *)
(*                                                                         *)
(* The workspace lock lets one process open a workspace, so there is one   *)
(* worker.  Its control is pc, one value per await at which something else *)
(* may happen.  Three kinds of fault may hit it there: the process is      *)
(* killed ("crash"), it is stopped and the task it awaits in is cancelled  *)
(* ("stop"), or a database lock outlasts the timeout of the call ("lock"). *)
(* A lock that ends sooner only delays the call and is not a step.  A      *)
(* commit a cancel finds in flight is made all the same: the cancel then   *)
(* counts as coming after it.                                              *)
(***************************************************************************)
EXTENDS TaskTable

CONSTANTS
    Handled,    \* the types register_handler was called for
    NoTask,     \* the worker is between tasks
    MaxClicks,  \* bound: retry clicks of each task
    MaxFaults   \* bound: faults of each kind

FaultKind == {"crash", "stop", "lock"}

ASSUME LoopAssumption ==
    /\ Handled \subseteq TaskType
    /\ NoTask \notin Tasks
    /\ MaxClicks \in [Tasks -> Nat]
    /\ MaxFaults \in [FaultKind -> Nat]

VARIABLES
    pc,         \* where the worker is
    recovered,  \* WorkerManager._recovered
    cands,      \* candidate ids left to try in claim_next
    cur,        \* the task the worker is busy with
    outcome,    \* what _record_outcome is to write about it
    todo,       \* tasks recovery failed, still to be cleaned up after
    untidy,     \* tasks whose last run was cut short, their audio source still RUNNING
    listed,     \* the tasks a click on some view's retry button may still put back
    announced,  \* history: the last event published, until a retry
    claims,     \* history: how often each task was claimed
    clicks,     \* history: how often a retry of each task was clicked
    repeats,    \* history: how often an outcome was written again after its commit
    faults      \* history: how many faults of each kind there were

worker == <<pc, recovered, cands, cur, outcome, todo>>
history == <<announced, claims, clicks, repeats, faults>>
vars == <<table, worker, untidy, listed, history>>

Off == {"stopped", "crashed"}
AtTask == {"load", "run", "record", "last"}   \* it has a task whose outcome is not written
Busy == AtTask \cup {"again", "publish"}
Outcome == {"none", "done", "failed", "nohandler"}

TypeOK ==
    /\ TableTypeOK
    /\ pc \in Off \cup Busy \cup {"sleep", "recover", "tidy", "tell", "select", "claim"}
    /\ recovered \in BOOLEAN
    /\ cands \in SUBSET Tasks
    /\ cur \in Tasks \cup {NoTask}
    /\ outcome \in Outcome
    /\ todo \in SUBSET Tasks
    /\ untidy \in SUBSET Tasks
    /\ listed \in SUBSET Tasks
    /\ announced \in [Tasks -> {"none"} \cup TaskStatus]
    /\ claims \in [Tasks -> Nat]
    /\ clicks \in [Tasks -> Nat]
    /\ repeats \in [Tasks -> Nat]
    /\ faults \in [FaultKind -> Nat]

Idle == recovered = FALSE /\ cands = {} /\ cur = NoTask /\ outcome = "none" /\ todo = {}

Init ==
    /\ TableInit
    /\ pc = "stopped"
    /\ Idle
    /\ untidy = {}
    /\ listed = {}
    /\ announced = [t \in Tasks |-> "none"]
    /\ claims = [t \in Tasks |-> 0]
    /\ clicks = [t \in Tasks |-> 0]
    /\ repeats = [t \in Tasks |-> 0]
    /\ faults = [k \in FaultKind |-> 0]

Up == pc \notin Off

\* One more fault of kind k, within the bound.
Fault(k) ==
    /\ faults[k] < MaxFaults[k]
    /\ faults' = [faults EXCEPT ![k] = @ + 1]

\* The worker leaves the task it was busy with and goes to step p.
LeaveTask(p) == pc' = p /\ cur' = NoTask /\ outcome' = "none"

\* The worker's task has ended, and with it all the worker knew.
Forget ==
    /\ recovered' = FALSE /\ cands' = {} /\ cur' = NoTask /\ outcome' = "none" /\ todo' = {}

\* Types with a cleanup hook: their handler marks an audio source RUNNING.
Cleanups == {"TRANSCRIBE", "NORMALIZE"}
-----------------------------------------------------------------------------
(* Starting, recovering and sleeping: run_forever and recover_interrupted. *)

\* Mutant: nothing is recovered before the first claim.
StartAtOnce ==
    /\ pc \in Off
    /\ pc' = "select"
    /\ recovered' = TRUE
    /\ UNCHANGED <<table, cands, cur, outcome, todo, untidy, listed, history>>

Start ==
    /\ pc \in Off
    /\ pc' = "recover"
    /\ UNCHANGED <<table, recovered, cands, cur, outcome, todo, untidy, listed, history>>

\* Mutant: the cleanup hooks are forgotten.
RecoverOnly ==
    /\ pc = "recover"
    /\ RecoverInterrupted
    /\ recovered' = TRUE
    /\ pc' = "select"
    /\ UNCHANGED <<cands, cur, outcome, todo, untidy, listed, history>>

\* The repository's commit.  The tasks it failed still need their cleanup.
Recover ==
    /\ pc = "recover"
    /\ RecoverInterrupted
    /\ todo' = {t \in Interrupted : Exhausted(t)}
    /\ IF todo' = {}
       THEN recovered' = TRUE /\ pc' = "select"
       ELSE pc' = "tidy" /\ UNCHANGED recovered
    /\ UNCHANGED <<cands, cur, outcome, untidy, listed, history>>

\* The cleanup hook of one task recovery failed; its own failure is logged.
Tidy(t) ==
    /\ pc = "tidy"
    /\ t \in todo
    /\ \/ untidy' = untidy \ {t} /\ UNCHANGED faults
       \/ t \in untidy /\ Fault("lock") /\ UNCHANGED untidy
    /\ pc' = "tell"
    /\ cur' = t
    /\ UNCHANGED <<table, recovered, cands, outcome, todo, listed, announced, claims, clicks, repeats>>

\* Mutant: a task going back to the queue is announced too.
PublishAny(t) ==
    announced' = IF t \in Rows THEN [announced EXCEPT ![t] = status[t]] ELSE announced

\* _publish_completion: nothing to say of a row that is gone or PENDING.
Publish(t) ==
    announced' = IF t \in Rows /\ status[t] # "PENDING"
                 THEN [announced EXCEPT ![t] = status[t]] ELSE announced

TellRecovered ==
    /\ pc = "tell"
    /\ \/ Publish(cur) /\ UNCHANGED faults
       \/ Fault("lock") /\ UNCHANGED announced
    /\ todo' = todo \ {cur}
    /\ LeaveTask(IF todo' = {} THEN "select" ELSE "tidy")
    /\ recovered' = (todo' = {})
    /\ UNCHANGED <<table, cands, untidy, listed, claims, clicks, repeats>>

Wake ==
    /\ pc = "sleep"
    /\ pc' = IF recovered THEN "select" ELSE "recover"
    /\ UNCHANGED <<table, recovered, cands, cur, outcome, todo, untidy, listed, history>>
-----------------------------------------------------------------------------
(* Claiming: process_tasks and claim_next. *)

Select ==
    /\ pc = "select"
    /\ cands' = Candidates
    /\ pc' = IF cands' = {} THEN "sleep" ELSE "claim"
    /\ UNCHANGED <<table, recovered, cur, outcome, todo, untidy, listed, history>>

\* The UPDATE of the oldest candidate left.  When the row is no longer
\* PENDING the next one is tried, and without one there is nothing to run.
Claim(t) ==
    /\ pc = "claim"
    /\ t \in Oldest(cands)
    /\ IF status[t] = "PENDING"
       THEN /\ ClaimRow(t)
            /\ claims' = [claims EXCEPT ![t] = @ + 1]
            /\ cands' = {}
            /\ cur' = t
            /\ pc' = "load"
       ELSE /\ cands' = cands \ {t}
            /\ pc' = IF cands' = {} THEN "sleep" ELSE "claim"
            /\ UNCHANGED <<table, claims, cur>>
    /\ UNCHANGED <<recovered, outcome, todo, untidy, listed, announced, clicks, repeats, faults>>

\* get_by_id after the claim, and the start of _execute_task.
Load ==
    /\ pc = "load"
    /\ IF cur \notin Rows
       THEN LeaveTask("sleep") /\ UNCHANGED untidy
       ELSE IF TypeOf[cur] \in Handled
       THEN /\ pc' = "run"
            /\ untidy' = IF TypeOf[cur] \in Cleanups THEN untidy \cup {cur} ELSE untidy
            /\ UNCHANGED <<cur, outcome>>
       ELSE pc' = "record" /\ outcome' = "nohandler" /\ UNCHANGED <<cur, untidy>>
    /\ UNCHANGED <<table, recovered, cands, todo, listed, history>>
-----------------------------------------------------------------------------
(* Running: _execute_task, _record_outcome and _publish_completion. *)

\* The handler returns or raises, past its own failure path (AudioTracks).
HandlerEnds ==
    /\ pc = "run"
    /\ outcome' \in {"done", "failed"}
    /\ pc' = "record"
    /\ untidy' = untidy \ {cur}
    /\ UNCHANGED <<table, recovered, cands, cur, todo, listed, history>>

WriteOutcome ==
    \/ outcome = "done" /\ UpdateStatus(cur, "DONE")
    \/ outcome = "failed" /\ MarkFailedOrRetry(cur)
    \/ outcome = "nohandler" /\ UpdateStatus(cur, "FAILED")

RecordOutcome ==
    /\ pc = "record"
    /\ WriteOutcome
    /\ pc' = "publish"
    /\ UNCHANGED <<recovered, cands, cur, outcome, todo, untidy, listed, history>>

PublishCompletion ==
    /\ pc = "publish"
    /\ Publish(cur)
    /\ LeaveTask("select")
    /\ UNCHANGED <<table, recovered, cands, todo, untidy, listed, claims, clicks, repeats, faults>>
-----------------------------------------------------------------------------
(* Faults *)

\* A lock outlasts its timeout.  The exception leaves process_tasks and
\* run_forever logs it; whatever the worker was doing is forgotten.
GiveUp ==
    /\ pc \in {"recover", "select", "claim", "load", "record", "publish"}
    /\ Fault("lock")
    /\ LeaveTask("sleep")
    /\ cands' = {}
    /\ UNCHANGED <<table, recovered, todo, untidy, listed, announced, claims, clicks, repeats>>

\* cleanup cancels the worker's task wherever it awaits.  A running handler's
\* task is returned to the queue; the write is tried once, and a lock defeats it.
Stop ==
    /\ Up
    /\ \/ /\ pc = "run" /\ UpdateStatus(cur, "PENDING")
          /\ Fault("stop")
       \/ /\ pc = "run" /\ UNCHANGED table
          /\ faults["lock"] < MaxFaults["lock"] /\ faults["stop"] < MaxFaults["stop"]
          /\ faults' = [faults EXCEPT !["lock"] = @ + 1, !["stop"] = @ + 1]
       \/ /\ pc \notin {"run", "record", "last", "again"} /\ UNCHANGED table
          /\ Fault("stop")
    /\ pc' = "stopped"
    /\ Forget
    /\ UNCHANGED <<untidy, listed, announced, claims, clicks, repeats>>

\* The cancel finds _record_outcome before its write, or with the commit in
\* flight, which is made; the code cannot tell, and goes on to _last_try.
StopRecording ==
    /\ pc = "record"
    /\ Fault("stop")
    /\ \/ UNCHANGED table /\ pc' = "last"
       \/ WriteOutcome /\ pc' = "again"
    /\ UNCHANGED <<recovered, cands, cur, outcome, todo, untidy, listed, announced>>
    /\ UNCHANGED <<claims, clicks, repeats>>

\* _last_try: the write once more, or a lock that defeats it.
LastTry ==
    /\ pc \in {"last", "again"}
    /\ \/ /\ WriteOutcome
          /\ repeats' = IF pc = "again" THEN [repeats EXCEPT ![cur] = @ + 1] ELSE repeats
          /\ UNCHANGED faults
       \/ Fault("lock") /\ UNCHANGED <<table, repeats>>
    /\ pc' = "stopped"
    /\ Forget
    /\ UNCHANGED <<untidy, listed, announced, claims, clicks>>

Crash ==
    /\ Up
    /\ Fault("crash")
    /\ pc' = "crashed"
    /\ Forget
    /\ UNCHANGED <<table, untidy, listed, announced, claims, clicks, repeats>>
-----------------------------------------------------------------------------
(* The users: TaskService, TasksView and the deletion of a chronicle. *)

Queue(t) ==
    /\ Up
    /\ CreateRow(t)
    /\ UNCHANGED <<worker, untidy, listed, history>>

Retryable == {t \in Tasks : status[t] \in {"FAILED", "DONE"}}

\* load_tasks shows what is finished now.  A click already on its way, another
\* view and an older load that ends later keep what they show (late).
LoadTasks ==
    /\ Up
    /\ \E late \in SUBSET listed : listed' = Retryable \cup late
    /\ UNCHANGED <<table, worker, untidy, history>>

\* retry_clicked, up to the commit of retry_task: the row as a view saw it
\* was finished, and it is put back whatever it is now.  The list is loaded
\* again later (LoadTasks), so a second click may come first.
RetryClicked(t) ==
    /\ Up
    /\ t \in listed
    /\ clicks[t] < MaxClicks[t]
    /\ UpdateStatus(t, "PENDING")
    /\ clicks' = [clicks EXCEPT ![t] = @ + 1]
    /\ announced' = [announced EXCEPT ![t] = "none"]
    /\ UNCHANGED <<worker, untidy, listed, claims, repeats, faults>>

DeleteChronicle(c) ==
    /\ Up
    /\ DeleteTasksOf(c)
    /\ UNCHANGED <<worker, untidy, listed, history>>

Elapse(t) ==
    /\ ReachNotBefore(t)
    /\ UNCHANGED <<worker, untidy, listed, history>>
-----------------------------------------------------------------------------
WorkerStep ==
    \/ Recover \/ TellRecovered \/ Wake \/ Select \/ Load
    \/ HandlerEnds \/ RecordOutcome \/ PublishCompletion \/ LastTry
    \/ \E t \in Tasks : Tidy(t) \/ Claim(t)

UserStep ==
    \/ LoadTasks
    \/ \E t \in Tasks : Queue(t) \/ RetryClicked(t)
    \/ \E c \in Chronicles : DeleteChronicle(c)

Next ==
    \/ Start
    \/ WorkerStep
    \/ UserStep
    \/ \E t \in Tasks : Elapse(t)
    \/ GiveUp \/ Stop \/ StopRecording \/ Crash

Spec == Init /\ [][Next]_vars

\* The loop runs as long as the process does, every handler ends, the clock
\* advances and the workspace is opened again after it was closed.
FairSpec ==
    /\ Spec
    /\ WF_vars(Start)
    /\ WF_vars(WorkerStep)
    /\ \A t \in Tasks : WF_vars(Elapse(t))
-----------------------------------------------------------------------------
(* Properties *)

\* Every run of a task is paid for: by an attempt, by a retry click, by a stop
\* of the worker, or it is the one run the row still shows.  So a task that
\* takes the process down each time it runs cannot run on every start forever
\* (recover_interrupted), whatever the interleaving of clicks and faults.
ShownRun(t) == IF status[t] \in {"WORKING", "DONE", "FAILED", "gone"} THEN 1 ELSE 0
RunsPaidFor ==
    \A t \in Tasks :
        claims[t] <= attempts[t] + clicks[t] + faults["stop"] + ShownRun(t)

\* A task uses no more than the attempts of its type and one per retry click
\* (MAX_ATTEMPTS; retry_task does not reset the count), each attempt is one run of
\* it, and it is FAILED only when they are spent or no handler exists.  What
\* _last_try writes a second time counts twice: at most one attempt per repetition.
AttemptBudget ==
    \A t \in Tasks :
        /\ attempts[t] <= MaxAttempts(t) + clicks[t] + repeats[t]
        /\ attempts[t] <= claims[t] + repeats[t]
        /\ status[t] = "FAILED" => attempts[t] >= MaxAttempts(t) \/ TypeOf[t] \notin Handled

\* A task with a handler is FAILED only after as many runs as its type has
\* attempts: 3, or 1 for a transcription (MAX_ATTEMPTS, docs/tasks.md).  A commit
\* in flight when the worker is stopped breaks this: _last_try counts it again.
FailedHadItsRuns ==
    \A t \in Tasks :
        status[t] = "FAILED" /\ TypeOf[t] \in Handled => claims[t] >= MaxAttempts(t)

\* "The Tasks view does not offer retry on WORKING": a retry click never puts
\* back a row that is running, which would run it twice.  A view's list that is
\* not loaded again yet breaks this.
RetryFindsNoRun ==
    [][\A t \in Tasks : clicks'[t] # clicks[t] => status[t] # "WORKING"]_vars

\* "With recovery in place, a WORKING row really is running": once the worker
\* has recovered, a WORKING row is the one task it is busy with.  A lock that
\* outlasts STATUS_WRITE_TIMEOUT is the exception docs/tasks.md names.
WorkingIsRunning ==
    recovered /\ faults["lock"] = 0 => \A t \in Tasks :
        status[t] = "WORKING" => cur = t /\ pc \in AtTask

\* A queued row carries nothing of an earlier run: no claim, and a not_before
\* only as long as the failures it has had call for.
QueuedRowIsClean ==
    \A t \in Tasks :
        /\ status[t] = "PENDING" => ~claimed[t] /\ backoff[t] \in {0, DelayAfter(attempts[t])}
        /\ backoff[t] > 0 => status[t] \in {"PENDING", "FAILED", "gone"}

\* The last event the listeners had about a task that was not retried since
\* is the outcome its row still shows: nobody hears DONE of a FAILED task, and
\* nothing is announced of a task that may still run by itself.
AnnouncedIsRecorded ==
    \A t \in Tasks :
        announced[t] # "none" => announced[t] \in Terminal /\ status[t] \in {announced[t], "gone"}

\* A task whose failure its handler never saw is cleaned up after, so no audio
\* source says RUNNING for good (register_cleanup).  One crash anywhere is
\* survived; a second fault while recovery cleans up is not.
FailedIsTidied ==
    faults["crash"] + faults["stop"] <= 1 /\ faults["lock"] = 0 => \A t \in untidy : status[t] = "FAILED" => t \in todo /\ Up

\* Only a retry click or the deletion of its chronicle takes a task out of a
\* terminal state: no late outcome, recovery or stop overwrites it.
TerminalIsStable ==
    [][\A t \in Tasks :
          status[t] \in Terminal /\ status'[t] # status[t] =>
              status'[t] = "gone" \/ clicks'[t] = clicks[t] + 1]_vars

\* Every queued task comes to an end.
EveryTaskEnds ==
    \A t \in Tasks :
        status[t] \in {"PENDING", "WORKING"} ~> status[t] \in Terminal \cup {"gone"}

-----------------------------------------------------------------------------
(* What the safety properties rest on. *)

\* Where the worker is says what it holds: while it runs a task and writes
\* its outcome, nobody else brings that row to a terminal state; what it writes
\* a second time it finds as it left it or put back; a row it claims is due.
Control ==
    /\ pc \in AtTask =>
          /\ cur \in Tasks
          /\ status[cur] \in {"PENDING", "WORKING", "gone"}
          /\ backoff[cur] = 0
    /\ pc = "again" =>
          /\ cur \in Tasks
          /\ status[cur] \in {"PENDING", "gone", IF outcome = "done" THEN "DONE" ELSE "FAILED"}
          /\ outcome = "done" => backoff[cur] = 0
    /\ outcome # "none" => pc \in {"record", "last", "again", "publish"}
    /\ pc = "run" \/ outcome \in {"done", "failed"} => TypeOf[cur] \in Handled
    /\ outcome = "nohandler" => TypeOf[cur] \notin Handled
    /\ pc # "claim" => cands = {}
    /\ \A t \in cands : status[t] # "none" /\ backoff[t] = 0

\* A row the worker is about to announce is not about to run by itself.
Announcing ==
    /\ pc \in {"tidy", "tell"} => \A t \in todo : status[t] \notin {"none", "WORKING", "DONE"}
    /\ pc = "tell" => cur \in todo
    /\ pc = "publish" => cur \in Tasks /\ status[cur] \notin {"none", "WORKING"}

FreshRow ==
    \A t \in Tasks :
        status[t] = "none" => attempts[t] = 0 /\ claims[t] = 0 /\ ~claimed[t] /\ backoff[t] = 0

\* A task that may still run has an attempt left, or was given one by a click.
AttemptLeft ==
    \A t \in Tasks :
        status[t] \in {"PENDING", "WORKING"} => attempts[t] < MaxAttempts(t) + clicks[t] + repeats[t]

\* A run in progress is one no attempt was counted for yet.
AtWork(t) == status[t] = "WORKING" \/ (t = cur /\ pc \in AtTask)
RunsNotCounted ==
    \A t \in Tasks : AtWork(t) => attempts[t] < claims[t] + repeats[t]

IInv ==
    /\ TypeOK /\ Control /\ FreshRow
    /\ AttemptLeft /\ AttemptBudget /\ RunsNotCounted
    /\ RunsPaidFor /\ QueuedRowIsClean
-----------------------------------------------------------------------------
\* A row whose run was taken from under it by a stale click, or whose outcome
\* is about to be written again.
Astray(t) ==
    /\ t = cur
    /\ \/ pc = "again"
       \/ pc \in AtTask /\ status[t] = "PENDING"

\* Each row lives the life docs/tasks.md draws, but for the steps that find it
\* astray: those two put a row from PENDING straight to the outcome of a run.
Life(t) == INSTANCE TaskLifecycle WITH
    Tasks <- {t}, TypeOf <- [u \in {t} |-> TypeOf[u]], Handled <- Handled,
    status <- [u \in {t} |-> status[u]], attempts <- [u \in {t} |-> attempts[u]]
Lifecycle ==
    /\ \A t \in Tasks : Life(t)!LInit
    /\ [][\A t \in Tasks : Astray(t) \/ [Life(t)!LNext]_(Life(t)!lvars)]_vars
=============================================================================

------------------------------ MODULE TaskTable ------------------------------
(***************************************************************************)
(* The tasks table of the archive database and the statements             *)
(* SQLiteTaskRepository runs on it (core/sqlite/task_repository.py).       *)
(*                                                                         *)
(* Each operator below is one committed transaction: it says what becomes  *)
(* of the table's variables, and the modules that use it add the state of  *)
(* the caller.  claim_next commits between reading its candidates and      *)
(* updating one of them, so it is two operators, Candidates and ClaimRow.  *)
(***************************************************************************)
EXTENDS Integers, FiniteSets

CONSTANTS
    Tasks,          \* the task ids that will ever be created
    Chronicles,     \* the chronicles they belong to
    TypeOf,         \* the type of each task
    ChronicleOf,    \* the chronicle of each task
    MaxCandidates   \* _MAX_CLAIM_CANDIDATES

TaskType == {"IMPORT", "TRANSCRIBE", "NORMALIZE", "SUMMARIZE", "CLEAN"}
TaskStatus == {"PENDING", "WORKING", "DONE", "FAILED"}
Terminal == {"DONE", "FAILED"}

ASSUME TableAssumption ==
    /\ IsFiniteSet(Tasks)
    /\ TypeOf \in [Tasks -> TaskType]
    /\ ChronicleOf \in [Tasks -> Chronicles]
    /\ MaxCandidates \in Nat \ {0}

VARIABLES
    status,     \* "none" before the row is created, "gone" after it is deleted
    attempts,
    backoff,    \* which of RETRY_DELAYS not_before still waits out; 0 is due
    claimed,    \* whether claimed_by and claimed_at are set
    rank        \* the order of created_at; 0 before the row is created

table == <<status, attempts, backoff, claimed, rank>>
-----------------------------------------------------------------------------
\* TaskService._create: a transcription is never repeated automatically,
\* every other type keeps the model's default.
MaxAttempts(t) == IF TypeOf[t] = "TRANSCRIBE" THEN 1 ELSE 3

\* The number of RETRY_DELAYS: any later retry waits the last one.
RetryDelays == 2

TableTypeOK ==
    /\ status \in [Tasks -> TaskStatus \cup {"none", "gone"}]
    /\ attempts \in [Tasks -> Nat]
    /\ backoff \in [Tasks -> 0 .. RetryDelays]
    /\ claimed \in [Tasks -> BOOLEAN]
    /\ rank \in [Tasks -> Nat]

TableInit ==
    /\ status = [t \in Tasks |-> "none"]
    /\ attempts = [t \in Tasks |-> 0]
    /\ backoff = [t \in Tasks |-> 0]
    /\ claimed = [t \in Tasks |-> FALSE]
    /\ rank = [t \in Tasks |-> 0]

Rows == {t \in Tasks : status[t] \in TaskStatus}
Created == {t \in Tasks : rank[t] > 0}
-----------------------------------------------------------------------------
CreateRow(t) ==
    /\ status[t] = "none"
    /\ status' = [status EXCEPT ![t] = "PENDING"]
    /\ rank' = [rank EXCEPT ![t] = Cardinality(Created) + 1]
    /\ UNCHANGED <<attempts, backoff, claimed>>

\* The SELECT of claim_next: the oldest due rows, at most MaxCandidates.
Due == {t \in Tasks : status[t] = "PENDING" /\ backoff[t] = 0}
Candidates ==
    {t \in Due : Cardinality({u \in Due : rank[u] < rank[t]}) < MaxCandidates}
Oldest(S) == {t \in S : \A u \in S : rank[t] <= rank[u]}

\* The conditional UPDATE of claim_next, when it matches the row.
ClaimRow(t) ==
    /\ status[t] = "PENDING"
    /\ status' = [status EXCEPT ![t] = "WORKING"]
    /\ claimed' = [claimed EXCEPT ![t] = TRUE]
    /\ UNCHANGED <<attempts, backoff, rank>>

\* Mutant: returning a row to the queue grants it a fresh set of attempts.
UpdateStatusAndAttempts(t, s) ==
    IF t \in Rows
    THEN /\ status' = [status EXCEPT ![t] = s]
         /\ claimed' = [claimed EXCEPT ![t] = IF s = "PENDING" THEN FALSE ELSE @]
         /\ backoff' = [backoff EXCEPT ![t] = 0]
         /\ attempts' = [attempts EXCEPT ![t] = IF s = "PENDING" THEN 0 ELSE @]
         /\ UNCHANGED rank
    ELSE UNCHANGED table

\* update_status: nothing to do for a row that is gone.
UpdateStatus(t, s) ==
    IF t \in Rows
    THEN /\ status' = [status EXCEPT ![t] = s]
         /\ claimed' = [claimed EXCEPT ![t] = IF s = "PENDING" THEN FALSE ELSE @]
         /\ backoff' = [backoff EXCEPT ![t] = IF s = "PENDING" THEN 0 ELSE @]
         /\ UNCHANGED <<attempts, rank>>
    ELSE UNCHANGED table

\* Mutants: the budget is off by one; the delay is looked up by
\* the count of attempts instead of its index.
ExhaustedLate(t) == attempts[t] + 1 > MaxAttempts(t)
DelayPastEnd(n) == n + 1

Exhausted(t) == attempts[t] + 1 >= MaxAttempts(t)
DelayAfter(n) == IF n < RetryDelays THEN n ELSE RetryDelays

MarkFailedOrRetry(t) ==
    IF t \in Rows
    THEN /\ attempts' = [attempts EXCEPT ![t] = @ + 1]
         /\ IF Exhausted(t)
            THEN /\ status' = [status EXCEPT ![t] = "FAILED"]
                 /\ UNCHANGED <<claimed, backoff>>
            ELSE /\ status' = [status EXCEPT ![t] = "PENDING"]
                 /\ claimed' = [claimed EXCEPT ![t] = FALSE]
                 /\ backoff' = [backoff EXCEPT ![t] = DelayAfter(attempts[t] + 1)]
         /\ UNCHANGED rank
    ELSE UNCHANGED table

\* Mutant: a row is taken for interrupted when it says who claimed it.
StillClaimed == {t \in Rows : claimed[t]}

\* Every row found WORKING costs an attempt, in one commit.
Interrupted == {t \in Tasks : status[t] = "WORKING"}

\* Mutants: an interruption costs nothing; a row with attempts left is only
\* counted, not returned to the queue.
RecoverForFree ==
    /\ status' = [t \in Tasks |-> IF t \in Interrupted THEN "PENDING" ELSE status[t]]
    /\ claimed' = [t \in Tasks |-> claimed[t] /\ t \notin Interrupted]
    /\ UNCHANGED <<attempts, backoff, rank>>
RecoverCountOnly ==
    /\ status' = [t \in Tasks |->
                    IF t \in Interrupted /\ Exhausted(t) THEN "FAILED" ELSE status[t]]
    /\ attempts' = [t \in Tasks |->
                      IF t \in Interrupted THEN attempts[t] + 1 ELSE attempts[t]]
    /\ UNCHANGED <<claimed, backoff, rank>>

RecoverInterrupted ==
    /\ status' = [t \in Tasks |->
                    IF t \notin Interrupted THEN status[t]
                    ELSE IF Exhausted(t) THEN "FAILED" ELSE "PENDING"]
    /\ attempts' = [t \in Tasks |->
                      IF t \in Interrupted THEN attempts[t] + 1 ELSE attempts[t]]
    /\ claimed' = [t \in Tasks |-> claimed[t] /\ t \notin Interrupted]
    /\ backoff' = [t \in Tasks |-> IF t \in Interrupted THEN 0 ELSE backoff[t]]
    /\ UNCHANGED rank

\* SQLiteChronicleRepository.delete removes the tasks of the chronicle too.
DeleteTasksOf(c) ==
    /\ status' = [t \in Tasks |->
                    IF ChronicleOf[t] = c /\ t \in Rows THEN "gone" ELSE status[t]]
    /\ UNCHANGED <<attempts, backoff, claimed, rank>>

\* The clock reaches a row's not_before.
ReachNotBefore(t) ==
    /\ backoff[t] > 0
    /\ backoff' = [backoff EXCEPT ![t] = 0]
    /\ UNCHANGED <<status, attempts, claimed, rank>>
=============================================================================

---------------------------- MODULE TaskLifecycle ----------------------------
(***************************************************************************)
(* What the task queue promises its users: the life of a task as           *)
(* docs/tasks.md draws it, with no worker process, no database and no      *)
(* clock.  WorkerLoop implements it (see WorkerLoop!Lifecycle).            *)
(***************************************************************************)
EXTENDS Integers

CONSTANTS Tasks, TypeOf, Handled

VARIABLES status, attempts
lvars == <<status, attempts>>

Budget(t) == IF TypeOf[t] = "TRANSCRIBE" THEN 1 ELSE 3
In(s) == {t \in Tasks : status[t] = s}
Move(t, s) == status' = [status EXCEPT ![t] = s]

LInit ==
    /\ status = [t \in Tasks |-> "none"]
    /\ attempts = [t \in Tasks |-> 0]

Submit(t)  == t \in In("none") /\ Move(t, "PENDING") /\ UNCHANGED attempts
Take(t)    == t \in In("PENDING") /\ Move(t, "WORKING") /\ UNCHANGED attempts
Succeed(t) == t \in In("WORKING") /\ Move(t, "DONE") /\ UNCHANGED attempts

\* A task no handler exists for is failed outright, whatever its budget.
Reject(t) ==
    /\ t \in In("WORKING")
    /\ TypeOf[t] \notin Handled
    /\ Move(t, "FAILED")
    /\ UNCHANGED attempts

\* Failures and interruptions cost an attempt each; several tasks can be
\* found interrupted at once.
LoseAttempt(S) ==
    /\ S # {}
    /\ S \subseteq In("WORKING")
    /\ attempts' = [t \in Tasks |-> IF t \in S THEN attempts[t] + 1 ELSE attempts[t]]
    /\ status' = [t \in Tasks |->
                    IF t \notin S THEN status[t]
                    ELSE IF attempts[t] + 1 < Budget(t) THEN "PENDING" ELSE "FAILED"]

\* The worker is stopped: the task goes back without using an attempt.
GiveBack(t) == t \in In("WORKING") /\ Move(t, "PENDING") /\ UNCHANGED attempts

\* A user puts a finished task back on the queue.
Retry(t) ==
    /\ t \in In("DONE") \cup In("FAILED")
    /\ Move(t, "PENDING")
    /\ UNCHANGED attempts

\* A chronicle is deleted with all its tasks.
Discard(S) ==
    /\ S \cap (In("none") \cup In("gone")) = {}
    /\ status' = [t \in Tasks |-> IF t \in S THEN "gone" ELSE status[t]]
    /\ UNCHANGED attempts

LNext ==
    \/ \E t \in Tasks :
          \/ Submit(t) \/ Take(t) \/ Succeed(t) \/ Reject(t)
          \/ GiveBack(t) \/ Retry(t)
    \/ \E S \in SUBSET Tasks : LoseAttempt(S) \/ Discard(S)

LSpec == LInit /\ [][LNext]_lvars
=============================================================================

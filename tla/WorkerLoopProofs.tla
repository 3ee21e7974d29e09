-------------------------- MODULE WorkerLoopProofs --------------------------
(***************************************************************************)
(* Proofs about WorkerLoop for every set of tasks, types and faults.       *)
(***************************************************************************)
EXTENDS WorkerLoop, FiniteSetTheorems, TLAPS

-----------------------------------------------------------------------------
(* Type correctness *)

\* A new row's rank is a number: the table is finite.
LEMMA RankIsNat == Cardinality(Created) + 1 \in Nat
<1>1. IsFiniteSet(Created)
  BY FS_Subset, TableAssumption DEF Created
<1>. QED
  BY <1>1, FS_CardinalityType

\* The table operators keep the table well typed.
LEMMA CreateRowType ==
    ASSUME TableTypeOK, NEW t \in Tasks, CreateRow(t)
    PROVE  TableTypeOK'
BY RankIsNat DEF TableTypeOK, CreateRow, TaskStatus

LEMMA UpdateStatusType ==
    ASSUME TableTypeOK, NEW t, NEW s \in TaskStatus, UpdateStatus(t, s)
    PROVE  TableTypeOK'
<1>1. CASE t \in Rows
  <2>1. status' \in [Tasks -> TaskStatus \cup {"none", "gone"}]
    BY <1>1 DEF TableTypeOK, UpdateStatus
  <2>2. claimed' \in [Tasks -> BOOLEAN]
    BY <1>1 DEF TableTypeOK, UpdateStatus
  <2>3. backoff' \in [Tasks -> 0 .. RetryDelays]
    BY <1>1 DEF TableTypeOK, UpdateStatus, RetryDelays
  <2>. QED
    BY <1>1, <2>1, <2>2, <2>3 DEF TableTypeOK, UpdateStatus
<1>2. CASE t \notin Rows
  BY <1>2 DEF TableTypeOK, UpdateStatus, table
<1>. QED
  BY <1>1, <1>2

LEMMA MarkFailedOrRetryType ==
    ASSUME TableTypeOK, NEW t, MarkFailedOrRetry(t)
    PROVE  TableTypeOK'
<1>1. CASE t \notin Rows
  BY <1>1 DEF TableTypeOK, MarkFailedOrRetry, table
<1>2. CASE t \in Rows /\ Exhausted(t)
  BY <1>2 DEF TableTypeOK, MarkFailedOrRetry, TaskStatus
<1>3. CASE t \in Rows /\ ~Exhausted(t)
  <2>0. attempts[t] \in Nat
    BY <1>3 DEF TableTypeOK, Rows
  <2>1. DelayAfter(attempts[t] + 1) \in 0 .. RetryDelays
    BY <2>0 DEF DelayAfter, RetryDelays
  <2>2. backoff' \in [Tasks -> 0 .. RetryDelays]
    BY <1>3, <2>1 DEF TableTypeOK, MarkFailedOrRetry
  <2>3. attempts' \in [Tasks -> Nat]
    BY <1>3 DEF TableTypeOK, MarkFailedOrRetry
  <2>. QED
    BY <1>3, <2>2, <2>3 DEF TableTypeOK, MarkFailedOrRetry, TaskStatus
<1>. QED
  BY <1>1, <1>2, <1>3

LEMMA RecoverInterruptedType ==
    ASSUME TableTypeOK, RecoverInterrupted
    PROVE  TableTypeOK'
<1>1. status' \in [Tasks -> TaskStatus \cup {"none", "gone"}]
  BY DEF TableTypeOK, RecoverInterrupted, TaskStatus
<1>2. attempts' \in [Tasks -> Nat]
  BY DEF TableTypeOK, RecoverInterrupted
<1>3. claimed' \in [Tasks -> BOOLEAN]
  BY DEF TableTypeOK, RecoverInterrupted
<1>4. backoff' \in [Tasks -> 0 .. RetryDelays]
  BY DEF TableTypeOK, RecoverInterrupted, RetryDelays
<1>. QED
  BY <1>1, <1>2, <1>3, <1>4 DEF TableTypeOK, RecoverInterrupted

LEMMA ClaimRowType ==
    ASSUME TableTypeOK, NEW t \in Tasks, ClaimRow(t)
    PROVE  TableTypeOK'
BY DEF TableTypeOK, ClaimRow, TaskStatus

LEMMA DeleteTasksOfType ==
    ASSUME TableTypeOK, NEW c \in Chronicles, DeleteTasksOf(c)
    PROVE  TableTypeOK'
BY DEF TableTypeOK, DeleteTasksOf

LEMMA ReachNotBeforeType ==
    ASSUME TableTypeOK, NEW t \in Tasks, ReachNotBefore(t)
    PROVE  TableTypeOK'
BY DEF TableTypeOK, ReachNotBefore, RetryDelays

LEMMA SameTableType ==
    ASSUME TableTypeOK, UNCHANGED table
    PROVE  TableTypeOK'
BY DEF TableTypeOK, table

LEMMA WriteOutcomeType ==
    ASSUME TableTypeOK, WriteOutcome
    PROVE  TableTypeOK'
BY UpdateStatusType, MarkFailedOrRetryType DEF WriteOutcome, TaskStatus

\* Fault and Publish keep the history variables well typed.
LEMMA FaultType ==
    ASSUME TypeOK, NEW k \in FaultKind, Fault(k)
    PROVE  faults' \in [FaultKind -> Nat]
BY DEF TypeOK, Fault

LEMMA PublishType ==
    ASSUME TypeOK, NEW t, Publish(t)
    PROVE  announced' \in [Tasks -> {"none"} \cup TaskStatus]
BY DEF TypeOK, Publish, Rows

LEMMA TypeStep ==
    ASSUME TypeOK, [Next]_vars
    PROVE  TypeOK'
<1>. USE DEF Off, AtTask, Busy, Outcome
<1>0. TableTypeOK
  BY DEF TypeOK
<1>1. CASE Start
  BY <1>0, <1>1, SameTableType DEF TypeOK, Start, history
<1>2. CASE Recover
  BY <1>0, <1>2, RecoverInterruptedType DEF TypeOK, Recover, history, Interrupted
<1>3. CASE TellRecovered
  <2>1. announced' \in [Tasks -> {"none"} \cup TaskStatus]
    BY <1>3, PublishType DEF TellRecovered, TypeOK
  <2>2. faults' \in [FaultKind -> Nat]
    BY <1>3, FaultType DEF TellRecovered, TypeOK, FaultKind
  <2>. QED
    BY <1>0, <1>3, <2>1, <2>2, SameTableType DEF TypeOK, TellRecovered, LeaveTask
<1>4. CASE Wake
  BY <1>0, <1>4, SameTableType DEF TypeOK, Wake, history
<1>5. CASE Select
  BY <1>0, <1>5, SameTableType DEF TypeOK, Select, history, Candidates, Due
<1>6. CASE Load
  BY <1>0, <1>6, SameTableType DEF TypeOK, Load, history, LeaveTask, Rows
<1>7. CASE HandlerEnds
  BY <1>0, <1>7, SameTableType DEF TypeOK, HandlerEnds, history
<1>8. CASE RecordOutcome
  BY <1>0, <1>8, WriteOutcomeType DEF TypeOK, RecordOutcome, history
<1>9. CASE PublishCompletion
  BY <1>0, <1>9, SameTableType, PublishType DEF TypeOK, PublishCompletion, LeaveTask
<1>10. ASSUME NEW t \in Tasks, Tidy(t)
       PROVE  TypeOK'
  <2>1. faults' \in [FaultKind -> Nat]
    BY <1>10, FaultType DEF Tidy, TypeOK, FaultKind
  <2>. QED
    BY <1>0, <1>10, <2>1, SameTableType DEF TypeOK, Tidy
<1>11. ASSUME NEW t \in Tasks, Claim(t)
       PROVE  TypeOK'
  <2>1. TableTypeOK'
    BY <1>0, <1>11, SameTableType, ClaimRowType DEF Claim
  <2>. QED
    BY <1>11, <2>1 DEF TypeOK, Claim
<1>12. ASSUME NEW t \in Tasks, Queue(t)
       PROVE  TypeOK'
  BY <1>0, <1>12, CreateRowType DEF TypeOK, Queue, history, worker
<1>13. CASE LoadTasks
  BY <1>0, <1>13, SameTableType DEF TypeOK, LoadTasks, history, worker, Retryable
<1>14. ASSUME NEW t \in Tasks, RetryClicked(t)
       PROVE  TypeOK'
  <2>1. TableTypeOK'
    BY <1>0, <1>14, UpdateStatusType DEF RetryClicked, TaskStatus
  <2>. QED
    BY <1>14, <2>1 DEF TypeOK, RetryClicked, worker
<1>15. ASSUME NEW c \in Chronicles, DeleteChronicle(c)
       PROVE  TypeOK'
  BY <1>0, <1>15, DeleteTasksOfType DEF TypeOK, DeleteChronicle, history, worker
<1>16. ASSUME NEW t \in Tasks, Elapse(t)
       PROVE  TypeOK'
  BY <1>0, <1>16, ReachNotBeforeType DEF TypeOK, Elapse, history, worker
<1>17. CASE GiveUp
  BY <1>0, <1>17, SameTableType, FaultType DEF TypeOK, GiveUp, LeaveTask, FaultKind
<1>18. CASE Stop
  <2>1. TableTypeOK'
    BY <1>0, <1>18, SameTableType, UpdateStatusType DEF Stop, TaskStatus
  <2>2. faults' \in [FaultKind -> Nat]
    BY <1>18, FaultType DEF Stop, TypeOK, FaultKind
  <2>. QED
    BY <1>18, <2>1, <2>2 DEF TypeOK, Stop, Forget
<1>19. CASE Crash
  BY <1>0, <1>19, SameTableType, FaultType DEF TypeOK, Crash, Forget, FaultKind
<1>20. CASE UNCHANGED vars
  BY <1>0, <1>20, SameTableType DEF TypeOK, vars, worker, history
<1>21. CASE StopRecording
  <2>1. TableTypeOK'
    BY <1>0, <1>21, SameTableType, WriteOutcomeType DEF StopRecording
  <2>2. faults' \in [FaultKind -> Nat]
    BY <1>21, FaultType DEF StopRecording, FaultKind
  <2>. QED
    BY <1>21, <2>1, <2>2 DEF TypeOK, StopRecording
<1>22. CASE LastTry
  <2>1. TableTypeOK'
    BY <1>0, <1>22, SameTableType, WriteOutcomeType DEF LastTry
  <2>2. faults' \in [FaultKind -> Nat] /\ repeats' \in [Tasks -> Nat]
    BY <1>22, FaultType DEF LastTry, TypeOK, FaultKind
  <2>. QED
    BY <1>22, <2>1, <2>2 DEF TypeOK, LastTry, Forget
<1>. QED
  BY <1>1, <1>2, <1>3, <1>4, <1>5, <1>6, <1>7, <1>8, <1>9, <1>10, <1>11, <1>12,
     <1>13, <1>14, <1>15, <1>16, <1>17, <1>18, <1>19, <1>20, <1>21, <1>22
     DEF Next, WorkerStep, UserStep

LEMMA TypeInit == Init => TypeOK
<1>. SUFFICES ASSUME Init
              PROVE  TypeOK
  OBVIOUS
<1>1. TableTypeOK
  BY DEF Init, TableInit, TableTypeOK, RetryDelays
<1>2. /\ faults \in [FaultKind -> Nat] /\ claims \in [Tasks -> Nat]
      /\ clicks \in [Tasks -> Nat] /\ repeats \in [Tasks -> Nat]
  BY DEF Init
<1>3. announced \in [Tasks -> {"none"} \cup TaskStatus] /\ listed \in SUBSET Tasks
  BY DEF Init
<1>. QED
  BY <1>1, <1>2, <1>3 DEF Init, Idle, TypeOK, Off, Outcome

\* Every variable keeps its type.
THEOREM TypeCorrect == Spec => []TypeOK
<1>1. Init => TypeOK
  BY TypeInit
<1>2. TypeOK /\ [Next]_vars => TypeOK'
  BY TypeStep
<1>. QED
  BY <1>1, <1>2, PTL DEF Spec

-----------------------------------------------------------------------------
(* What a step does to the table.  Most steps leave it alone; the others     *)
(* are grouped by the transaction they run, so that an invariant about the   *)
(* rows is proved once per transaction.                                      *)

StopsKept == faults["stop"] <= faults'["stop"]

QuietStep == UNCHANGED <<table, claims, clicks, repeats>> /\ StopsKept
RecoverStep == pc = "recover" /\ RecoverInterrupted /\ UNCHANGED <<claims, clicks, repeats, faults>>
ClaimStep(t) ==
    /\ t \in cands
    /\ ClaimRow(t)
    /\ cur' = t
    /\ claims' = [claims EXCEPT ![t] = @ + 1]
    /\ UNCHANGED <<clicks, repeats, faults>>
OutcomeStep ==
    /\ pc \in {"record", "last", "again"}
    /\ WriteOutcome
    /\ pc' \notin AtTask
    /\ repeats' = IF pc = "again" THEN [repeats EXCEPT ![cur] = @ + 1] ELSE repeats
    /\ UNCHANGED <<claims, clicks>> /\ StopsKept
ReturnStep ==
    /\ pc = "run"
    /\ UpdateStatus(cur, "PENDING")
    /\ pc' \notin AtTask
    /\ UNCHANGED <<claims, clicks, repeats>>
    /\ faults'["stop"] = faults["stop"] + 1
CreateStep(t) == CreateRow(t) /\ UNCHANGED <<claims, clicks, repeats, faults>>
RetryStep(t) ==
    /\ UpdateStatus(t, "PENDING")
    /\ clicks' = [clicks EXCEPT ![t] = @ + 1]
    /\ UNCHANGED <<claims, repeats, faults>>
DeleteStep(c) == DeleteTasksOf(c) /\ UNCHANGED <<claims, clicks, repeats, faults>>
DueStep(t) == ReachNotBefore(t) /\ UNCHANGED <<claims, clicks, repeats, faults>>

TableStep ==
    \/ QuietStep \/ RecoverStep \/ OutcomeStep \/ ReturnStep
    \/ \E t \in Tasks : ClaimStep(t) \/ CreateStep(t) \/ RetryStep(t) \/ DueStep(t)
    \/ \E c \in Chronicles : DeleteStep(c)

LEMMA FaultStops ==
    ASSUME TypeOK, NEW k \in FaultKind, Fault(k)
    PROVE  StopsKept
BY DEF TypeOK, Fault, FaultKind, StopsKept

LEMMA SameStops ==
    ASSUME TypeOK, UNCHANGED faults
    PROVE  StopsKept
BY DEF TypeOK, FaultKind, StopsKept

LEMMA NextIsTableStep ==
    ASSUME TypeOK, [Next]_vars
    PROVE  TableStep
<1>. USE DEF TableStep
<1>1. CASE Start \/ Wake \/ Select \/ Load \/ HandlerEnds \/ PublishCompletion \/ UNCHANGED vars
  BY <1>1, SameStops
     DEF Start, Wake, Select, Load, HandlerEnds, PublishCompletion, vars, history, QuietStep
<1>2. CASE TellRecovered \/ GiveUp \/ Crash
  BY <1>2, SameStops, FaultStops DEF TellRecovered, GiveUp, Crash, FaultKind, QuietStep
<1>3. CASE Recover
  BY <1>3 DEF Recover, history, RecoverStep
<1>4. CASE RecordOutcome
  BY <1>4, SameStops DEF RecordOutcome, history, OutcomeStep, AtTask
<1>5. ASSUME NEW t \in Tasks, Tidy(t)
      PROVE  TableStep
  BY <1>5, SameStops, FaultStops DEF Tidy, FaultKind, QuietStep
<1>6. ASSUME NEW t \in Tasks, Claim(t)
      PROVE  TableStep
  <2>1. CASE status[t] = "PENDING"
    BY <1>6, <2>1 DEF Claim, ClaimStep, Oldest
  <2>2. CASE status[t] # "PENDING"
    BY <1>6, <2>2, SameStops DEF Claim, QuietStep
  <2>. QED
    BY <2>1, <2>2
<1>7. ASSUME NEW t \in Tasks, Queue(t) \/ Elapse(t)
      PROVE  TableStep
  BY <1>7 DEF Queue, Elapse, history, CreateStep, DueStep
<1>8. CASE LoadTasks
  BY <1>8, SameStops DEF LoadTasks, history, QuietStep
<1>9. ASSUME NEW t \in Tasks, RetryClicked(t)
      PROVE  TableStep
  BY <1>9 DEF RetryClicked, RetryStep
<1>10. ASSUME NEW c \in Chronicles, DeleteChronicle(c)
       PROVE  TableStep
  BY <1>10 DEF DeleteChronicle, history, DeleteStep
<1>11. CASE Stop
  <2>1. StopsKept /\ UNCHANGED <<claims, clicks, repeats>>
    BY <1>11, FaultStops DEF Stop, TypeOK, FaultKind, StopsKept
  <2>2. CASE UNCHANGED table
    BY <2>1, <2>2 DEF QuietStep
  <2>3. CASE pc = "run" /\ UpdateStatus(cur, "PENDING") /\ Fault("stop")
    BY <1>11, <2>1, <2>3 DEF Stop, ReturnStep, Fault, TypeOK, FaultKind, AtTask
  <2>. QED
    BY <1>11, <2>2, <2>3 DEF Stop
<1>12. CASE StopRecording
  <2>1. StopsKept /\ UNCHANGED <<claims, clicks, repeats>>
    BY <1>12, FaultStops DEF StopRecording, FaultKind
  <2>. QED
    BY <1>12, <2>1 DEF StopRecording, QuietStep, OutcomeStep, AtTask
<1>13. CASE LastTry
  <2>1. StopsKept
    BY <1>13, FaultStops, SameStops DEF LastTry, FaultKind
  <2>. QED
    BY <1>13, <2>1 DEF LastTry, QuietStep, OutcomeStep, AtTask
<1>. QED
  BY <1>1, <1>2, <1>3, <1>4, <1>5, <1>6, <1>7, <1>8, <1>9, <1>10, <1>11, <1>12, <1>13
     DEF Next, WorkerStep, UserStep

\* The worker takes up a task by claiming it; until its outcome is written it stays with it.
LEMMA WorkerStays ==
    ASSUME [Next]_vars, pc' \in AtTask
    PROVE  \/ pc \in AtTask /\ cur' = cur
           \/ \E t \in Tasks : ClaimStep(t)
<1>1. ASSUME NEW t \in Tasks, Claim(t)
      PROVE  ClaimStep(t)
  BY <1>1 DEF Claim, ClaimStep, AtTask, Oldest
<1>2. CASE UserStep \/ UNCHANGED vars \/ \E t \in Tasks : Elapse(t)
  BY <1>2 DEF UserStep, Queue, LoadTasks, RetryClicked, DeleteChronicle, Elapse, vars, worker
<1>3. CASE Load \/ HandlerEnds \/ StopRecording
  BY <1>3 DEF Load, HandlerEnds, StopRecording, LeaveTask, AtTask
<1>4. CASE Start \/ Recover \/ TellRecovered \/ Wake \/ Select \/ RecordOutcome \/ PublishCompletion
           \/ LastTry \/ GiveUp \/ Stop \/ Crash \/ \E t \in Tasks : Tidy(t)
  BY <1>4 DEF Start, Recover, TellRecovered, Wake, Select, RecordOutcome, PublishCompletion,
     LastTry, GiveUp, Stop, Crash, Tidy, LeaveTask, AtTask
<1>. QED
  BY <1>1, <1>2, <1>3, <1>4 DEF Next, WorkerStep

-----------------------------------------------------------------------------
(* Invariants about the rows, one transaction at a time. *)

LEMMA UpdateStatusRow ==
    ASSUME TypeOK, NEW t \in Tasks, NEW u, NEW s \in {"PENDING", "DONE", "FAILED"}, UpdateStatus(u, s)
    PROVE  /\ attempts'[t] = attempts[t]
           /\ status'[t] = IF t = u /\ t \in Rows THEN s ELSE status[t]
           /\ claimed'[t] = IF t = u /\ t \in Rows /\ s = "PENDING" THEN FALSE ELSE claimed[t]
           /\ backoff'[t] = IF t = u /\ t \in Rows /\ s = "PENDING" THEN 0 ELSE backoff[t]
<1>1. CASE u \notin Rows
  BY <1>1 DEF TypeOK, TableTypeOK, UpdateStatus, table
<1>2. CASE u \in Rows
  BY <1>2 DEF TypeOK, TableTypeOK, UpdateStatus, Rows
<1>. QED
  BY <1>1, <1>2

LEMMA MarkFailedOrRetryRow ==
    ASSUME TypeOK, NEW t \in Tasks, NEW u, MarkFailedOrRetry(u)
    PROVE  \/ /\ t # u \/ t \notin Rows
              /\ status'[t] = status[t] /\ attempts'[t] = attempts[t]
              /\ claimed'[t] = claimed[t] /\ backoff'[t] = backoff[t]
           \/ /\ t = u /\ t \in Rows /\ Exhausted(t)
              /\ status'[t] = "FAILED" /\ attempts'[t] = attempts[t] + 1
              /\ backoff'[t] = backoff[t]
           \/ /\ t = u /\ t \in Rows /\ ~Exhausted(t)
              /\ status'[t] = "PENDING" /\ attempts'[t] = attempts[t] + 1
              /\ ~claimed'[t] /\ backoff'[t] = DelayAfter(attempts[t] + 1)
<1>1. CASE u \notin Rows
  BY <1>1 DEF TypeOK, TableTypeOK, MarkFailedOrRetry, table
<1>2. CASE u \in Rows /\ Exhausted(u)
  BY <1>2 DEF TypeOK, TableTypeOK, MarkFailedOrRetry, Rows
<1>3. CASE u \in Rows /\ ~Exhausted(u)
  BY <1>3 DEF TypeOK, TableTypeOK, MarkFailedOrRetry, Rows
<1>. QED
  BY <1>1, <1>2, <1>3

LEMMA RecoverInterruptedRow ==
    ASSUME TypeOK, NEW t \in Tasks, RecoverInterrupted
    PROVE  IF status[t] = "WORKING"
           THEN /\ status'[t] = IF Exhausted(t) THEN "FAILED" ELSE "PENDING"
                /\ attempts'[t] = attempts[t] + 1 /\ ~claimed'[t] /\ backoff'[t] = 0
           ELSE /\ status'[t] = status[t] /\ attempts'[t] = attempts[t]
                /\ claimed'[t] = claimed[t] /\ backoff'[t] = backoff[t]
BY DEF RecoverInterrupted, Interrupted, TypeOK, TableTypeOK

PaidFor(t) == claims[t] <= attempts[t] + clicks[t] + faults["stop"] + ShownRun(t)

LEMMA RunsPaidForInit == Init => RunsPaidFor
BY DEF Init, TableInit, RunsPaidFor, ShownRun, FaultKind

LEMMA RunsPaidForStep ==
    ASSUME TypeOK, RunsPaidFor, [Next]_vars
    PROVE  RunsPaidFor'
<1>. SUFFICES ASSUME NEW t \in Tasks
              PROVE  PaidFor(t)'
  BY DEF RunsPaidFor, PaidFor
<1>. USE DEF PaidFor, ShownRun
<1>0. /\ PaidFor(t)
      /\ claims[t] \in Nat /\ attempts[t] \in Nat /\ clicks[t] \in Nat
      /\ faults["stop"] \in Nat /\ faults'["stop"] \in Nat
  BY TypeStep DEF RunsPaidFor, TypeOK, TableTypeOK, FaultKind
<1>1. CASE QuietStep
  BY <1>0, <1>1 DEF QuietStep, StopsKept, table
<1>2. CASE RecoverStep
  BY <1>0, <1>2, RecoverInterruptedRow DEF RecoverStep
<1>3. CASE OutcomeStep
  <2>1. ASSUME NEW s \in {"DONE", "FAILED"}, UpdateStatus(cur, s)
        PROVE  PaidFor(t)'
    <3>1. attempts'[t] = attempts[t] /\ status'[t] = IF t = cur /\ t \in Rows THEN s ELSE status[t]
      BY <2>1, UpdateStatusRow
    <3>. QED
      BY <1>0, <1>3, <3>1 DEF OutcomeStep, StopsKept
  <2>2. CASE MarkFailedOrRetry(cur)
    BY <1>0, <1>3, <2>2, MarkFailedOrRetryRow DEF OutcomeStep, StopsKept
  <2>. QED
    BY <1>3, <2>1, <2>2 DEF OutcomeStep, WriteOutcome
<1>4. CASE ReturnStep
  <2>1. attempts'[t] = attempts[t] /\ status'[t] = IF t = cur /\ t \in Rows THEN "PENDING" ELSE status[t]
    BY <1>4, UpdateStatusRow DEF ReturnStep
  <2>. QED
    BY <1>0, <1>4, <2>1 DEF ReturnStep
<1>5. ASSUME NEW u \in Tasks, ClaimStep(u)
      PROVE  PaidFor(t)'
  BY <1>0, <1>5 DEF ClaimStep, ClaimRow, TypeOK, TableTypeOK
<1>6. ASSUME NEW u \in Tasks, CreateStep(u)
      PROVE  PaidFor(t)'
  <2>1. status'[t] = IF t = u THEN "PENDING" ELSE status[t]
    BY <1>6 DEF CreateStep, CreateRow, TypeOK, TableTypeOK
  <2>. QED
    BY <1>0, <1>6, <2>1 DEF CreateStep, CreateRow
<1>7. ASSUME NEW u \in Tasks, RetryStep(u)
      PROVE  PaidFor(t)'
  <2>1. clicks'[t] = IF t = u THEN clicks[t] + 1 ELSE clicks[t]
    BY <1>7 DEF RetryStep, TypeOK
  <2>2. attempts'[t] = attempts[t] /\ status'[t] = IF t = u /\ t \in Rows THEN "PENDING" ELSE status[t]
    BY <1>7, UpdateStatusRow DEF RetryStep
  <2>. QED
    BY <1>0, <1>7, <2>1, <2>2 DEF RetryStep, Rows, TaskStatus
<1>8. ASSUME NEW u \in Tasks, DueStep(u)
      PROVE  PaidFor(t)'
  BY <1>0, <1>8 DEF DueStep, ReachNotBefore
<1>9. ASSUME NEW c \in Chronicles, DeleteStep(c)
      PROVE  PaidFor(t)'
  BY <1>0, <1>9 DEF DeleteStep, DeleteTasksOf
<1>. QED
  BY NextIsTableStep, <1>1, <1>2, <1>3, <1>4, <1>5, <1>6, <1>7, <1>8, <1>9 DEF TableStep

\* No run of a task is free: crashes, stops and clicks in any order included.
THEOREM RunsArePaidFor == Spec => []RunsPaidFor
<1>1. TypeOK /\ RunsPaidFor /\ [Next]_vars => RunsPaidFor'
  BY RunsPaidForStep
<1>. QED
  BY <1>1, RunsPaidForInit, TypeCorrect, PTL DEF Spec

-----------------------------------------------------------------------------
(* Control: what the worker holds at each point of its loop. *)

LEMMA ControlInit == Init => Control
BY DEF Init, Idle, Control, AtTask

\* While the worker is elsewhere, users and the clock only move its row
\* between PENDING, WORKING and gone, and only clear its not_before.
LEMMA ControlUserStep ==
    ASSUME TypeOK, Control, UNCHANGED worker,
           NEW t, NEW c,
           \/ CreateRow(t) \/ UpdateStatus(t, "PENDING") \/ DeleteTasksOf(c)
           \/ ReachNotBefore(t) \/ UNCHANGED table
    PROVE  Control'
<1>1. ASSUME NEW u \in Tasks
      PROVE  /\ backoff[u] = 0 => backoff'[u] = 0
             /\ status[u] # "none" => status'[u] # "none"
             /\ status'[u] \in {status[u], "gone"} \/ (status[u] # "gone" /\ status'[u] = "PENDING")
  <2>1. CASE CreateRow(t) \/ DeleteTasksOf(c) \/ ReachNotBefore(t) \/ UNCHANGED table
    BY <2>1 DEF CreateRow, DeleteTasksOf, ReachNotBefore, table, TypeOK, TableTypeOK
  <2>2. CASE UpdateStatus(t, "PENDING")
    BY <2>2, UpdateStatusRow DEF Rows, TaskStatus
  <2>. QED
    BY <2>1, <2>2
<1>2. cands \subseteq Tasks
  BY DEF TypeOK
<1>. QED
  BY <1>1, <1>2 DEF Control, worker, AtTask

LEMMA ControlStep ==
    ASSUME TypeOK, Control, [Next]_vars
    PROVE  Control'
<1>1. CASE Start \/ Wake \/ PublishCompletion \/ GiveUp
  BY <1>1 DEF Start, Wake, PublishCompletion, GiveUp, LeaveTask, Control, Off, Busy, AtTask, table
<1>2. CASE Stop \/ Crash \/ LastTry
  BY <1>2 DEF Stop, Crash, LastTry, Forget, Control, AtTask
<1>3. CASE Recover \/ TellRecovered \/ \E t \in Tasks : Tidy(t)
  BY <1>3 DEF Recover, TellRecovered, Tidy, LeaveTask, Control, AtTask
<1>4. CASE Select
  BY <1>4 DEF Select, Control, Candidates, Due, table, AtTask
<1>5. ASSUME NEW t \in Tasks, Claim(t)
      PROVE  Control'
  <2>1. CASE status[t] = "PENDING"
    BY <1>5, <2>1 DEF Claim, ClaimRow, Control, TypeOK, TableTypeOK, Oldest, AtTask
  <2>2. CASE status[t] # "PENDING"
    BY <1>5, <2>2 DEF Claim, Control, table, AtTask
  <2>. QED
    BY <2>1, <2>2
<1>6. CASE Load \/ HandlerEnds
  BY <1>6 DEF Load, HandlerEnds, LeaveTask, Control, table, AtTask
<1>7. CASE RecordOutcome
  BY <1>7 DEF RecordOutcome, Control, AtTask
<1>10. CASE StopRecording
  <2>1. CASE UNCHANGED table /\ pc' = "last"
    <3>1. /\ cur' = cur /\ outcome' = outcome /\ cands' = cands /\ pc = "record"
          /\ status' = status /\ backoff' = backoff
      BY <1>10, <2>1 DEF StopRecording, table
    <3>. QED
      BY <2>1, <3>1 DEF Control, AtTask
  <2>2. CASE pc' = "again" /\ WriteOutcome
    <3>1. /\ cur \in Tasks /\ status[cur] \in {"PENDING", "WORKING", "gone"} /\ backoff[cur] = 0
          /\ outcome' = outcome /\ cur' = cur /\ cands' = cands /\ cands = {}
      BY <1>10 DEF StopRecording, Control, AtTask
    <3>2. status'[cur] \in {"PENDING", "gone", IF outcome = "done" THEN "DONE" ELSE "FAILED"}
      BY <2>2, <3>1, UpdateStatusRow, MarkFailedOrRetryRow DEF WriteOutcome, Rows, TaskStatus
    <3>3. outcome = "done" => backoff'[cur] = 0
      BY <2>2, <3>1, UpdateStatusRow DEF WriteOutcome
    <3>4. outcome \in {"done", "failed"} => TypeOf[cur] \in Handled
      BY <1>10 DEF StopRecording, Control
    <3>5. outcome = "nohandler" => TypeOf[cur] \notin Handled
      BY <1>10 DEF StopRecording, Control
    <3>. QED
      BY <2>2, <3>1, <3>2, <3>3, <3>4, <3>5 DEF Control, AtTask
  <2>. QED
    BY <1>10, <2>1, <2>2 DEF StopRecording
<1>8. CASE UNCHANGED vars
  BY <1>8 DEF vars, worker, table, Control, AtTask
<1>9. ASSUME NEW t, NEW c, Queue(t) \/ Elapse(t) \/ RetryClicked(t) \/ LoadTasks \/ DeleteChronicle(c)
      PROVE  Control'
  <2>1. UNCHANGED worker
    BY <1>9 DEF Queue, LoadTasks, RetryClicked, DeleteChronicle, Elapse
  <2>2. \/ CreateRow(t) \/ UpdateStatus(t, "PENDING") \/ DeleteTasksOf(c)
        \/ ReachNotBefore(t) \/ UNCHANGED table
    BY <1>9 DEF Queue, LoadTasks, RetryClicked, DeleteChronicle, Elapse
  <2>. QED
    BY <2>1, <2>2, ControlUserStep
<1>. QED
  BY <1>1, <1>2, <1>3, <1>4, <1>5, <1>6, <1>7, <1>8, <1>9, <1>10 DEF Next, WorkerStep, UserStep

-----------------------------------------------------------------------------
(* The inductive invariant. *)

RowInv(t) ==
    /\ status[t] = "none" => attempts[t] = 0 /\ claims[t] = 0 /\ ~claimed[t] /\ backoff[t] = 0
    /\ status[t] \in {"PENDING", "WORKING"} => attempts[t] < MaxAttempts(t) + clicks[t] + repeats[t]
    /\ attempts[t] <= MaxAttempts(t) + clicks[t] + repeats[t]
    /\ attempts[t] <= claims[t] + repeats[t]
    /\ AtWork(t) => attempts[t] < claims[t] + repeats[t]
    /\ status[t] = "FAILED" => attempts[t] >= MaxAttempts(t) \/ TypeOf[t] \notin Handled
    /\ status[t] = "PENDING" => ~claimed[t] /\ backoff[t] \in {0, DelayAfter(attempts[t])}
    /\ backoff[t] > 0 => status[t] \in {"PENDING", "FAILED", "gone"}

LEMMA RowInvariants ==
    IInv <=> TypeOK /\ Control /\ RunsPaidFor /\ \A t \in Tasks : RowInv(t)
BY DEF IInv, RowInv, FreshRow, AttemptLeft, AttemptBudget, RunsNotCounted, QueuedRowIsClean

\* A row is at work after a step only if it was before, or was claimed.
LEMMA AtWorkStep ==
    ASSUME [Next]_vars, NEW t \in Tasks, AtWork(t)', \A u \in Tasks : ~ClaimStep(u)
    PROVE  AtWork(t) \/ status'[t] = "WORKING"
BY WorkerStays DEF AtWork

LEMMA RowInvStep ==
    ASSUME TypeOK, Control, NEW t \in Tasks, RowInv(t), [Next]_vars
    PROVE  RowInv(t)'
<1>0. /\ attempts[t] \in Nat /\ clicks[t] \in Nat /\ claims[t] \in Nat /\ repeats[t] \in Nat
      /\ backoff[t] \in 0 .. 2
      /\ MaxAttempts(t) \in {1, 3} /\ MaxAttempts(t)' = MaxAttempts(t)
      /\ \A n : DelayAfter(n)' = DelayAfter(n)
  BY DEF TypeOK, TableTypeOK, MaxAttempts, RetryDelays, DelayAfter
<1>w. ASSUME \A u \in Tasks : ~ClaimStep(u), AtWork(t)', status'[t] # "WORKING" \/ status[t] = "WORKING"
      PROVE  AtWork(t)
  BY <1>w, AtWorkStep DEF AtWork
<1>q. ASSUME \A u \in Tasks : ~ClaimStep(u), UNCHANGED <<claims, clicks, repeats>>,
             attempts'[t] = attempts[t], claimed'[t] = claimed[t],
             backoff'[t] \in {backoff[t], 0}, status'[t] = status[t]
      PROVE  RowInv(t)'
  BY <1>0, <1>w, <1>q DEF RowInv
<1>c. ASSUME NEW u \in Tasks, ClaimStep(u)
      PROVE  RowInv(t)'
  <2>0. claims'[t] = IF t = u THEN claims[t] + 1 ELSE claims[t]
    BY <1>c DEF ClaimStep, TypeOK
  <2>1. CASE t = u
    BY <1>0, <1>c, <2>0, <2>1 DEF ClaimStep, ClaimRow, TypeOK, TableTypeOK, RowInv, Control
  <2>2. CASE t # u
    <3>1. /\ attempts'[t] = attempts[t] /\ status'[t] = status[t] /\ claimed'[t] = claimed[t]
          /\ backoff'[t] = backoff[t] /\ cur' # t /\ UNCHANGED <<clicks, repeats>>
      BY <1>c, <2>2 DEF ClaimStep, ClaimRow, TypeOK, TableTypeOK
    <3>2. AtWork(t)' => AtWork(t)
      BY <3>1 DEF AtWork
    <3>. QED
      BY <1>0, <2>0, <2>2, <3>1, <3>2 DEF RowInv
  <2>. QED
    BY <2>1, <2>2
<1>. SUFFICES ASSUME \A u \in Tasks : ~ClaimStep(u)
              PROVE  RowInv(t)'
  BY <1>c
<1>1. CASE QuietStep
  BY <1>0, <1>1, <1>q DEF QuietStep, table
<1>2. CASE RecoverStep
  <2>0. UNCHANGED <<claims, clicks, repeats>>
    BY <1>2 DEF RecoverStep
  <2>1. CASE status[t] = "WORKING"
    <3>1. /\ status'[t] = IF Exhausted(t) THEN "FAILED" ELSE "PENDING"
          /\ attempts'[t] = attempts[t] + 1 /\ ~claimed'[t] /\ backoff'[t] = 0
      BY <1>2, <2>1, RecoverInterruptedRow DEF RecoverStep
    <3>2. ~AtWork(t)'
      <4>1. pc' \notin AtTask
        BY <1>2, WorkerStays DEF RecoverStep, AtTask
      <4>. QED
        BY <3>1, <4>1 DEF AtWork
    <3>. QED
      BY <1>0, <2>0, <2>1, <3>1, <3>2 DEF RowInv, Exhausted, AtWork
  <2>2. CASE status[t] # "WORKING"
    BY <1>2, <1>q, <2>0, <2>2, RecoverInterruptedRow DEF RecoverStep
  <2>. QED
    BY <2>1, <2>2
<1>3. CASE OutcomeStep
  <2>0. /\ clicks' = clicks /\ claims' = claims /\ pc' \notin AtTask
        /\ pc \in {"record", "last", "again"} /\ cur \in Tasks
        /\ repeats'[t] = IF t = cur /\ pc = "again" THEN repeats[t] + 1 ELSE repeats[t]
    BY <1>3 DEF OutcomeStep, Control, AtTask, TypeOK
  <2>1. ASSUME NEW s \in {"DONE", "FAILED"}, UpdateStatus(cur, s),
               outcome = IF s = "FAILED" THEN "nohandler" ELSE "done"
        PROVE  RowInv(t)'
    <3>1. /\ attempts'[t] = attempts[t]
          /\ status'[t] = IF t = cur /\ t \in Rows THEN s ELSE status[t]
          /\ claimed'[t] = claimed[t] /\ backoff'[t] = backoff[t]
      BY <2>1, UpdateStatusRow
    <3>2. AtWork(t)' => AtWork(t)
      BY <1>w, <3>1
    <3>3. CASE t = cur /\ t \in Rows
      <4>1. (s = "DONE" => backoff[t] = 0) /\ (s = "FAILED" => TypeOf[t] \notin Handled)
        BY <2>0, <2>1, <3>3 DEF Control, AtTask
      <4>. QED
        BY <1>0, <2>0, <2>1, <3>1, <3>2, <3>3, <4>1 DEF RowInv
    <3>4. CASE ~(t = cur /\ t \in Rows)
      BY <1>0, <2>0, <3>1, <3>2, <3>4 DEF RowInv
    <3>. QED
      BY <3>3, <3>4
  <2>3. ASSUME MarkFailedOrRetry(cur), outcome = "failed"
        PROVE  RowInv(t)'
    <3>1. CASE t = cur /\ t \in Rows
      <4>1. /\ attempts'[t] = attempts[t] + 1
            /\ \/ Exhausted(t) /\ status'[t] = "FAILED" /\ backoff'[t] = backoff[t]
               \/ ~Exhausted(t) /\ status'[t] = "PENDING" /\ ~claimed'[t]
                  /\ backoff'[t] = DelayAfter(attempts[t] + 1)
        BY <2>3, <3>1, MarkFailedOrRetryRow
      <4>2. ~AtWork(t)'
        BY <2>0, <4>1 DEF AtWork
      <4>3. attempts[t] + 1 <= claims[t] + repeats'[t]
        <5>1. CASE pc = "again"
          BY <1>0, <2>0, <3>1, <5>1 DEF RowInv
        <5>2. CASE pc # "again"
          BY <1>0, <2>0, <3>1, <5>2 DEF RowInv, AtWork, AtTask
        <5>. QED
          BY <5>1, <5>2
      <4>4. attempts[t] + 1 <= MaxAttempts(t) + clicks[t] + repeats'[t]
        <5>1. CASE pc = "again"
          BY <1>0, <2>0, <3>1, <5>1 DEF RowInv
        <5>2. CASE pc # "again"
          <6>1. status[t] \in {"PENDING", "WORKING"}
            BY <2>0, <3>1, <5>2 DEF Control, AtTask, Rows, TaskStatus
          <6>. QED
            BY <1>0, <2>0, <3>1, <5>2, <6>1 DEF RowInv
        <5>. QED
          BY <5>1, <5>2
      <4>. QED
        BY <1>0, <2>0, <4>1, <4>2, <4>3, <4>4 DEF RowInv, Exhausted
    <3>2. CASE ~(t = cur /\ t \in Rows)
      <4>1. /\ status'[t] = status[t] /\ attempts'[t] = attempts[t]
            /\ claimed'[t] = claimed[t] /\ backoff'[t] = backoff[t]
        BY <2>3, <3>2, MarkFailedOrRetryRow
      <4>2. AtWork(t)' => AtWork(t)
        BY <1>w, <4>1
      <4>. QED
        BY <1>0, <2>0, <4>1, <4>2 DEF RowInv
    <3>. QED
      BY <3>1, <3>2
  <2>. QED
    BY <1>3, <2>1, <2>3 DEF OutcomeStep, WriteOutcome
<1>4. CASE ReturnStep
  <2>0. UNCHANGED <<claims, clicks, repeats>>
    BY <1>4 DEF ReturnStep
  <2>1. /\ attempts'[t] = attempts[t]
        /\ status'[t] = IF t = cur /\ t \in Rows THEN "PENDING" ELSE status[t]
        /\ claimed'[t] = IF t = cur /\ t \in Rows THEN FALSE ELSE claimed[t]
        /\ backoff'[t] = IF t = cur /\ t \in Rows THEN 0 ELSE backoff[t]
    BY <1>4, UpdateStatusRow DEF ReturnStep
  <2>2. CASE t = cur /\ t \in Rows
    <3>1. status[t] \in {"PENDING", "WORKING"} /\ ~AtWork(t)'
      BY <1>4, <2>1, <2>2 DEF ReturnStep, Control, AtTask, AtWork, Rows, TaskStatus
    <3>. QED
      BY <1>0, <2>0, <2>1, <2>2, <3>1 DEF RowInv
  <2>3. CASE ~(t = cur /\ t \in Rows)
    BY <1>q, <2>0, <2>1, <2>3
  <2>. QED
    BY <2>2, <2>3
<1>6. ASSUME NEW u \in Tasks, CreateStep(u)
      PROVE  RowInv(t)'
  <2>1. status'[t] = IF t = u THEN "PENDING" ELSE status[t]
    BY <1>6 DEF CreateStep, CreateRow, TypeOK, TableTypeOK
  <2>2. AtWork(t)' => AtWork(t)
    BY <1>w, <2>1
  <2>. QED
    BY <1>0, <1>6, <2>1, <2>2 DEF CreateStep, CreateRow, RowInv
<1>7. ASSUME NEW u \in Tasks, RetryStep(u)
      PROVE  RowInv(t)'
  <2>1. clicks'[t] = IF t = u THEN clicks[t] + 1 ELSE clicks[t]
    BY <1>7 DEF RetryStep, TypeOK
  <2>2. claims' = claims /\ repeats' = repeats
    BY <1>7 DEF RetryStep
  <2>3. /\ attempts'[t] = attempts[t]
        /\ status'[t] = IF t = u /\ t \in Rows THEN "PENDING" ELSE status[t]
        /\ claimed'[t] = IF t = u /\ t \in Rows THEN FALSE ELSE claimed[t]
        /\ backoff'[t] = IF t = u /\ t \in Rows THEN 0 ELSE backoff[t]
    BY <1>7, UpdateStatusRow DEF RetryStep
  <2>6. AtWork(t)' => AtWork(t)
    BY <1>w, <2>3
  <2>4. CASE t = u /\ t \in Rows
    BY <1>0, <2>1, <2>2, <2>3, <2>4, <2>6 DEF RowInv
  <2>5. CASE t # u \/ t \notin Rows
    BY <1>0, <2>1, <2>2, <2>3, <2>5, <2>6 DEF RowInv, Rows, TaskStatus
  <2>. QED
    BY <2>4, <2>5
<1>8. ASSUME NEW u \in Tasks, DueStep(u)
      PROVE  RowInv(t)'
  BY <1>8, <1>q DEF DueStep, ReachNotBefore, TypeOK, TableTypeOK
<1>9. ASSUME NEW c \in Chronicles, DeleteStep(c)
      PROVE  RowInv(t)'
  <2>1. AtWork(t)' => AtWork(t)
    BY <1>9, <1>w DEF DeleteStep, DeleteTasksOf
  <2>. QED
    BY <1>0, <1>9, <2>1 DEF DeleteStep, DeleteTasksOf, RowInv, Rows, TaskStatus
<1>. QED
  BY NextIsTableStep, <1>1, <1>2, <1>3, <1>4, <1>6, <1>7, <1>8, <1>9 DEF TableStep

LEMMA RowInvInit ==
    ASSUME Init, NEW t \in Tasks
    PROVE  RowInv(t)
<1>1. MaxAttempts(t) \in {1, 3}
  BY DEF MaxAttempts
<1>. QED
  BY <1>1 DEF Init, TableInit, RowInv, AtWork, AtTask

THEOREM Inductive == Spec => []IInv
<1>1. Init => IInv
  BY TypeInit, ControlInit, RunsPaidForInit, RowInvInit, RowInvariants
<1>2. IInv /\ [Next]_vars => IInv'
  <2>. SUFFICES ASSUME IInv, [Next]_vars
                PROVE  IInv'
    OBVIOUS
  <2>1. TypeOK /\ Control /\ RunsPaidFor /\ \A t \in Tasks : RowInv(t)
    BY RowInvariants
  <2>2. TypeOK' /\ Control' /\ RunsPaidFor' /\ \A t \in Tasks : RowInv(t)'
    BY <2>1, TypeStep, ControlStep, RunsPaidForStep, RowInvStep
  <2>. QED
    BY <2>2 DEF IInv, RowInv, FreshRow, AttemptLeft, AttemptBudget, RunsNotCounted, QueuedRowIsClean
<1>. QED
  BY <1>1, <1>2, PTL DEF Spec

\* The attempts of a task are bounded by its type and its retry clicks, each is a run of it
\* or an outcome written twice, and no task is FAILED while it has one left.
THEOREM AttemptsAreBounded == Spec => []AttemptBudget
<1>1. IInv => AttemptBudget
  BY DEF IInv
<1>. QED
  BY <1>1, Inductive, PTL

\* A task on the queue shows nothing of an earlier run.
THEOREM QueuedRowsAreClean == Spec => []QueuedRowIsClean
<1>1. IInv => QueuedRowIsClean
  BY DEF IInv
<1>. QED
  BY <1>1, Inductive, PTL

-----------------------------------------------------------------------------
(* Terminal states and their announcement. *)

\* What one step may do to the status of a row.
LEMMA StatusStep ==
    ASSUME TypeOK, Control, AttemptBudget, NEW t \in Tasks, [Next]_vars
    PROVE  \/ status'[t] = status[t]
           \/ status[t] = "none" /\ status'[t] = "PENDING"
           \/ status[t] \in {"PENDING", "WORKING"}
           \/ status[t] \in Terminal /\ status'[t] = "gone"
           \/ status[t] \in Terminal /\ status'[t] = "PENDING" /\ clicks'[t] = clicks[t] + 1
<1>. USE DEF Terminal
<1>1. CASE QuietStep
  BY <1>1 DEF QuietStep, table
<1>2. CASE RecoverStep
  BY <1>2, RecoverInterruptedRow DEF RecoverStep
<1>3. CASE OutcomeStep
  <2>1. t # cur => status'[t] = status[t]
    BY <1>3, UpdateStatusRow, MarkFailedOrRetryRow DEF OutcomeStep, WriteOutcome
  <2>2. t = cur => status[t] \in {"PENDING", "WORKING", "gone"} \/ status'[t] = status[t]
    <3>1. CASE pc \in {"record", "last"}
      BY <3>1 DEF Control, AtTask
    <3>2. CASE pc = "again" /\ t = cur /\ status[t] \in Terminal
      <4>1. CASE outcome = "done"
        BY <1>3, <3>2, <4>1, UpdateStatusRow DEF OutcomeStep, WriteOutcome, Control, Rows, TaskStatus
      <4>2. CASE outcome = "nohandler"
        BY <1>3, <3>2, <4>2, UpdateStatusRow DEF OutcomeStep, WriteOutcome, Control, Rows, TaskStatus
      <4>3. CASE outcome = "failed"
        <5>1. status[t] = "FAILED" /\ TypeOf[t] \in Handled
          BY <3>2, <4>3 DEF Control
        <5>2. Exhausted(t)
          BY <5>1 DEF AttemptBudget, Exhausted, MaxAttempts, TypeOK, TableTypeOK
        <5>. QED
          BY <1>3, <3>2, <4>3, <5>1, <5>2, MarkFailedOrRetryRow DEF OutcomeStep, WriteOutcome
      <4>. QED
        BY <1>3, <4>1, <4>2, <4>3 DEF OutcomeStep, WriteOutcome
    <3>3. CASE pc = "again" /\ status[t] \notin Terminal
      BY <3>3 DEF Control
    <3>. QED
      BY <1>3, <3>1, <3>2, <3>3 DEF OutcomeStep
  <2>3. t = cur /\ status[t] = "gone" => status'[t] = status[t]
    BY <1>3, UpdateStatusRow, MarkFailedOrRetryRow DEF OutcomeStep, WriteOutcome, Rows, TaskStatus
  <2>. QED
    BY <2>1, <2>2, <2>3
<1>4. CASE ReturnStep
  BY <1>4, UpdateStatusRow DEF ReturnStep, Control, AtTask, Rows, TaskStatus
<1>5. ASSUME NEW u \in Tasks, ClaimStep(u) \/ CreateStep(u) \/ DueStep(u)
      PROVE  \/ status'[t] = status[t]
             \/ status[t] = "none" /\ status'[t] = "PENDING"
             \/ status[t] = "PENDING"
  BY <1>5 DEF ClaimStep, ClaimRow, CreateStep, CreateRow, DueStep, ReachNotBefore, TypeOK, TableTypeOK
<1>6. ASSUME NEW u \in Tasks, RetryStep(u)
      PROVE  \/ status'[t] = status[t]
             \/ status[t] \in TaskStatus /\ status'[t] = "PENDING" /\ clicks'[t] = clicks[t] + 1
  <2>1. clicks'[t] = IF t = u THEN clicks[t] + 1 ELSE clicks[t]
    BY <1>6 DEF RetryStep, TypeOK
  <2>. QED
    BY <1>6, <2>1, UpdateStatusRow DEF RetryStep, Rows
<1>7. ASSUME NEW c \in Chronicles, DeleteStep(c)
      PROVE  \/ status'[t] = status[t]
             \/ status[t] \in TaskStatus /\ status'[t] = "gone"
  BY <1>7 DEF DeleteStep, DeleteTasksOf, Rows
<1>. QED
  BY NextIsTableStep, <1>1, <1>2, <1>3, <1>4, <1>5, <1>6, <1>7 DEF TableStep, TaskStatus

\* No late outcome, recovery or stop overwrites a terminal state.
THEOREM TerminalStates == Spec => TerminalIsStable
<1>1. IInv /\ [Next]_vars =>
        [\A t \in Tasks :
            status[t] \in Terminal /\ status'[t] # status[t] =>
                status'[t] = "gone" \/ clicks'[t] = clicks[t] + 1]_vars
  BY StatusStep DEF IInv, Terminal
<1>. QED
  BY <1>1, Inductive, PTL DEF Spec, TerminalIsStable

LEMMA AnnouncingStep ==
    ASSUME TypeOK, Control, Announcing, [Next]_vars
    PROVE  Announcing'
<1>1. CASE Start \/ Wake \/ Select \/ Load \/ HandlerEnds \/ PublishCompletion
  BY <1>1 DEF Start, Wake, Select, Load, HandlerEnds, PublishCompletion, LeaveTask, Announcing
<1>2. CASE Stop \/ StopRecording \/ LastTry \/ Crash \/ GiveUp \/ \E t \in Tasks : Claim(t)
  BY <1>2 DEF Stop, StopRecording, LastTry, Forget, Crash, GiveUp, LeaveTask, Claim, Announcing
<1>3. CASE Recover
  <2>1. \A t \in todo' : t \in Tasks /\ status[t] = "WORKING" /\ Exhausted(t)
    BY <1>3 DEF Recover, Interrupted
  <2>2. \A t \in todo' : status'[t] = "FAILED"
    BY <1>3, <2>1, RecoverInterruptedRow DEF Recover
  <2>3. pc' \notin {"tell", "publish"}
    BY <1>3 DEF Recover
  <2>. QED
    BY <2>2, <2>3 DEF Announcing
<1>4. CASE TellRecovered
  BY <1>4 DEF TellRecovered, LeaveTask, Announcing, table
<1>5. ASSUME NEW t \in Tasks, Tidy(t)
      PROVE  Announcing'
  BY <1>5 DEF Tidy, Announcing, table
<1>6. CASE RecordOutcome
  <2>1. cur \in Tasks /\ status[cur] \in {"PENDING", "WORKING", "gone"}
    BY <1>6 DEF RecordOutcome, Control, AtTask
  <2>2. status'[cur] \notin {"none", "WORKING"}
    BY <1>6, <2>1, UpdateStatusRow, MarkFailedOrRetryRow
       DEF RecordOutcome, WriteOutcome, Rows, TaskStatus
  <2>. QED
    BY <1>6, <2>1, <2>2 DEF RecordOutcome, Announcing
<1>7. ASSUME NEW t, NEW c, Queue(t) \/ Elapse(t) \/ RetryClicked(t) \/ LoadTasks
                           \/ DeleteChronicle(c) \/ UNCHANGED vars
      PROVE  Announcing'
  <2>1. UNCHANGED worker
    BY <1>7 DEF Queue, LoadTasks, RetryClicked, DeleteChronicle, Elapse, vars
  <2>2. ASSUME NEW u \in Tasks, status[u] # "none"
        PROVE  status'[u] \in {status[u], "PENDING", "gone"}
    <3>1. CASE Queue(t) \/ Elapse(t) \/ LoadTasks \/ DeleteChronicle(c) \/ UNCHANGED vars
      BY <2>2, <3>1 DEF Queue, LoadTasks, DeleteChronicle, Elapse, vars, CreateRow, ReachNotBefore,
         DeleteTasksOf, table, TypeOK, TableTypeOK
    <3>2. CASE RetryClicked(t)
      BY <3>2, UpdateStatusRow DEF RetryClicked
    <3>. QED
      BY <1>7, <3>1, <3>2
  <2>3. todo \subseteq Tasks
    BY DEF TypeOK
  <2>. QED
    BY <2>1, <2>2, <2>3 DEF worker, Announcing
<1>. QED
  BY <1>1, <1>2, <1>3, <1>4, <1>5, <1>6, <1>7 DEF Next, WorkerStep, UserStep

LEMMA AnnouncedStep ==
    ASSUME TypeOK, Control, AttemptBudget, Announcing, AnnouncedIsRecorded, [Next]_vars
    PROVE  AnnouncedIsRecorded'
<1>. SUFFICES ASSUME NEW t \in Tasks, announced'[t] # "none"
              PROVE  announced'[t] \in Terminal /\ status'[t] \in {announced'[t], "gone"}
  BY DEF AnnouncedIsRecorded
<1>0. announced[t] # "none" => announced[t] \in Terminal /\ status[t] \in {announced[t], "gone"}
  BY DEF AnnouncedIsRecorded
<1>1. CASE announced'[t] = announced[t]
  <2>1. CASE clicks'[t] = clicks[t] + 1
    <3>1. RetryClicked(t)
      BY <2>1, NextIsTableStep DEF Next, WorkerStep, UserStep, vars, history, TypeOK,
         Start, Recover, TellRecovered, Wake, Select, Load, HandlerEnds, RecordOutcome,
         PublishCompletion, Tidy, Claim, Queue, LoadTasks, RetryClicked, DeleteChronicle,
         Elapse, GiveUp, Stop, StopRecording, LastTry, Forget, Crash
    <3>. QED
      BY <1>1, <3>1 DEF RetryClicked, TypeOK
  <2>2. CASE clicks'[t] # clicks[t] + 1
    BY <1>0, <1>1, <2>2, StatusStep DEF Terminal
  <2>. QED
    BY <2>1, <2>2
<1>2. CASE announced'[t] # announced[t]
  <2>1. Publish(cur) /\ pc \in {"publish", "tell"} /\ UNCHANGED table
    BY <1>2 DEF Next, WorkerStep, UserStep, vars, history, TypeOK,
       Start, Recover, TellRecovered, Wake, Select, Load, HandlerEnds, RecordOutcome,
       PublishCompletion, Tidy, Claim, Queue, LoadTasks, RetryClicked, DeleteChronicle,
       Elapse, GiveUp, Stop, StopRecording, LastTry, Forget, Crash
  <2>2. t = cur /\ announced'[t] = status[t] /\ status[t] \in TaskStatus /\ status[t] # "PENDING"
    BY <1>2, <2>1 DEF Publish, Rows, TypeOK
  <2>3. status[t] \in Terminal
    BY <2>1, <2>2 DEF Announcing, Terminal, TaskStatus
  <2>. QED
    BY <2>1, <2>2, <2>3 DEF table
<1>. QED
  BY <1>1, <1>2

\* What the listeners heard last of a task is what its row says.
THEOREM EventsAreRecorded == Spec => []AnnouncedIsRecorded
<1>1. Init => Announcing /\ AnnouncedIsRecorded
  BY DEF Init, Announcing, AnnouncedIsRecorded
<1>2. /\ IInv /\ Announcing /\ AnnouncedIsRecorded /\ [Next]_vars
      => (Announcing /\ AnnouncedIsRecorded)'
  BY AnnouncingStep, AnnouncedStep DEF IInv
<1>. QED
  BY <1>1, <1>2, Inductive, PTL DEF Spec
-----------------------------------------------------------------------------
(* Interrupted runs: what shows as WORKING, and what recovery cleans up after. *)

\* Only a claim makes a row WORKING, and what the worker is at is all that is.
LEMMA WorkingStep ==
    ASSUME TypeOK, Control, NEW t \in Tasks, [Next]_vars, status'[t] = "WORKING"
    PROVE  \/ status[t] = "WORKING" /\ ~Recover /\ (WriteOutcome => t # cur)
           \/ Claim(t) /\ status[t] = "PENDING"
<1>1. ~Recover
  BY RecoverInterruptedRow DEF Recover
<1>2. ASSUME WriteOutcome
      PROVE  t # cur /\ status[t] = "WORKING"
  <2>1. t # cur
    BY <1>2, UpdateStatusRow, MarkFailedOrRetryRow DEF WriteOutcome, Rows, TaskStatus
  <2>2. status'[t] = status[t]
    BY <1>2, <2>1, UpdateStatusRow, MarkFailedOrRetryRow DEF WriteOutcome
  <2>. QED
    BY <2>1, <2>2
<1>7. ASSUME RecordOutcome \/ StopRecording \/ LastTry
      PROVE  status[t] = "WORKING"
  BY <1>2, <1>7 DEF RecordOutcome, StopRecording, LastTry, table
<1>3. ASSUME NEW u \in Tasks, Claim(u)
      PROVE  status[t] = "WORKING" \/ (Claim(t) /\ status[t] = "PENDING")
  <2>1. CASE status[u] = "PENDING"
    <3>1. t # u => status'[t] = status[t]
      BY <1>3, <2>1 DEF Claim, ClaimRow, TypeOK, TableTypeOK
    <3>2. CASE t = u
      BY <1>3, <2>1, <3>2
    <3>3. CASE t # u
      BY <3>1, <3>3
    <3>. QED
      BY <3>2, <3>3
  <2>2. CASE status[u] # "PENDING"
    <3>1. UNCHANGED status
      BY <1>3, <2>2 DEF Claim, table
    <3>. QED
      BY <3>1
  <2>. QED
    BY <2>1, <2>2
<1>4. ASSUME Stop
      PROVE  status[t] = "WORKING"
  BY <1>4, UpdateStatusRow, MarkFailedOrRetryRow DEF Stop, WriteOutcome, table
<1>5. ASSUME NEW u \in Tasks, NEW c,
             Queue(u) \/ Elapse(u) \/ LoadTasks \/ DeleteChronicle(c) \/ RetryClicked(u)
      PROVE  status[t] = "WORKING"
  <2>1. CASE Queue(u) \/ Elapse(u) \/ LoadTasks \/ DeleteChronicle(c)
    BY <2>1 DEF Queue, LoadTasks, DeleteChronicle, Elapse, CreateRow, ReachNotBefore,
       DeleteTasksOf, table, TypeOK, TableTypeOK
  <2>2. CASE RetryClicked(u)
    BY <2>2, UpdateStatusRow DEF RetryClicked
  <2>. QED
    BY <1>5, <2>1, <2>2
<1>6. ASSUME \/ Start \/ TellRecovered \/ Wake \/ Select \/ Load \/ HandlerEnds \/ PublishCompletion
             \/ GiveUp \/ Crash \/ UNCHANGED vars \/ \E u \in Tasks : Tidy(u)
      PROVE  status[t] = "WORKING"
  BY <1>6 DEF Start, TellRecovered, Wake, Select, Load, HandlerEnds, PublishCompletion,
     GiveUp, Crash, vars, table, Tidy
<1>. QED
  BY <1>1, <1>2, <1>3, <1>4, <1>5, <1>6, <1>7 DEF Next, WorkerStep, UserStep

\* A fault that was not yet is not after: the counts only grow.
LEMMA FaultsGrow ==
    ASSUME TypeOK, [Next]_vars
    PROVE  /\ \A k \in FaultKind : faults[k] <= faults'[k]
           /\ GiveUp => faults'["lock"] > 0
           /\ Stop \/ StopRecording \/ Crash =>
                 faults'["crash"] + faults'["stop"] = faults["crash"] + faults["stop"] + 1
<1>1. ASSUME NEW k \in FaultKind, Fault(k)
      PROVE  /\ \A j \in FaultKind : faults'[j] = IF j = k THEN faults[j] + 1 ELSE faults[j]
             /\ \A j \in FaultKind : faults[j] \in Nat
  BY <1>1 DEF Fault, TypeOK
<1>2. \A j \in FaultKind : faults[j] \in Nat
  BY DEF TypeOK
<1>3. CASE GiveUp
  BY <1>1, <1>3 DEF GiveUp, FaultKind, Stop, StopRecording, Crash, LeaveTask, Off
<1>4. CASE Crash
  BY <1>1, <1>4 DEF GiveUp, FaultKind, Crash, LeaveTask, Off
<1>5. CASE Stop
  <2>1. CASE Fault("stop")
    BY <1>1, <1>5, <2>1 DEF GiveUp, FaultKind, Stop, LeaveTask, Off
  <2>2. CASE faults' = [faults EXCEPT !["lock"] = @ + 1, !["stop"] = @ + 1]
    <3>1. faults'["crash"] = faults["crash"] /\ faults'["stop"] = faults["stop"] + 1
          /\ faults'["lock"] = faults["lock"] + 1
      BY <2>2 DEF TypeOK, FaultKind
    <3>. QED
      BY <1>2, <1>5, <3>1 DEF GiveUp, FaultKind, Stop, LeaveTask, Off
  <2>. QED
    BY <1>5, <2>1, <2>2 DEF Stop
<1>9. CASE StopRecording
  <2>1. Fault("stop") /\ ~GiveUp
    BY <1>9 DEF StopRecording, GiveUp, LeaveTask
  <2>. QED
    BY <1>1, <2>1 DEF FaultKind
<1>6. CASE TellRecovered \/ LastTry \/ \E t \in Tasks : Tidy(t)
  <2>1. UNCHANGED faults \/ Fault("lock")
    BY <1>6 DEF TellRecovered, LastTry, Tidy
  <2>2. ~GiveUp /\ ~StopRecording /\ ~Crash
    BY <1>6 DEF TellRecovered, LastTry, Tidy, GiveUp, StopRecording, Crash, LeaveTask
  <2>3. ~Stop
    BY <1>6 DEF TellRecovered, LastTry, Tidy, Stop, LeaveTask
  <2>. QED
    BY <1>1, <1>2, <2>1, <2>2, <2>3 DEF FaultKind
<1>7. CASE UNCHANGED faults
  <2>1. ~GiveUp /\ ~Stop /\ ~StopRecording /\ ~Crash
    BY <1>7, <1>1, <1>2 DEF GiveUp, Stop, StopRecording, Crash, Fault, FaultKind, TypeOK
  <2>. QED
    BY <1>2, <1>7, <2>1
<1>8. CASE Start \/ Recover \/ Wake \/ Select \/ Load \/ HandlerEnds \/ RecordOutcome
           \/ PublishCompletion \/ UserStep \/ UNCHANGED vars
           \/ \E t \in Tasks : Claim(t) \/ Elapse(t)
  BY <1>7, <1>8 DEF Start, Recover, Wake, Select, Load, HandlerEnds, RecordOutcome, PublishCompletion,
     UserStep, Queue, LoadTasks, RetryClicked, DeleteChronicle, Claim, Elapse, vars, history
<1>. QED
  BY <1>3, <1>4, <1>5, <1>6, <1>8, <1>9 DEF Next, WorkerStep

\* After a recovery no row is WORKING but the one the worker runs.
Recovered ==
    /\ pc \in {"tidy", "tell"} => \A t \in Tasks : status[t] # "WORKING"
    /\ pc \in Off \cup {"recover", "tidy", "tell"} => ~recovered
    /\ WorkingIsRunning

LEMMA RecoveredStep ==
    ASSUME TypeOK, Control, Recovered, [Next]_vars
    PROVE  Recovered'
<1>. USE DEF Recovered, Off
<1>1. pc' \in Off \cup {"recover", "tidy", "tell"} => ~recovered'
  BY DEF Next, WorkerStep, UserStep, Start, Recover, TellRecovered, Wake, Select, Load, HandlerEnds,
     RecordOutcome, PublishCompletion, LeaveTask, Tidy, Claim, Queue, LoadTasks, RetryClicked,
     DeleteChronicle, Elapse, GiveUp, Stop, StopRecording, LastTry, Forget, Crash, vars, worker
<1>2. ASSUME NEW t \in Tasks, pc' \in {"tidy", "tell"}, status'[t] = "WORKING"
      PROVE  FALSE
  <2>1. pc \in {"tidy", "tell"} \/ Recover
    BY <1>2 DEF Next, WorkerStep, UserStep, Start, Recover, TellRecovered, Wake, Select, Load,
       HandlerEnds, RecordOutcome, PublishCompletion, LeaveTask, Tidy, Claim, Queue, LoadTasks,
       RetryClicked, DeleteChronicle, Elapse, GiveUp, Stop, StopRecording, LastTry, Forget, Crash, vars, worker
  <2>. QED
    BY <1>2, <2>1, WorkingStep DEF Claim
<1>3. ASSUME NEW t \in Tasks, recovered', faults'["lock"] = 0, status'[t] = "WORKING"
      PROVE  cur' = t /\ pc' \in AtTask
  <2>1. faults["lock"] = 0 /\ ~GiveUp
    BY <1>3, FaultsGrow DEF TypeOK, FaultKind
  <2>2. CASE Claim(t) /\ status[t] = "PENDING"
    BY <2>2 DEF Claim, AtTask
  <2>3. CASE status[t] = "WORKING" /\ ~Recover /\ (WriteOutcome => t # cur)
    <3>1. recovered
      <4>1. ~TellRecovered
        BY <2>3 DEF TellRecovered
      <4>. QED
        BY <1>3, <2>3, <4>1 DEF Next, WorkerStep, UserStep, Start, Wake, Select, Load,
           HandlerEnds, RecordOutcome, PublishCompletion, Tidy, Claim, Queue, LoadTasks,
           RetryClicked, DeleteChronicle, Elapse, GiveUp, Stop, StopRecording, LastTry, Forget, Crash, vars, worker
    <3>2. cur = t /\ pc \in AtTask /\ ~WriteOutcome
      BY <2>1, <2>3, <3>1 DEF WorkingIsRunning
    <3>3. t \in Rows
      BY <2>3 DEF Rows, TaskStatus
    <3>. QED
      BY <1>3, <2>1, <2>3, <3>1, <3>2, <3>3 DEF Next, WorkerStep, UserStep, AtTask, Start, TellRecovered, Wake, Select, Load,
           HandlerEnds, RecordOutcome, PublishCompletion, Tidy, Claim, Queue, LoadTasks,
           RetryClicked, DeleteChronicle, Elapse, Stop, StopRecording, LastTry, Forget, Crash, vars, worker
  <2>. QED
    BY <1>3, <2>2, <2>3, WorkingStep
<1>. QED
  BY <1>1, <1>2, <1>3 DEF WorkingIsRunning

\* Once the worker has recovered, a WORKING row is the one it runs, unless a lock outlasted
\* the timeout of a write, for any tasks, types and number of crashes and stops.
THEOREM WorkingRowsRun == Spec => []WorkingIsRunning
<1>1. Init => Recovered
  BY DEF Init, Idle, Recovered, WorkingIsRunning
<1>2. IInv /\ Recovered /\ [Next]_vars => Recovered'
  BY RecoveredStep DEF IInv
<1>3. Recovered => WorkingIsRunning
  BY DEF Recovered
<1>. QED
  BY <1>1, <1>2, <1>3, Inductive, PTL DEF Spec
\* A handler whose end its track did not see is in untidy: without a fault it is the one that
\* runs, and the worker fails no task that is in there but by recovery, which then tidies it.
Tidied ==
    /\ \A t \in untidy : TypeOf[t] \in Handled
    /\ pc \in {"record", "last", "again"} => cur \notin untidy
    /\ faults["lock"] = 0 =>
          /\ pc \notin {"tidy", "tell"} => todo = {}
          /\ pc = "tell" => cur \notin untidy
          /\ faults["crash"] + faults["stop"] = 0 => \A t \in untidy : pc = "run" /\ t = cur
    /\ FailedIsTidied

\* A row becomes FAILED by the outcome of a run, or by recovery.
LEMMA FailedStep ==
    ASSUME TypeOK, Control, NEW t \in Tasks, [Next]_vars, status'[t] = "FAILED", status[t] # "FAILED"
    PROVE  \/ pc \in {"record", "last", "again"} /\ t = cur
           \/ Recover /\ t \in todo'
<1>1. ASSUME Recover
      PROVE  t \in todo'
  BY <1>1, RecoverInterruptedRow DEF Recover, Interrupted
<1>2. ASSUME RecordOutcome \/ Stop \/ StopRecording \/ LastTry
      PROVE  pc \in {"record", "last", "again"} /\ t = cur
  <2>1. \/ pc \in {"record", "last", "again"} /\ WriteOutcome
        \/ UpdateStatus(cur, "PENDING") \/ UNCHANGED table
    BY <1>2 DEF RecordOutcome, Stop, StopRecording, LastTry
  <2>. QED
    BY <2>1, UpdateStatusRow, MarkFailedOrRetryRow DEF WriteOutcome, table
<1>3. ASSUME NEW u \in Tasks, Claim(u)
      PROVE  FALSE
  BY <1>3 DEF Claim, ClaimRow, table, TypeOK, TableTypeOK
<1>4. ASSUME NEW u \in Tasks, NEW c,
             Queue(u) \/ Elapse(u) \/ LoadTasks \/ DeleteChronicle(c) \/ RetryClicked(u)
      PROVE  FALSE
  <2>1. CASE Queue(u) \/ Elapse(u) \/ LoadTasks \/ DeleteChronicle(c)
    BY <2>1 DEF Queue, LoadTasks, DeleteChronicle, Elapse, CreateRow, ReachNotBefore,
       DeleteTasksOf, table, TypeOK, TableTypeOK
  <2>2. CASE RetryClicked(u)
    BY <2>2, UpdateStatusRow DEF RetryClicked
  <2>. QED
    BY <1>4, <2>1, <2>2
<1>5. ASSUME \/ Start \/ TellRecovered \/ Wake \/ Select \/ Load \/ HandlerEnds \/ PublishCompletion
             \/ GiveUp \/ Crash \/ UNCHANGED vars \/ \E u \in Tasks : Tidy(u)
      PROVE  FALSE
  BY <1>5 DEF Start, TellRecovered, Wake, Select, Load, HandlerEnds, PublishCompletion,
     GiveUp, Crash, vars, table, Tidy
<1>. QED
  BY <1>1, <1>2, <1>3, <1>4, <1>5 DEF Next, WorkerStep, UserStep
LEMMA TidiedStep ==
    ASSUME TypeOK, Control, Tidied, [Next]_vars
    PROVE  Tidied'
<1>. USE DEF Tidied
<1>0. /\ faults'["lock"] = 0 => faults["lock"] = 0 /\ ~GiveUp
      /\ faults["crash"] \in Nat /\ faults["stop"] \in Nat
      /\ faults["crash"] + faults["stop"] <= faults'["crash"] + faults'["stop"]
      /\ Stop \/ StopRecording \/ Crash => faults'["crash"] + faults'["stop"] = faults["crash"] + faults["stop"] + 1
  BY FaultsGrow, TypeStep DEF TypeOK, FaultKind
<1>1. \A t \in untidy' : TypeOf[t] \in Handled
  BY DEF Next, WorkerStep, UserStep, Start, Recover, TellRecovered, Wake, Select, Load, HandlerEnds,
     RecordOutcome, PublishCompletion, Tidy, Claim, Queue, LoadTasks, RetryClicked, DeleteChronicle,
     Elapse, GiveUp, Stop, StopRecording, LastTry, Forget, Crash, vars
<1>2. pc' \in {"record", "last", "again"} => cur' \notin untidy'
  BY DEF Next, WorkerStep, UserStep, Start, Recover, TellRecovered, Wake, Select, Load, HandlerEnds,
     RecordOutcome, PublishCompletion, LeaveTask, Tidy, Claim, Queue, LoadTasks, RetryClicked,
     DeleteChronicle, Elapse, GiveUp, Stop, StopRecording, LastTry, Forget, Crash, vars, worker
<1>3. faults'["lock"] = 0 => (pc' \notin {"tidy", "tell"} => todo' = {})
  BY <1>0 DEF Next, WorkerStep, UserStep, Start, Recover, TellRecovered, Wake, Select, Load,
     HandlerEnds, RecordOutcome, PublishCompletion, LeaveTask, Tidy, Claim, Queue, LoadTasks,
     RetryClicked, DeleteChronicle, Elapse, Stop, StopRecording, LastTry, Forget, Crash, vars, worker, Off
<1>4. ASSUME faults'["lock"] = 0, pc' = "tell"
      PROVE  cur' \notin untidy'
  <2>1. ASSUME NEW t \in Tasks, Tidy(t)
        PROVE  cur' \notin untidy'
    <3>1. ~Fault("lock")
      BY <1>0, <1>4 DEF Fault, TypeOK, FaultKind
    <3>. QED
      BY <2>1, <3>1 DEF Tidy
  <2>. QED
    BY <1>0, <1>4, <2>1 DEF Next, WorkerStep, UserStep, Start, Recover, TellRecovered, Wake, Select, Load,
     HandlerEnds, RecordOutcome, PublishCompletion, LeaveTask, Claim, Queue, LoadTasks,
     RetryClicked, DeleteChronicle, Elapse, GiveUp, Stop, StopRecording, LastTry, Forget, Crash, vars, worker
<1>5. ASSUME faults'["lock"] = 0, faults'["crash"] + faults'["stop"] = 0, NEW t \in untidy'
      PROVE  pc' = "run" /\ t = cur'
  <2>1. /\ ~GiveUp /\ ~Stop /\ ~StopRecording /\ ~Crash
        /\ \A u \in untidy : pc = "run" /\ u = cur
    BY <1>0, <1>5, TypeStep DEF TypeOK, FaultKind
  <2>. QED
    BY <1>5, <2>1 DEF Next, WorkerStep, UserStep, Start, Recover, TellRecovered, Wake, Select, Load,
     HandlerEnds, RecordOutcome, PublishCompletion, LastTry, Forget, LeaveTask, Tidy, Claim, Queue, LoadTasks,
     RetryClicked, DeleteChronicle, Elapse, vars, worker, Off
<1>6. ASSUME faults'["crash"] + faults'["stop"] <= 1, faults'["lock"] = 0,
             NEW t \in untidy', status'[t] = "FAILED"
      PROVE  t \in todo' /\ Up'
  <2>0. /\ faults["crash"] + faults["stop"] <= 1 /\ faults["lock"] = 0 /\ t \in Tasks
    BY <1>0, <1>6, TypeStep DEF TypeOK, FaultKind
  <2>1. status[t] # "FAILED" => Recover /\ t \in todo'
    <3>1. ~(pc \in {"record", "last", "again"} /\ t = cur)
      BY <1>6 DEF Next, WorkerStep, UserStep, Start, Recover, TellRecovered, Wake, Select, Load,
       HandlerEnds, RecordOutcome, PublishCompletion, Tidy, Claim, Queue, LoadTasks,
       RetryClicked, DeleteChronicle, Elapse, GiveUp, Stop, StopRecording, LastTry, Forget, Crash, vars, worker, Off
    <3>. QED
      BY <1>6, <2>0, <3>1, FailedStep
  <2>2. ASSUME Recover
        PROVE  Up'
    BY <2>2 DEF Recover, Up, Off
  <2>3. ASSUME status[t] = "FAILED", t \in untidy
        PROVE  t \in todo' /\ Up'
    <3>1. t \in todo /\ Up /\ pc \in {"tidy", "tell"}
      BY <2>0, <2>3 DEF FailedIsTidied
    <3>2. ~Stop /\ ~StopRecording /\ ~Crash
      BY <1>0, <1>6, <2>0, <2>3, <3>1
    <3>3. ~TellRecovered \/ t # cur
      BY <2>0, <2>3, <3>1 DEF TellRecovered
    <3>. QED
      BY <1>0, <1>6, <3>1, <3>2, <3>3 DEF Next, WorkerStep, UserStep, Start, Recover, TellRecovered, Wake, Select, Load,
       HandlerEnds, RecordOutcome, PublishCompletion, LastTry, Forget, LeaveTask, Tidy, Claim, Queue, LoadTasks,
       RetryClicked, DeleteChronicle, Elapse, vars, worker, Off, Up
  <2>4. ASSUME status[t] = "FAILED", t \notin untidy
        PROVE  FALSE
    <3>1. Load /\ t = cur /\ pc = "load"
      BY <1>6, <2>4 DEF Next, WorkerStep, UserStep, Start, Recover, TellRecovered, Wake, Select, Load,
       HandlerEnds, RecordOutcome, PublishCompletion, LeaveTask, Tidy, Claim, Queue, LoadTasks,
       RetryClicked, DeleteChronicle, Elapse, GiveUp, Stop, StopRecording, LastTry, Forget, Crash, vars
    <3>. QED
      BY <2>4, <3>1 DEF Control, AtTask
  <2>. QED
    BY <2>1, <2>2, <2>3, <2>4
<1>. QED
  BY <1>1, <1>2, <1>3, <1>4, <1>5, <1>6 DEF FailedIsTidied

\* A task whose failure its handler never saw is cleaned up after, for any tasks and types,
\* if the process was interrupted at most once and no lock outlasted a write.
THEOREM FailuresAreTidied == Spec => []FailedIsTidied
<1>1. Init => Tidied
  BY DEF Init, Idle, Tidied, FailedIsTidied
<1>2. IInv /\ Tidied /\ [Next]_vars => Tidied'
  BY TidiedStep DEF IInv
<1>3. Tidied => FailedIsTidied
  BY DEF Tidied
<1>. QED
  BY <1>1, <1>2, <1>3, Inductive, PTL DEF Spec
-----------------------------------------------------------------------------
(* The life of a task: WorkerLoop implements TaskLifecycle, row by row. *)

\* One row's part of a step, as docs/tasks.md draws it.
RowMoves(t) ==
    \/ status'[t] = status[t] /\ attempts'[t] = attempts[t]
    \/ /\ attempts'[t] = attempts[t]
       /\ \/ status[t] = "none" /\ status'[t] = "PENDING"
          \/ status[t] = "PENDING" /\ status'[t] = "WORKING"
          \/ status[t] = "WORKING" /\ status'[t] \in {"DONE", "PENDING"}
          \/ status[t] = "WORKING" /\ status'[t] = "FAILED" /\ TypeOf[t] \notin Handled
          \/ status[t] \in {"DONE", "FAILED"} /\ status'[t] = "PENDING"
          \/ status[t] \notin {"none", "gone"} /\ status'[t] = "gone"
    \/ /\ status[t] = "WORKING"
       /\ attempts'[t] = attempts[t] + 1
       /\ status'[t] = IF attempts[t] + 1 < MaxAttempts(t) THEN "PENDING" ELSE "FAILED"

\* Such a step is one of the row's TaskLifecycle.
LEMMA RowMovesIsLife ==
    ASSUME NEW t \in Tasks, RowMoves(t)
    PROVE  [Life(t)!LNext]_(Life(t)!lvars)
<1>1. CASE status'[t] = status[t] /\ attempts'[t] = attempts[t]
  BY <1>1 DEF Life!lvars
<1>3. CASE /\ status[t] = "WORKING"
           /\ attempts'[t] = attempts[t] + 1
           /\ status'[t] = IF attempts[t] + 1 < MaxAttempts(t) THEN "PENDING" ELSE "FAILED"
  <2>1. Life(t)!Budget(t) = MaxAttempts(t)
    BY DEF Life!Budget, MaxAttempts
  <2>2. Life(t)!LoseAttempt({t})
    BY <1>3, <2>1 DEF Life!LoseAttempt, Life!In
  <2>. QED
    BY <2>2 DEF Life!LNext
<1>2. CASE attempts'[t] = attempts[t]
  <2>1. CASE status[t] = "none" /\ status'[t] = "PENDING"
    <3>1. Life(t)!Submit(t)
      BY <1>2, <2>1 DEF Life!Submit, Life!In, Life!Move
    <3>. QED
      BY <3>1 DEF Life!LNext
  <2>2. CASE status[t] = "PENDING" /\ status'[t] = "WORKING"
    <3>1. Life(t)!Take(t)
      BY <1>2, <2>2 DEF Life!Take, Life!In, Life!Move
    <3>. QED
      BY <3>1 DEF Life!LNext
  <2>3. CASE status[t] = "WORKING" /\ status'[t] = "DONE"
    <3>1. Life(t)!Succeed(t)
      BY <1>2, <2>3 DEF Life!Succeed, Life!In, Life!Move
    <3>. QED
      BY <3>1 DEF Life!LNext
  <2>4. CASE status[t] = "WORKING" /\ status'[t] = "PENDING"
    <3>1. Life(t)!GiveBack(t)
      BY <1>2, <2>4 DEF Life!GiveBack, Life!In, Life!Move
    <3>. QED
      BY <3>1 DEF Life!LNext
  <2>5. CASE status[t] = "WORKING" /\ status'[t] = "FAILED" /\ TypeOf[t] \notin Handled
    <3>1. Life(t)!Reject(t)
      BY <1>2, <2>5 DEF Life!Reject, Life!In, Life!Move
    <3>. QED
      BY <3>1 DEF Life!LNext
  <2>6. CASE status[t] \in {"DONE", "FAILED"} /\ status'[t] = "PENDING"
    <3>1. Life(t)!Retry(t)
      BY <1>2, <2>6 DEF Life!Retry, Life!In, Life!Move
    <3>. QED
      BY <3>1 DEF Life!LNext
  <2>7. CASE status[t] \notin {"none", "gone"} /\ status'[t] = "gone"
    <3>1. Life(t)!Discard({t})
      BY <1>2, <2>7 DEF Life!Discard, Life!In
    <3>. QED
      BY <3>1 DEF Life!LNext
  <2>. QED
    BY <1>1, <1>2, <1>3, <2>1, <2>2, <2>3, <2>4, <2>5, <2>6, <2>7 DEF RowMoves
<1>. QED
  BY <1>1, <1>2, <1>3 DEF RowMoves

LEMMA StepMovesRow ==
    ASSUME TypeOK, Control, NEW t \in Tasks, ~Astray(t), [Next]_vars
    PROVE  RowMoves(t) \/ \E u \in Tasks : RetryStep(u)
<1>. USE DEF RowMoves
<1>0. /\ attempts[t] \in Nat /\ status[t] \in TaskStatus \cup {"none", "gone"}
      /\ Exhausted(t) <=> ~(attempts[t] + 1 < MaxAttempts(t))
  BY DEF TypeOK, TableTypeOK, Exhausted, MaxAttempts
<1>1. CASE QuietStep
  BY <1>1 DEF QuietStep, table
<1>2. CASE RecoverStep
  BY <1>0, <1>2, RecoverInterruptedRow DEF RecoverStep
<1>3. CASE OutcomeStep
  <2>1. t = cur /\ t \in Rows => status[t] = "WORKING"
    BY <1>3 DEF OutcomeStep, Astray, Control, AtTask, Rows, TaskStatus
  <2>2. outcome = "nohandler" => TypeOf[cur] \notin Handled
    BY DEF Control
  <2>. QED
    BY <1>0, <1>3, <2>1, <2>2, UpdateStatusRow, MarkFailedOrRetryRow DEF OutcomeStep, WriteOutcome
<1>4. CASE ReturnStep
  <2>1. t = cur /\ t \in Rows => status[t] = "WORKING"
    BY <1>4 DEF ReturnStep, Astray, Control, AtTask, Rows, TaskStatus
  <2>. QED
    BY <1>4, <2>1, UpdateStatusRow DEF ReturnStep
<1>5. ASSUME NEW u \in Tasks, ClaimStep(u) \/ CreateStep(u) \/ DueStep(u)
      PROVE  RowMoves(t)
  BY <1>5 DEF ClaimStep, ClaimRow, CreateStep, CreateRow, DueStep, ReachNotBefore, TypeOK, TableTypeOK
<1>6. ASSUME NEW c \in Chronicles, DeleteStep(c)
      PROVE  RowMoves(t)
  BY <1>6 DEF DeleteStep, DeleteTasksOf, Rows, TaskStatus
<1>. QED
  BY NextIsTableStep, <1>1, <1>2, <1>3, <1>4, <1>5, <1>6 DEF TableStep

\* A click puts a row back whatever it is.
LEMMA RetryMovesRow ==
    ASSUME TypeOK, NEW t \in Tasks, NEW u \in Tasks, RetryStep(u)
    PROVE  RowMoves(t)
<1>1. /\ attempts'[t] = attempts[t]
      /\ status'[t] = IF t = u /\ t \in Rows THEN "PENDING" ELSE status[t]
  BY UpdateStatusRow DEF RetryStep
<1>. QED
  BY <1>1 DEF RowMoves, Rows, TaskStatus

LEMMA StepIsLife ==
    ASSUME TypeOK, Control, NEW t \in Tasks, [Next]_vars
    PROVE  Astray(t) \/ [Life(t)!LNext]_(Life(t)!lvars)
BY StepMovesRow, RetryMovesRow, RowMovesIsLife

LEMMA LifeInit ==
    ASSUME Init, NEW t \in Tasks
    PROVE  Life(t)!LInit
BY DEF Init, TableInit, Life!LInit

\* Whatever crashes, stops, locks, clicks and deletions come in between, each row lives the
\* life of docs/tasks.md but for the steps that find it astray, for any tasks and types.
THEOREM LifeIsKept == Spec => Lifecycle
<1>1. Init => \A t \in Tasks : Life(t)!LInit
  BY LifeInit
<1>2. IInv /\ [Next]_vars =>
        [\A t \in Tasks : Astray(t) \/ [Life(t)!LNext]_(Life(t)!lvars)]_vars
  BY StepIsLife DEF IInv
<1>. QED
  BY <1>1, <1>2, Inductive, PTL DEF Spec, Lifecycle
=============================================================================

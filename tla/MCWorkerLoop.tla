---------------------------- MODULE MCWorkerLoop ----------------------------
(* Instances of WorkerLoop for TLC: two tasks of two chronicles, and how     *)
(* many faults of each kind may hit the worker.                              *)
EXTENDS WorkerLoop, TLC

CONSTANTS t1, t2, c1, c2

TwoTasks == {t1, t2}
OneChronicle == {c1}
TwoChronicles == {c1, c2}
OwnChronicle == (t1 :> c1) @@ (t2 :> c2)
SameChronicle == (t1 :> c1) @@ (t2 :> c1)

\* A task with one attempt and a task with three.
TranscribeAndNormalize == (t1 :> "TRANSCRIBE") @@ (t2 :> "NORMALIZE")

\* A task no handler is registered for.
NormalizeAndSummarize == (t1 :> "NORMALIZE") @@ (t2 :> "SUMMARIZE")
AllTypes == TaskType
NoSummaries == TaskType \ {"SUMMARIZE"}

OneClick == (t1 :> 1) @@ (t2 :> 1)
TwoAndNone == (t1 :> 0) @@ (t2 :> 2)

Faults(crash, stop, lock) == [k \in FaultKind |->
    CASE k = "crash" -> crash [] k = "stop" -> stop [] k = "lock" -> lock]
CrashAndStop == Faults(1, 1, 0)
EveryFault == Faults(1, 1, 1)
=============================================================================

--------------------------- MODULE AudioTracksProofs ---------------------------
(***************************************************************************)
(* Proofs about AudioTracks, for any tasks, tracks, contents, retries and  *)
(* faults: its types, and, where no two tracks share a normalized copy,    *)
(* what a track called transcribed or normalized has, and that a track     *)
(* shown at work is at work.                                               *)
(***************************************************************************)
EXTENDS AudioTracks, TLAPS

USE TracksAssumption

\* No two tracks share a copy.  normalized_path_for drops the suffix, so this asks that
\* no two files of a chronicle differ in their suffix only (see HearsItsTrack).
OwnCopies == \A f, g \in Files : CopyOf[f] = CopyOf[g] => f = g
-----------------------------------------------------------------------------
(* The inductive invariant *)

Normalizing == {"check", "mark", "level", "leveling", "normalized", "unnormalized"}
Hearing == {"choose", "hear copy", "hear source", "whisper", "save", "untranscribed", "tag"}

Normalizes(t) == TypeOf[t] = "NORMALIZE" \/ t \in NormalizeFirst

\* The task that runs, and what its handler has marked, is known from where the handler is.
Places ==
    /\ cur # NoTask => status[cur] = "WORKING"
    /\ step \in Hearing \cup {"register"} => TypeOf[cur] = "TRANSCRIBE"
    /\ step \in Normalizing => Normalizes(cur)
    /\ step \in {"level", "leveling", "normalized", "unnormalized"} => nstate[File] = "RUNNING"
    /\ step = "tag" => tstate[File] = "DONE"
    /\ step \in {"leveling", "normalized", "whisper", "save"} => heard \in Audio

\* What was read of a track is the track, but for its having been removed since.
OfTrack(x) == \E c \in Contents : x = <<File, c>> /\ disk[File] \in {c, None}

\* So it is with what the handler holds, unless the file was replaced.
ReadIsTrack ==
    step \in Reading /\ File \notin swapped =>
        /\ step \in {"leveling", "normalized", "whisper", "save"} => OfTrack(heard)
        /\ step = "normalized" => copy[Copy] \in {heard, None}
        /\ step = "hear copy" => copy[Copy] = None \/ OfTrack(copy[Copy])

\* A row says DONE of the copy and of the lines with the content they were made from.
CopyKept ==
    \A f \in Files \ swapped :
        nstate[f] = "DONE" /\ nhash[f] # None => copy[CopyOf[f]] \in {None, <<f, nhash[f]>>}
LinesKept ==
    \A f \in Files \ swapped :
        tstate[f] = "DONE" /\ thash[f] # None => lines[f] = <<<<f, thash[f]>>>>

\* A copy was made from the track it is of, and what a handler reads is its own track.
CopyOwned == \A f \in Files : copy[CopyOf[f]] # None => copy[CopyOf[f]][1] = f
HeardIsOwn == step \in {"leveling", "whisper", "save"} => heard[1] = File

\* A track at work has a task that is at it: one that still has to get past what it marked.
AtWorkNow(t) == status[t] \in {"PENDING", "WORKING"} \/ t \in untidy
TranscribedBy(f) == \E t \in Tasks : FileOf[t] = f /\ TypeOf[t] = "TRANSCRIBE" /\ AtWorkNow(t)
NormalizedBy(f) ==
    \E t \in Tasks : /\ FileOf[t] = f /\ Normalizes(t) /\ AtWorkNow(t)
                     /\ t = cur => step \notin Hearing
AtWorkBy ==
    \A f \in Files \ unsettled :
        /\ tstate[f] = "RUNNING" => TranscribedBy(f)
        /\ nstate[f] = "RUNNING" => NormalizedBy(f)

\* The steps of recovery after its commit.
Tidying == CutShort \/ \E t \in untidy : Tidy(t) \/ TidyRaises(t)

Inv == TypeOK /\ Places
-----------------------------------------------------------------------------
(* Types and places *)

LEMMA InitInv == Init => Inv
BY DEF Init, Inv, TypeOK, Places, LInit, Fingerprint, SourceState, Step, Copies, Hearing, Normalizing

\* What runs is a task of a track.
LEMMA Current ==
    ASSUME TypeOK, step \notin {"down", "idle"}
    PROVE  /\ cur \in Tasks /\ cur # NoTask /\ File \in Files /\ Copy \in Copies
           /\ disk[File] \in Fingerprint
BY DEF TypeOK, File, Copy, Copies

\* The queue's actions keep its types, and touch the tasks they are about only.
LEMMA QueueTypes ==
    ASSUME TypeOK,
           \/ UNCHANGED queue
           \/ \E t \in Tasks : Submit(t) \/ Take(t) \/ Succeed(t) \/ GiveBack(t) \/ Retry(t)
           \/ \E S \in SUBSET Tasks : LoseAttempt(S)
    PROVE  /\ status' \in [Tasks -> {"none", "PENDING", "WORKING", "DONE", "FAILED"}]
           /\ attempts' \in [Tasks -> Nat]
<1>. USE DEF TypeOK
<1>1. CASE UNCHANGED queue
  BY <1>1 DEF queue
<1>2. ASSUME NEW t \in Tasks, Submit(t) \/ Take(t) \/ Succeed(t) \/ GiveBack(t) \/ Retry(t)
      PROVE  /\ status' \in [Tasks -> {"none", "PENDING", "WORKING", "DONE", "FAILED"}]
             /\ attempts' \in [Tasks -> Nat]
  <2>1. PICK s \in {"PENDING", "WORKING", "DONE"} : Move(t, s) /\ UNCHANGED attempts
    BY <1>2 DEF Submit, Take, Succeed, GiveBack, Retry
  <2>. QED
    BY <2>1 DEF Move
<1>3. ASSUME NEW S \in SUBSET Tasks, LoseAttempt(S)
      PROVE  /\ status' \in [Tasks -> {"none", "PENDING", "WORKING", "DONE", "FAILED"}]
             /\ attempts' \in [Tasks -> Nat]
  BY <1>3 DEF LoseAttempt
<1>. QED
  BY <1>1, <1>2, <1>3

\* However a handler's step ends, it is at a step or done with its task.
HandlerQueue ==
    /\ untidy' = untidy
    /\ \/ UNCHANGED <<queue, cur>> /\ step' \notin {"down", "idle"}
       \/ cur' = NoTask /\ step' = "idle" /\ heard' = None /\ (Succeed(cur) \/ LoseAttempt({cur}))

LEMMA HandlerEnds ==
    ASSUME HandlerStep \/ Raises
    PROVE  step \notin {"down", "idle"} /\ HandlerQueue /\ step' \in Step
<1>1. CASE HandlerStep
  BY <1>1 DEF HandlerStep, HandlerQueue, RegisterSource, CheckNormalized, MarkNormalizing,
     Level, Leveled, MarkNormalized, MarkNormalizationFailed, Choose, Hear, Transcribed, Save,
     RecordFailure, Tag, AfterNormalizing, AfterNotNormalizing, Succeeds, Fails, Over, Then, Step
<1>2. CASE Raises
  BY <1>2 DEF Raises, HandlerQueue, AfterNotNormalizing, Fails, Over, Then, Step
<1>. QED
  BY <1>1, <1>2

\* What a step of a handler may do to the variables, by where it is.
LEMMA HandlerTypes ==
    ASSUME Inv, HandlerStep \/ Raises
    PROVE  TypeOK'
<1>. USE DEF Inv
<1>0. step \notin {"down", "idle"} /\ HandlerQueue /\ step' \in Step
  BY HandlerEnds
<1>1. /\ cur \in Tasks /\ File \in Files /\ Copy \in Copies /\ disk[File] \in Fingerprint
  BY <1>0, Current
<1>2. /\ status' \in [Tasks -> {"none", "PENDING", "WORKING", "DONE", "FAILED"}]
      /\ attempts' \in [Tasks -> Nat]
  BY <1>0, <1>1, QueueTypes DEF HandlerQueue, queue
<1>3. /\ cur' \in Tasks \cup {NoTask} /\ step' \in Step
      /\ (cur' = NoTask) = (step' \in {"down", "idle"})
      /\ untidy' \subseteq Tasks /\ (untidy' # {} => step' = "idle")
  BY <1>0, <1>1 DEF HandlerQueue, TypeOK
<1>4. /\ hash' \in [Files -> Fingerprint] /\ tstate' \in [Files -> SourceState]
      /\ thash' \in [Files -> Fingerprint] /\ nstate' \in [Files -> SourceState]
      /\ nhash' \in [Files -> Fingerprint]
  <2>. USE <1>1 DEF TypeOK, Fingerprinted, SourceState, rows
  <2>1. CASE RegisterSource
    BY <2>1 DEF RegisterSource
  <2>2. CASE CheckNormalized
    BY <2>2 DEF CheckNormalized
  <2>3. CASE MarkNormalizing \/ MarkNormalizationFailed \/ RecordFailure
    BY <2>3 DEF MarkNormalizing, MarkNormalizationFailed, RecordFailure
  <2>4. CASE MarkNormalized
    BY <2>4 DEF MarkNormalized
  <2>5. CASE Choose
    BY <2>5 DEF Choose
  <2>6. CASE Save
    BY <2>6 DEF Save
  <2>7. CASE Level \/ Leveled \/ Hear \/ Transcribed \/ Tag \/ Raises
    BY <2>7 DEF Level, Leveled, Hear, Transcribed, Tag, Raises
  <2>. QED
    BY <2>1, <2>2, <2>3, <2>4, <2>5, <2>6, <2>7 DEF HandlerStep
<1>5. /\ disk' \in [Files -> Fingerprint] /\ copy' \in [Copies -> Audio \cup {None}]
      /\ lines' \in [Files -> Seq(Audio)] /\ heard' \in Audio \cup {None}
      /\ swapped' = swapped /\ unsettled' \subseteq Files /\ faults' \in [{"down", "error"} -> Nat]
  <2>. USE <1>1 DEF TypeOK, history, BreaksOff, AfterNormalizing, AfterNotNormalizing, Succeeds, Fails, Over
  <2>1. CASE RegisterSource \/ MarkNormalizing \/ Transcribed \/ Choose
    BY <2>1 DEF RegisterSource, MarkNormalizing, Transcribed, Choose
  <2>2. CASE CheckNormalized \/ MarkNormalized \/ MarkNormalizationFailed \/ RecordFailure \/ Tag
    BY <2>2 DEF CheckNormalized, MarkNormalized, MarkNormalizationFailed, RecordFailure, Tag
  <2>3. CASE Level
    <3>1. {<<File, None>>, <<File, disk[File]>>} \subseteq Audio
      BY DEF Audio, Fingerprint
    <3>2. heard' \in {heard, <<File, disk[File]>>}
      BY <2>3 DEF Level
    <3>3. copy' = copy \/ copy' = [copy EXCEPT ![Copy] = <<File, None>>]
      BY <2>3 DEF Level
    <3>4. heard' \in Audio \cup {None}
      BY <3>1, <3>2
    <3>5. copy' \in [Copies -> Audio \cup {None}]
      BY <3>1, <3>3
    <3>. QED
      BY <2>3, <3>4, <3>5 DEF Level
  <2>4. CASE Leveled
    <3>1. copy' \in [Copies -> Audio \cup {None}]
      BY <2>4 DEF Leveled
    <3>. QED
      BY <2>4, <3>1 DEF Leveled
  <2>5. CASE Hear
    <3>1. disk[File] # None => <<File, disk[File]>> \in Audio
      BY DEF Audio, Fingerprint
    <3>2. heard' \in Audio \cup {None}
      BY <2>5, <3>1 DEF Hear
    <3>. QED
      BY <2>5, <3>2 DEF Hear
  <2>6. CASE Save
    <3>1. heard \in Audio
      BY <2>6 DEF Save, Places
    <3>2. <<heard>> \in Seq(Audio)
      BY <3>1
    <3>3. lines' \in [Files -> Seq(Audio)]
      BY <2>6, <3>2 DEF Save, ReplaceLines
    <3>. QED
      BY <2>6, <3>3 DEF Save
  <2>7. CASE Raises
    BY <2>7 DEF Raises, Fault
  <2>. QED
    BY <2>1, <2>2, <2>3, <2>4, <2>5, <2>6, <2>7 DEF HandlerStep
<1>. QED
  BY <1>2, <1>3, <1>4, <1>5 DEF TypeOK

LEMMA StepTypes ==
    ASSUME Inv, [Next]_vars
    PROVE  TypeOK'
<1>. USE DEF Inv, TypeOK
<1>1. CASE HandlerStep \/ Raises
  BY <1>1, HandlerTypes
<1>2. ASSUME NEW t \in Tasks, Claim(t)
      PROVE  TypeOK'
  <2>1. Take(t)
    BY <1>2 DEF Claim
  <2>. QED
    BY <1>2, <2>1, QueueTypes DEF Claim, rows, history, Step
<1>3. ASSUME NEW t \in Tasks, Ask(t)
      PROVE  TypeOK'
  <2>1. Submit(t) \/ Retry(t)
    BY <1>3 DEF Ask
  <2>. QED
    BY <1>3, <2>1, QueueTypes DEF Ask, rows, run, history
<1>4. CASE Stop
  <2>1. cur \in Tasks /\ GiveBack(cur) /\ step \notin {"down", "idle"}
    BY <1>4 DEF Stop
  <2>2. copy' \in [Copies -> Audio \cup {None}]
    BY <1>4, <2>1, Current DEF Stop
  <2>3. faults' \in [{"down", "error"} -> Nat]
    BY <1>4 DEF Stop, Fault
  <2>. QED
    BY <1>4, <2>1, <2>2, <2>3, QueueTypes DEF Stop, Fault, rows, Step
<1>5. CASE Crash
  <2>1. faults' \in [{"down", "error"} -> Nat]
    BY <1>5 DEF Crash, Fault
  <2>. QED
    BY <1>5, <2>1 DEF Crash, Fault, rows, queue, Step
<1>6. CASE Restart
  <2>1. UNCHANGED queue \/ \E S \in SUBSET Tasks : LoseAttempt(S)
    BY <1>6 DEF Restart, In
  <2>2. untidy' \subseteq Tasks
    BY <1>6 DEF Restart, In
  <2>. QED
    BY <1>6, <2>1, <2>2, QueueTypes DEF Restart, rows, history, Step
<1>7. CASE ListSources
  BY <1>7 DEF ListSources, queue, run, history
<1>8. ASSUME NEW f \in Files, RemoveFile(f) \/ \E c \in Contents : PutFile(f, c)
      PROVE  TypeOK'
  <2>1. disk' \in [Files -> Fingerprint]
    <3>1. PICK x \in Fingerprint : disk' = [disk EXCEPT ![f] = x]
      BY <1>8 DEF RemoveFile, PutFile, Fingerprint
    <3>. QED
      BY <3>1
  <2>2. swapped' \subseteq Files /\ unsettled' \subseteq Files
    BY <1>8 DEF RemoveFile, PutFile, history
  <2>. QED
    BY <1>8, <2>1, <2>2 DEF RemoveFile, PutFile, queue, rows, run, history
<1>9. ASSUME NEW p \in Copies, RemoveCopy(p)
      PROVE  TypeOK'
  BY <1>9 DEF RemoveCopy, queue, rows, run, history
<1>10. CASE UNCHANGED vars
  BY <1>10 DEF vars, queue, rows, run, history
<1>11. CASE Tidying
  <2>1. /\ tstate' \in [Files -> SourceState] /\ nstate' \in [Files -> SourceState]
        /\ faults' \in [{"down", "error"} -> Nat] /\ UNCHANGED swapped
    <3>1. CASE CutShort \/ \E t \in untidy : TidyRaises(t)
      BY <1>11, <3>1 DEF TidyRaises, CutShort, Fault, rows
    <3>2. CASE \E t \in untidy : Tidy(t)
      BY <1>11, <3>2 DEF Tidy, Release, SourceState, history
    <3>. QED
      BY <1>11, <3>1, <3>2 DEF Tidying
  <2>2. untidy' \subseteq untidy /\ unsettled' \subseteq Files /\ step' \in {"down", "idle"}
        /\ (untidy' # {} => step' = "idle") /\ step = "idle"
    BY <1>11 DEF Tidying, Tidy, TidyRaises, CutShort, FilesOf, history
  <2>. QED
    BY <1>11, <2>1, <2>2 DEF Tidying, Tidy, TidyRaises, CutShort, queue, rows, Step
<1>. QED
  BY <1>1, <1>2, <1>3, <1>4, <1>5, <1>6, <1>7, <1>8, <1>9, <1>10, <1>11 DEF Next, Tidying

\* Nothing but its end changes what task the handler is at, and that it is WORKING.
LEMMA StepPlaces ==
    ASSUME Inv, [Next]_vars
    PROVE  Places'
<1>. USE DEF Inv, Places, Hearing, Normalizing
<1>0. ASSUME cur' = NoTask, step' \in {"down", "idle"}
      PROVE  Places'
  BY <1>0
<1>1. CASE HandlerStep \/ Raises
  <2>0. /\ step \notin {"down", "idle"} /\ cur \in Tasks /\ cur # NoTask /\ File \in Files
        /\ tstate \in [Files -> SourceState] /\ nstate \in [Files -> SourceState]
    <3>1. step \notin {"down", "idle"}
      BY <1>1 DEF HandlerStep, Raises, RegisterSource, CheckNormalized, MarkNormalizing,
         Level, Leveled, MarkNormalized, MarkNormalizationFailed, Choose, Hear, Transcribed, Save,
         RecordFailure, Tag
    <3>. QED
      BY <3>1, Current DEF TypeOK
  <2>1. CASE cur' = NoTask
    <3>1. step' = "idle"
      BY <1>1, <2>0, <2>1 DEF HandlerStep, Raises, RegisterSource, CheckNormalized, MarkNormalizing,
         Level, Leveled, MarkNormalized, MarkNormalizationFailed, Choose, Hear, Transcribed, Save,
         RecordFailure, Tag, AfterNormalizing, AfterNotNormalizing, Succeeds, Fails, Over, Then
    <3>. QED
      BY <1>0, <2>1, <3>1
  <2>2. CASE cur' # NoTask
    <3>. USE <2>0, <2>2 DEF Succeeds, Fails, Over, Then, queue, AfterNormalizing, AfterNotNormalizing, rows
    <3>1. CASE RegisterSource
      BY <3>1 DEF RegisterSource, Normalizes, File
    <3>2. CASE CheckNormalized
      BY <3>2 DEF CheckNormalized, File
    <3>3. CASE MarkNormalizing
      BY <3>3 DEF MarkNormalizing, File
    <3>4. CASE Level
      <4>1. disk[File] # None => <<File, disk[File]>> \in Audio
        BY DEF Audio, TypeOK
      <4>. QED
        BY <3>4, <4>1 DEF Level, File
    <3>5. CASE Leveled
      BY <3>5 DEF Leveled, File
    <3>6. CASE MarkNormalized
      BY <3>6 DEF MarkNormalized, File
    <3>7. CASE MarkNormalizationFailed
      BY <3>7 DEF MarkNormalizationFailed, File
    <3>8. CASE Choose
      BY <3>8 DEF Choose, File
    <3>9. CASE Hear
      <4>1. heard' \in Audio \cup {None}
        BY <1>1, HandlerTypes DEF TypeOK
      <4>. QED
        BY <3>9, <4>1 DEF Hear, File
    <3>10. CASE Transcribed
      BY <3>10 DEF Transcribed, File
    <3>11. CASE Save
      BY <3>11 DEF Save, File
    <3>12. CASE RecordFailure \/ Tag
      BY <3>12 DEF RecordFailure, Tag
    <3>13. CASE Raises
      BY <3>13 DEF Raises
    <3>. QED
      BY <1>1, <3>1, <3>2, <3>3, <3>4, <3>5, <3>6, <3>7, <3>8, <3>9, <3>10, <3>11, <3>12, <3>13
         DEF HandlerStep
  <2>. QED
    BY <2>1, <2>2
<1>2. ASSUME NEW t \in Tasks, Claim(t)
      PROVE  Places'
  BY <1>2 DEF Claim, Take, Move, TypeOK, Normalizes
<1>3. ASSUME NEW t \in Tasks, Ask(t)
      PROVE  Places'
  <2>1. \A u \in Tasks : status[u] = "WORKING" => status'[u] = "WORKING"
    BY <1>3 DEF Ask, Submit, Retry, In, Move, TypeOK
  <2>. QED
    BY <1>3, <2>1 DEF Ask, rows, run, File, TypeOK
<1>4. CASE Stop \/ Crash
  BY <1>0, <1>4 DEF Stop, Crash
<1>5. CASE Restart
  BY <1>0, <1>5 DEF Restart, TypeOK
<1>6. CASE ListSources
  BY <1>6 DEF ListSources, queue, run, File
<1>7. ASSUME NEW f \in Files, RemoveFile(f) \/ \E c \in Contents : PutFile(f, c)
      PROVE  Places'
  BY <1>7 DEF RemoveFile, PutFile, queue, rows, run, File
<1>8. ASSUME NEW p \in Copies, RemoveCopy(p)
      PROVE  Places'
  BY <1>8 DEF RemoveCopy, queue, rows, run, File
<1>9. CASE UNCHANGED vars
  BY <1>9 DEF vars, queue, rows, run, File
<1>10. CASE Tidying
  BY <1>0, <1>10 DEF Tidying, Tidy, TidyRaises, CutShort, TypeOK
<1>. QED
  BY <1>1, <1>2, <1>3, <1>4, <1>5, <1>6, <1>7, <1>8, <1>9, <1>10 DEF Next, Tidying

THEOREM TracksInvariant == Spec => []Inv
<1>1. Inv /\ [Next]_vars => Inv'
  BY StepTypes, StepPlaces DEF Inv
<1>. QED
  BY InitInv, <1>1, PTL DEF Spec

(* Every variable of the tracks keeps its type, and no handler is without its task. *)
THEOREM TrackTypes == Spec => []TypeOK
BY TracksInvariant, PTL DEF Inv
-----------------------------------------------------------------------------
(* The queue *)

(* The queue's own guards hold no handler up: the row of the task it ends is WORKING, as *)
(* it was claimed, at every step of it, whoever asks for what meanwhile.                  *)
THEOREM TaskIsHeld == Spec => [](cur # NoTask => cur \in In("WORKING"))
<1>1. Inv => (cur # NoTask => cur \in In("WORKING"))
  BY DEF Inv, TypeOK, Places, In
<1>. QED
  BY <1>1, TracksInvariant, PTL
-----------------------------------------------------------------------------
(* What was read, and what the rows say of it *)

CopyInv == Inv /\ ReadIsTrack /\ CopyKept

\* The steps of a handler that neither read a track nor write a copy or a row about it.
Aside ==
    \/ RegisterSource \/ CheckNormalized \/ MarkNormalizing \/ RecordFailure \/ Tag
    \/ MarkNormalizationFailed \/ Raises

\* A step after which no handler is reading leaves nothing to be said of what it holds.
LEMMA StepReads ==
    ASSUME CopyInv, [Next]_vars
    PROVE  ReadIsTrack'
<1>. USE DEF CopyInv, Inv
<1>0. ASSUME step' \notin Reading
      PROVE  ReadIsTrack'
  BY <1>0 DEF ReadIsTrack
<1>1. CASE Aside
  <2>1. step' \notin Reading
    BY <1>1 DEF Aside, RegisterSource, CheckNormalized, MarkNormalizing, RecordFailure, Tag,
       MarkNormalizationFailed, Raises, AfterNormalizing, AfterNotNormalizing, Succeeds, Fails,
       Over, Then, Reading
  <2>. QED
    BY <1>0, <2>1
<1>2. CASE MarkNormalized \/ Save
  <2>1. step' \notin Reading
    BY <1>2 DEF MarkNormalized, Save, AfterNormalizing, AfterNotNormalizing, Succeeds, Fails,
       Over, Then, Reading
  <2>. QED
    BY <1>0, <2>1
<1>3. CASE Level
  <2>0. File \in Files /\ disk[File] \in Fingerprint
    BY <1>3, Current DEF Level
  <2>1. CASE Then("leveling") /\ heard' = <<File, disk[File]>> /\ disk[File] # None
    BY <1>3, <2>0, <2>1 DEF Level, Then, ReadIsTrack, OfTrack, File, Fingerprint
  <2>2. CASE Then("unnormalized")
    BY <1>0, <2>2 DEF Then, Reading
  <2>. QED
    BY <1>3, <2>1, <2>2 DEF Level
<1>4. CASE Leveled
  <2>0. Copy \in Copies /\ copy \in [Copies -> Audio \cup {None}]
    BY <1>4, Current DEF Leveled, TypeOK
  <2>1. CASE Then("normalized") /\ copy' = [copy EXCEPT ![Copy] = heard]
    BY <1>4, <2>0, <2>1 DEF Leveled, Then, ReadIsTrack, OfTrack, File, Copy, Reading, history
  <2>2. CASE Then("unnormalized")
    BY <1>0, <2>2 DEF Then, Reading
  <2>. QED
    BY <1>4, <2>1, <2>2 DEF Leveled
<1>5. CASE Choose
  <2>0. File \in Files /\ disk[File] \in Fingerprint
    BY <1>5, Current DEF Choose
  <2>1. CASE HasCurrentCopy(File) /\ File \notin swapped
    <3>1. disk[File] \in Contents /\ copy[Copy] \in {None, <<File, disk[File]>>}
      BY <2>0, <2>1 DEF HasCurrentCopy, CopyKept, Fingerprint, Copy
    <3>. QED
      BY <1>5, <3>1 DEF Choose, Then, ReadIsTrack, OfTrack, File, Copy
  <2>2. CASE ~HasCurrentCopy(File)
    BY <1>0, <1>5, <2>2 DEF Choose, Then, Reading
  <2>3. CASE File \in swapped
    BY <1>5, <2>3 DEF Choose, Then, ReadIsTrack, File, history
  <2>. QED
    BY <2>1, <2>2, <2>3
<1>6. CASE Hear
  <2>0. File \in Files /\ disk[File] \in Fingerprint
    BY <1>6, Current DEF Hear
  <2>1. CASE heard' = None
    BY <1>0, <1>6, <2>1 DEF Hear, Then, Reading
  <2>2. CASE heard' # None /\ step = "hear copy"
    BY <1>6, <2>2 DEF Hear, Then, ReadIsTrack, OfTrack, File, Reading, history
  <2>3. CASE heard' # None /\ step = "hear source"
    <3>1. disk[File] \in Contents /\ heard' = <<File, disk[File]>>
      BY <1>6, <2>0, <2>3 DEF Hear, Fingerprint
    <3>. QED
      BY <1>6, <2>3, <3>1 DEF Hear, Then, ReadIsTrack, OfTrack, File
  <2>. QED
    BY <1>6, <2>1, <2>2, <2>3 DEF Hear
<1>7. CASE Transcribed
  <2>1. CASE Then("save")
    BY <1>7, <2>1 DEF Transcribed, Then, ReadIsTrack, OfTrack, File, Reading, history
  <2>2. CASE Then("untranscribed")
    BY <1>0, <2>2 DEF Then, Reading
  <2>. QED
    BY <1>7, <2>1, <2>2 DEF Transcribed
<1>8. CASE Stop \/ Crash \/ Restart \/ Tidying \/ \E t \in Tasks : Claim(t)
  <2>1. step' \notin Reading
    BY <1>8 DEF Stop, Crash, Restart, Claim, Tidying, Tidy, TidyRaises, CutShort, TypeOK, Reading
  <2>. QED
    BY <1>0, <2>1
<1>9. ASSUME NEW t \in Tasks, Ask(t)
      PROVE  ReadIsTrack'
  BY <1>9 DEF Ask, run, history, ReadIsTrack, OfTrack, File, Copy
<1>10. CASE ListSources
  BY <1>10 DEF ListSources, run, history, ReadIsTrack, OfTrack, File, Copy
<1>11. ASSUME NEW f \in Files, RemoveFile(f)
       PROVE  ReadIsTrack'
  <2>1. \A g \in Files : disk'[g] \in {disk[g], None}
    BY <1>11 DEF RemoveFile, TypeOK
  <2>2. step \in Reading => File \in Files
    BY Current DEF Reading
  <2>. QED
    BY <1>11, <2>1, <2>2 DEF RemoveFile, run, history, ReadIsTrack, OfTrack, File, Copy
<1>12. ASSUME NEW f \in Files, NEW c \in Contents, PutFile(f, c)
       PROVE  ReadIsTrack'
  <2>1. step \in Reading => File \in Files
    BY Current DEF Reading
  <2>2. CASE step \in Reading /\ File # f
    <3>1. disk'[File] = disk[File] /\ swapped' = swapped
      BY <1>12, <2>1, <2>2 DEF PutFile, TypeOK
    <3>. QED
      BY <1>12, <3>1 DEF PutFile, run, ReadIsTrack, OfTrack, File, Copy
  <2>3. CASE step \in Reading /\ File = f
    BY <1>12, <2>3 DEF PutFile, run, ReadIsTrack, File
  <2>4. CASE step \notin Reading
    BY <1>0, <1>12, <2>4 DEF PutFile, run
  <2>. QED
    BY <2>2, <2>3, <2>4
<1>13. ASSUME NEW p \in Copies, RemoveCopy(p)
       PROVE  ReadIsTrack'
  <2>1. \A q \in Copies : copy'[q] \in {copy[q], None}
    BY <1>13 DEF RemoveCopy, TypeOK
  <2>2. step \in Reading => Copy \in Copies
    BY Current DEF Reading
  <2>. QED
    BY <1>13, <2>1, <2>2 DEF RemoveCopy, run, history, ReadIsTrack, OfTrack, File, Copy
<1>14. CASE UNCHANGED vars
  BY <1>14 DEF vars, run, history, ReadIsTrack, OfTrack, File, Copy
<1>. QED
  BY <1>1, <1>2, <1>3, <1>4, <1>5, <1>6, <1>7, <1>8, <1>9, <1>10, <1>11, <1>12, <1>13, <1>14
     DEF Next, HandlerStep, Aside, Tidying

\* What says less of the copies, of which none was written, still holds.
LEMMA CopyFrame ==
    ASSUME CopyKept, swapped \subseteq swapped',
           \A f \in Files : nstate'[f] = "DONE" => nstate[f] = "DONE" /\ nhash'[f] = nhash[f],
           \A f \in Files : copy'[CopyOf[f]] \in {copy[CopyOf[f]], None}
    PROVE  CopyKept'
BY DEF CopyKept

LEMMA StepCopies ==
    ASSUME OwnCopies, CopyInv, [Next]_vars
    PROVE  CopyKept'
<1>. USE DEF CopyInv, Inv
<1>0. /\ nstate \in [Files -> SourceState] /\ nhash \in [Files -> Fingerprint]
      /\ copy \in [Copies -> Audio \cup {None}] /\ \A f \in Files : CopyOf[f] \in Copies
  BY DEF TypeOK, Copies
<1>1. CASE UNCHANGED <<nstate, nhash, copy>> /\ swapped \subseteq swapped'
  BY <1>1, CopyFrame
<1>2. CASE RegisterSource \/ CheckNormalized \/ RecordFailure \/ Tag \/ Raises \/ Choose
           \/ Hear \/ Transcribed
  BY <1>1, <1>2 DEF RegisterSource, CheckNormalized, RecordFailure, Tag, Raises, Choose, Hear,
     Transcribed, rows, history, Fault
<1>3. CASE Save
  BY <1>1, <1>3 DEF Save, BreaksOff, rows, history
<1>4. CASE MarkNormalizing \/ MarkNormalizationFailed
  BY <1>0, <1>4, CopyFrame DEF MarkNormalizing, MarkNormalizationFailed, history
<1>5. ASSUME step \notin {"down", "idle"}, nstate[File] = "RUNNING", NEW x,
             copy' = [copy EXCEPT ![Copy] = x], UNCHANGED <<nstate, nhash, swapped>>
      PROVE  CopyKept'
  <2>1. File \in Files
    BY <1>5, Current
  <2>2. SUFFICES ASSUME NEW f \in Files \ swapped, nstate[f] = "DONE", nhash[f] # None
                 PROVE  copy'[CopyOf[f]] \in {None, <<f, nhash[f]>>}
    BY <1>5 DEF CopyKept
  <2>3. CopyOf[f] # Copy
    BY <1>5, <2>1, <2>2 DEF OwnCopies, Copy
  <2>. QED
    BY <1>0, <1>5, <2>2, <2>3 DEF CopyKept
<1>6. CASE Level
  BY <1>1, <1>5, <1>6 DEF Level, Places, rows, history
<1>7. CASE Leveled
  BY <1>1, <1>5, <1>7 DEF Leveled, Places, rows, history
<1>8. CASE MarkNormalized
  <2>1. CASE disk[File] = None
    BY <1>1, <1>8, <2>1 DEF MarkNormalized, BreaksOff
  <2>2. CASE disk[File] # None
    <3>1. step = "normalized" /\ File \in Files /\ swapped' = swapped /\ UNCHANGED copy
      BY <1>8, <2>2, Current DEF MarkNormalized, history
    <3>2. SUFFICES ASSUME NEW f \in Files \ swapped, nstate'[f] = "DONE", nhash'[f] # None
                   PROVE  copy[CopyOf[f]] \in {None, <<f, nhash'[f]>>}
      BY <3>1 DEF CopyKept
    <3>3. CASE f = File
      <4>1. nhash'[f] = disk[File]
        BY <1>0, <1>8, <2>2, <3>3 DEF MarkNormalized
      <4>2. copy[Copy] \in {None, <<File, disk[File]>>}
        BY <2>2, <3>1, <3>2, <3>3 DEF ReadIsTrack, OfTrack, Reading
      <4>. QED
        BY <3>3, <4>1, <4>2 DEF Copy
    <3>4. CASE f # File
      <4>1. nstate'[f] = nstate[f] /\ nhash'[f] = nhash[f]
        BY <1>0, <1>8, <2>2, <3>1, <3>4 DEF MarkNormalized
      <4>. QED
        BY <3>2, <4>1 DEF CopyKept
    <3>. QED
      BY <3>3, <3>4
  <2>. QED
    BY <2>1, <2>2
<1>9. CASE Stop
  <2>1. CASE step = "leveling"
    BY <1>5, <1>9, <2>1 DEF Stop, Fault, Places, rows
  <2>2. CASE step # "leveling"
    BY <1>1, <1>9, <2>2 DEF Stop, Fault, rows
  <2>. QED
    BY <2>1, <2>2
<1>10. CASE Crash \/ ListSources \/ \E t \in Tasks : Claim(t) \/ Ask(t)
  BY <1>1, <1>10 DEF Crash, Fault, ListSources, Claim, Ask, rows, history
<1>11. CASE Restart \/ CutShort \/ \E t \in untidy : TidyRaises(t)
  BY <1>1, <1>11 DEF Restart, CutShort, TidyRaises, Fault, rows, history
<1>12. CASE \E f \in Files : RemoveFile(f) \/ \E c \in Contents : PutFile(f, c)
  BY <1>1, <1>12 DEF RemoveFile, PutFile, rows, history
<1>13. ASSUME NEW p \in Copies, RemoveCopy(p)
       PROVE  CopyKept'
  <2>1. \A f \in Files : copy'[CopyOf[f]] \in {copy[CopyOf[f]], None}
    BY <1>0, <1>13 DEF RemoveCopy
  <2>. QED
    BY <1>13, <2>1, CopyFrame DEF RemoveCopy, rows, history
<1>14. CASE UNCHANGED vars
  BY <1>1, <1>14 DEF vars, rows, history
<1>15. ASSUME NEW t \in untidy, Tidy(t)
       PROVE  CopyKept'
  BY <1>0, <1>15, CopyFrame DEF Tidy, Release, history
<1>. QED
  BY <1>2, <1>3, <1>4, <1>6, <1>7, <1>8, <1>9, <1>10, <1>11, <1>12, <1>13, <1>14, <1>15
     DEF Next, HandlerStep

LEMMA CopiesInvariant ==
    ASSUME OwnCopies
    PROVE  Spec => []CopyInv
<1>1. Init => CopyInv
  BY InitInv DEF Init, CopyInv, ReadIsTrack, CopyKept, Reading
<1>2. CopyInv /\ [Next]_vars => CopyInv'
  BY StepTypes, StepPlaces, StepReads, StepCopies DEF CopyInv, Inv
<1>. QED
  BY <1>1, <1>2, PTL DEF Spec

(* A copy called normalized, if it is there, is the whole of its track's content, unless  *)
(* the track was replaced under its handler, for any number of tracks with copies of      *)
(* their own and whatever fails, is removed or is asked for again.                        *)
THEOREM CopiesAreTheTrack ==
    ASSUME OwnCopies
    PROVE  Spec => []CopyIsTheTrack
<1>1. CopyInv => CopyIsTheTrack
  BY DEF CopyInv, CopyKept, CopyIsTheTrack, IsNormalized
<1>. QED
  BY CopiesInvariant, <1>1, PTL
-----------------------------------------------------------------------------
(* The lines of a track *)

LEMMA StepLines ==
    ASSUME CopyInv, LinesKept, [Next]_vars
    PROVE  LinesKept'
<1>. USE DEF CopyInv, Inv
<1>0. /\ tstate \in [Files -> SourceState] /\ thash \in [Files -> Fingerprint]
      /\ lines \in [Files -> Seq(Audio)]
  BY DEF TypeOK
<1>1. ASSUME UNCHANGED <<thash, lines>>, swapped \subseteq swapped',
             \A f \in Files : tstate'[f] = "DONE" => tstate[f] = "DONE"
      PROVE  LinesKept'
  BY <1>1 DEF LinesKept
<1>2. CASE RegisterSource \/ RecordFailure
  BY <1>0, <1>1, <1>2 DEF RegisterSource, RecordFailure, history
<1>3. CASE CheckNormalized \/ MarkNormalizing \/ MarkNormalizationFailed \/ MarkNormalized \/ Choose
  BY <1>1, <1>3 DEF CheckNormalized, MarkNormalizing, MarkNormalizationFailed, MarkNormalized,
     Choose, BreaksOff, history
<1>4. CASE Level \/ Leveled \/ Hear \/ Transcribed \/ Tag \/ Raises \/ Stop \/ Crash
  BY <1>1, <1>4 DEF Level, Leveled, Hear, Transcribed, Tag, Raises, Stop, Crash, Fault, rows, history
<1>5. CASE Save
  <2>1. CASE disk[File] = None
    BY <1>1, <1>5, <2>1 DEF Save, BreaksOff, rows
  <2>2. CASE disk[File] # None
    <3>1. step = "save" /\ File \in Files /\ swapped' = swapped
      BY <1>5, <2>2, Current DEF Save, history
    <3>2. SUFFICES ASSUME NEW f \in Files \ swapped, tstate'[f] = "DONE", thash'[f] # None
                   PROVE  lines'[f] = <<<<f, thash'[f]>>>>
      BY <3>1 DEF LinesKept
    <3>3. CASE f = File
      <4>1. thash'[f] = disk[File] /\ lines'[f] = <<heard>>
        BY <1>0, <1>5, <2>2, <3>3 DEF Save, ReplaceLines
      <4>2. heard = <<File, disk[File]>>
        BY <2>2, <3>1, <3>2, <3>3 DEF ReadIsTrack, OfTrack, Reading
      <4>. QED
        BY <3>3, <4>1, <4>2
    <3>4. CASE f # File
      <4>1. tstate'[f] = tstate[f] /\ thash'[f] = thash[f] /\ lines'[f] = lines[f]
        BY <1>0, <1>5, <2>2, <3>1, <3>4 DEF Save, ReplaceLines
      <4>. QED
        BY <3>2, <4>1 DEF LinesKept
    <3>. QED
      BY <3>3, <3>4
  <2>. QED
    BY <2>1, <2>2
<1>6. CASE ListSources \/ \E t \in Tasks : Claim(t) \/ Ask(t)
  BY <1>1, <1>6 DEF ListSources, Claim, Ask, rows, history
<1>7. CASE Restart \/ Tidying
  BY <1>0, <1>1, <1>7 DEF Restart, Tidying, CutShort, Tidy, TidyRaises, Release, Fault, rows, history
<1>8. CASE \E f \in Files : RemoveFile(f) \/ \E c \in Contents : PutFile(f, c)
  BY <1>1, <1>8 DEF RemoveFile, PutFile, rows, history
<1>9. CASE \E p \in Copies : RemoveCopy(p)
  BY <1>1, <1>9 DEF RemoveCopy, rows, history
<1>10. CASE UNCHANGED vars
  BY <1>1, <1>10 DEF vars, rows, history
<1>. QED
  BY <1>2, <1>3, <1>4, <1>5, <1>6, <1>7, <1>8, <1>9, <1>10 DEF Next, HandlerStep, Tidying

(* A track called transcribed has the lines of exactly one run, and that run heard this   *)
(* track with the content the row was last given, unless the file was replaced under the  *)
(* run; it is here that a copy current when it was chosen must be the track.              *)
THEOREM LinesAreTheTracks ==
    ASSUME OwnCopies
    PROVE  Spec => []LinesAreTheTrack
<1>1. Init => LinesKept
  BY DEF Init, LinesKept
<1>2. CopyInv /\ LinesKept /\ [Next]_vars => LinesKept'
  BY StepLines
<1>3. LinesKept => LinesAreTheTrack
  BY DEF LinesKept, LinesAreTheTrack, TranscribedIsTrack, IsTranscribed
<1>. QED
  BY CopiesInvariant, <1>1, <1>2, <1>3, PTL DEF Spec
-----------------------------------------------------------------------------
(* Whose copy a copy is *)

LEMMA StepHears ==
    ASSUME Inv, CopyOwned, HeardIsOwn, [Next]_vars
    PROVE  HeardIsOwn'
<1>. USE DEF Inv
<1>0. ASSUME step' \notin {"leveling", "whisper", "save"}
      PROVE  HeardIsOwn'
  BY <1>0 DEF HeardIsOwn
<1>1. CASE Aside \/ MarkNormalized \/ Save \/ Choose
  <2>1. step' \notin {"leveling", "whisper", "save"}
    BY <1>1 DEF Aside, RegisterSource, CheckNormalized, MarkNormalizing, RecordFailure, Tag,
       MarkNormalizationFailed, Raises, MarkNormalized, Save, Choose, AfterNormalizing,
       AfterNotNormalizing, Succeeds, Fails, Over, Then
  <2>. QED
    BY <1>0, <2>1
<1>2. CASE Level
  <2>1. CASE Then("leveling") /\ heard' = <<File, disk[File]>>
    BY <2>1 DEF Then, HeardIsOwn, File
  <2>2. CASE Then("unnormalized")
    BY <1>0, <2>2 DEF Then
  <2>. QED
    BY <1>2, <2>1, <2>2 DEF Level
<1>3. CASE Leveled
  <2>1. step' \in {"normalized", "unnormalized"}
    BY <1>3 DEF Leveled, Then
  <2>. QED
    BY <1>0, <2>1
<1>4. CASE Hear
  <2>1. File \in Files
    BY <1>4, Current DEF Hear
  <2>2. CASE heard' = None
    BY <1>0, <1>4, <2>2 DEF Hear, Then
  <2>3. CASE heard' # None /\ step = "hear copy"
    BY <1>4, <2>1, <2>3 DEF Hear, Then, HeardIsOwn, CopyOwned, File, Copy
  <2>4. CASE heard' # None /\ step = "hear source"
    BY <1>4, <2>4 DEF Hear, Then, HeardIsOwn, File
  <2>. QED
    BY <1>4, <2>2, <2>3, <2>4 DEF Hear
<1>5. CASE Transcribed
  <2>1. CASE Then("save")
    BY <1>5, <2>1 DEF Transcribed, Then, HeardIsOwn, File
  <2>2. CASE Then("untranscribed")
    BY <1>0, <2>2 DEF Then
  <2>. QED
    BY <1>5, <2>1, <2>2 DEF Transcribed
<1>6. CASE Stop \/ Crash \/ Restart \/ Tidying \/ \E t \in Tasks : Claim(t)
  <2>1. step' \notin {"leveling", "whisper", "save"}
    BY <1>6 DEF Stop, Crash, Restart, Claim, Tidying, Tidy, TidyRaises, CutShort, TypeOK
  <2>. QED
    BY <1>0, <2>1
<1>7. CASE UNCHANGED run
  BY <1>7 DEF run, HeardIsOwn, File
<1>8. CASE ListSources \/ (\E t \in Tasks : Ask(t)) \/ UNCHANGED vars
           \/ (\E f \in Files : RemoveFile(f) \/ \E c \in Contents : PutFile(f, c))
           \/ (\E p \in Copies : RemoveCopy(p))
  BY <1>7, <1>8 DEF ListSources, Ask, RemoveFile, PutFile, RemoveCopy, vars
<1>. QED
  BY <1>1, <1>2, <1>3, <1>4, <1>5, <1>6, <1>8 DEF Next, HandlerStep, Aside, Tidying

LEMMA StepOwned ==
    ASSUME OwnCopies, Inv, CopyOwned, HeardIsOwn, [Next]_vars
    PROVE  CopyOwned'
<1>. USE DEF Inv
<1>0. copy \in [Copies -> Audio \cup {None}] /\ \A f \in Files : CopyOf[f] \in Copies
  BY DEF TypeOK, Copies
<1>1. CASE UNCHANGED copy
  BY <1>1 DEF CopyOwned
<1>2. ASSUME step \notin {"down", "idle"}, NEW x, x[1] = File, copy' = [copy EXCEPT ![Copy] = x]
      PROVE  CopyOwned'
  <2>1. File \in Files
    BY <1>2, Current
  <2>2. SUFFICES ASSUME NEW f \in Files, copy'[CopyOf[f]] # None
                 PROVE  copy'[CopyOf[f]][1] = f
    BY DEF CopyOwned
  <2>3. CASE f = File
    BY <1>0, <1>2, <2>1, <2>3 DEF Copy
  <2>4. CASE f # File
    <3>1. CopyOf[f] # Copy
      BY <2>1, <2>4 DEF OwnCopies, Copy
    <3>. QED
      BY <1>0, <1>2, <2>2, <3>1 DEF CopyOwned
  <2>. QED
    BY <2>3, <2>4
<1>3. CASE Level
  BY <1>1, <1>2, <1>3 DEF Level
<1>4. CASE Leveled
  BY <1>1, <1>2, <1>4 DEF Leveled, HeardIsOwn
<1>5. CASE Stop
  BY <1>1, <1>2, <1>5 DEF Stop, HeardIsOwn
<1>6. ASSUME NEW p \in Copies, RemoveCopy(p)
      PROVE  CopyOwned'
  BY <1>0, <1>6 DEF RemoveCopy, CopyOwned
<1>7. CASE Aside \/ MarkNormalized \/ Save \/ Choose \/ Hear \/ Transcribed
  BY <1>1, <1>7 DEF Aside, RegisterSource, CheckNormalized, MarkNormalizing, RecordFailure, Tag,
     MarkNormalizationFailed, Raises, MarkNormalized, Save, Choose, Hear, Transcribed
<1>8. CASE Crash \/ Restart \/ Tidying \/ ListSources \/ (\E t \in Tasks : Claim(t) \/ Ask(t)) \/ UNCHANGED vars
           \/ (\E f \in Files : RemoveFile(f) \/ \E c \in Contents : PutFile(f, c))
  BY <1>1, <1>8 DEF Crash, Restart, Tidying, Tidy, TidyRaises, CutShort, ListSources, Claim, Ask,
     RemoveFile, PutFile, vars
<1>. QED
  BY <1>3, <1>4, <1>5, <1>6, <1>7, <1>8 DEF Next, HandlerStep, Aside, Tidying

(* What a transcription hears is its own track, whatever was replaced, removed or cut     *)
(* short meanwhile, for any number of tracks with copies of their own: two tracks whose   *)
(* names differ in the suffix only (normalized_path_for) are all that stands against it.  *)
THEOREM OwnCopiesAreHeard ==
    ASSUME OwnCopies
    PROVE  Spec => []HearsItsTrack
<1>1. Init => CopyOwned /\ HeardIsOwn
  BY DEF Init, CopyOwned, HeardIsOwn, Copies
<1>2. Inv /\ CopyOwned /\ HeardIsOwn /\ [Next]_vars => (CopyOwned /\ HeardIsOwn)'
  BY StepOwned, StepHears
<1>3. HeardIsOwn => HearsItsTrack
  BY DEF HeardIsOwn, HearsItsTrack
<1>. QED
  BY TracksInvariant, <1>1, <1>2, <1>3, PTL DEF Spec
-----------------------------------------------------------------------------
(* A track at work has somebody at it *)

\* Whoever is at a track still is, when no task ends and nobody gets past his normalizing.
LEMMA WorkFrame ==
    ASSUME AtWorkBy, unsettled \subseteq unsettled',
           \A t \in Tasks : AtWorkNow(t) => AtWorkNow(t)',
           \A t \in Tasks : t = cur' /\ step' \in Hearing => t = cur /\ step \in Hearing,
           \A f \in Files : tstate'[f] = "RUNNING" => tstate[f] = "RUNNING" \/ TranscribedBy(f)',
           \A f \in Files : nstate'[f] = "RUNNING" => nstate[f] = "RUNNING" \/ NormalizedBy(f)'
    PROVE  AtWorkBy'
<1>1. \A f \in Files : TranscribedBy(f) => TranscribedBy(f)'
  BY DEF TranscribedBy
<1>2. \A f \in Files : NormalizedBy(f) => NormalizedBy(f)'
  BY DEF NormalizedBy, Normalizes
<1>. QED
  BY <1>1, <1>2 DEF AtWorkBy

\* A task that ends, or gets past its normalizing, leaves its track out of RUNNING.
LEMMA PastFrame ==
    ASSUME AtWorkBy, unsettled \subseteq unsettled', untidy' = untidy, cur \notin untidy,
           cur' \in {cur, NoTask}, cur \in Tasks,
           \A t \in Tasks \ {cur} : status'[t] = status[t],
           \A f \in Files : tstate'[f] = "RUNNING" => tstate[f] = "RUNNING",
           \A f \in Files : nstate'[f] = "RUNNING" => nstate[f] = "RUNNING",
           tstate'[File] = "RUNNING" =>
               TypeOf[cur] = "NORMALIZE" \/ File \in unsettled' \/ status'[cur] = "WORKING",
           nstate'[File] = "RUNNING" => step \in Hearing \/ File \in unsettled'
    PROVE  AtWorkBy'
<1>. SUFFICES ASSUME NEW f \in Files \ unsettled'
              PROVE  /\ tstate'[f] = "RUNNING" => TranscribedBy(f)'
                     /\ nstate'[f] = "RUNNING" => NormalizedBy(f)'
  BY DEF AtWorkBy
<1>1. ASSUME tstate'[f] = "RUNNING"
      PROVE  TranscribedBy(f)'
  <2>1. PICK t \in Tasks : FileOf[t] = f /\ TypeOf[t] = "TRANSCRIBE" /\ AtWorkNow(t)
    BY <1>1 DEF AtWorkBy, TranscribedBy
  <2>2. AtWorkNow(t)'
    BY <1>1, <2>1 DEF AtWorkNow, File
  <2>. QED
    BY <2>1, <2>2 DEF TranscribedBy
<1>2. ASSUME nstate'[f] = "RUNNING"
      PROVE  NormalizedBy(f)'
  <2>1. PICK t \in Tasks : /\ FileOf[t] = f /\ Normalizes(t) /\ AtWorkNow(t)
                           /\ t = cur => step \notin Hearing
    BY <1>2 DEF AtWorkBy, NormalizedBy
  <2>2. t # cur
    BY <1>2, <2>1 DEF File
  <2>3. AtWorkNow(t)' /\ t # cur'
    BY <2>1, <2>2 DEF AtWorkNow
  <2>. QED
    BY <2>1, <2>3 DEF NormalizedBy, AtWorkNow, Normalizes
<1>. QED
  BY <1>1, <1>2

LEMMA StepAtWork ==
    ASSUME Inv, AtWorkBy, [Next]_vars
    PROVE  AtWorkBy'
<1>. USE DEF Inv
<1>0. /\ tstate \in [Files -> SourceState] /\ nstate \in [Files -> SourceState]
      /\ status \in [Tasks -> {"none", "PENDING", "WORKING", "DONE", "FAILED"}]
      /\ faults \in [{"down", "error"} -> Nat]
      /\ cur \in Tasks \cup {NoTask}
  BY DEF TypeOK
<1>1. ASSUME UNCHANGED <<queue, tstate, nstate, cur, untidy>>, unsettled \subseteq unsettled',
             step' \in Hearing => step \in Hearing
      PROVE  AtWorkBy'
  BY <1>1, WorkFrame DEF queue, AtWorkNow
<1>5. cur \notin untidy
  BY DEF TypeOK, Places
<1>2. ASSUME cur \in Tasks, step \notin {"down", "idle"}, Succeeds \/ Fails
      PROVE  \A t \in Tasks \ {cur} : status'[t] = status[t]
  BY <1>0, <1>2 DEF Succeeds, Fails, Succeed, LoseAttempt, Move
<1>3. CASE HandlerStep
  <2>0. /\ step \notin {"down", "idle"} /\ cur \in Tasks /\ cur # NoTask /\ File \in Files
        /\ status[cur] = "WORKING"
    <3>1. step \notin {"down", "idle"}
      BY <1>3 DEF HandlerStep, RegisterSource, CheckNormalized, MarkNormalizing,
         Level, Leveled, MarkNormalized, MarkNormalizationFailed, Choose, Hear, Transcribed, Save,
         RecordFailure, Tag
    <3>. QED
      BY <3>1, Current DEF TypeOK, Places
  <2>1. CASE RegisterSource
    <3>1. /\ UNCHANGED <<queue, nstate, cur, unsettled, untidy>> /\ tstate' = [tstate EXCEPT ![File] = "RUNNING"]
          /\ step' = IF cur \in NormalizeFirst THEN "check" ELSE "choose"
      BY <2>1 DEF RegisterSource, Then, history
    <3>2. TypeOf[cur] = "TRANSCRIBE"
      BY <2>1 DEF RegisterSource, Places
    <3>3. \A f \in Files : f = File => TranscribedBy(f)'
      BY <2>0, <3>1, <3>2 DEF TranscribedBy, AtWorkNow, queue, File
    <3>4. \A f \in Files : tstate'[f] = "RUNNING" => tstate[f] = "RUNNING" \/ TranscribedBy(f)'
      <4>1. \A f \in Files : f # File => tstate'[f] = tstate[f]
        BY <1>0, <3>1
      <4>. QED
        BY <3>3, <4>1
    <3>5. CASE cur \in NormalizeFirst
      <4>1. /\ \A t \in Tasks : AtWorkNow(t) => AtWorkNow(t)'
            /\ \A t \in Tasks : t = cur' /\ step' \in Hearing => t = cur /\ step \in Hearing
        BY <3>1, <3>5 DEF queue, AtWorkNow, Hearing
      <4>2. \A f \in Files : nstate'[f] = "RUNNING" => nstate[f] = "RUNNING" \/ NormalizedBy(f)'
        BY <3>1
      <4>. QED
        BY <3>1, <3>4, <4>1, <4>2, WorkFrame
    <3>6. CASE cur \notin NormalizeFirst
      <4>1. \A f \in Files : NormalizedBy(f) => NormalizedBy(f)'
        BY <3>1, <3>2, <3>6 DEF NormalizedBy, Normalizes, AtWorkNow, queue
      <4>2. \A f \in Files : TranscribedBy(f) => TranscribedBy(f)'
        BY <3>1 DEF TranscribedBy, AtWorkNow, queue
      <4>. QED
        BY <3>1, <3>4, <4>1, <4>2 DEF AtWorkBy
    <3>. QED
      BY <3>5, <3>6
  <2>2. CASE MarkNormalizing
    <3>1. /\ UNCHANGED <<queue, tstate, cur, unsettled, untidy>> /\ step' = "level"
          /\ nstate' = [nstate EXCEPT ![File] = "RUNNING"]
      BY <2>2 DEF MarkNormalizing, Then, history
    <3>2. Normalizes(cur)
      BY <2>2 DEF MarkNormalizing, Places, Normalizing
    <3>3. \A f \in Files : f = File => NormalizedBy(f)'
      BY <2>0, <3>1, <3>2 DEF NormalizedBy, Normalizes, AtWorkNow, queue, File, Hearing
    <3>4. \A f \in Files : nstate'[f] = "RUNNING" => nstate[f] = "RUNNING" \/ NormalizedBy(f)'
      <4>1. \A f \in Files : f # File => nstate'[f] = nstate[f]
        BY <1>0, <3>1
      <4>. QED
        BY <3>3, <4>1
    <3>5. /\ \A t \in Tasks : AtWorkNow(t) => AtWorkNow(t)'
          /\ \A t \in Tasks : t = cur' /\ step' \in Hearing => t = cur /\ step \in Hearing
      BY <3>1 DEF queue, AtWorkNow, Hearing
    <3>6. \A f \in Files : tstate'[f] = "RUNNING" => tstate[f] = "RUNNING" \/ TranscribedBy(f)'
      BY <3>1
    <3>. QED
      BY <3>1, <3>4, <3>5, <3>6, WorkFrame
  <2>3. CASE Level \/ Leveled \/ Choose \/ Hear \/ Transcribed
    BY <1>1, <2>3 DEF Level, Leveled, Choose, Hear, Transcribed, Then, rows, queue, history, Hearing
  <2>4. ASSUME UNCHANGED tstate, unsettled \subseteq unsettled',
               AfterNormalizing \/ AfterNotNormalizing,
               \A f \in Files : nstate'[f] = "RUNNING" => nstate[f] = "RUNNING",
               nstate'[File] = "RUNNING" => File \in unsettled'
        PROVE  AtWorkBy'
    <3>1. CASE TypeOf[cur] = "TRANSCRIBE"
      <4>1. UNCHANGED <<queue, cur, untidy>>
        BY <2>4, <3>1 DEF AfterNormalizing, AfterNotNormalizing, Then
      <4>. QED
        BY <1>5, <2>0, <2>4, <4>1, PastFrame DEF queue
    <3>2. CASE TypeOf[cur] = "NORMALIZE"
      <4>1. Succeeds \/ Fails
        BY <2>4, <3>2 DEF AfterNormalizing, AfterNotNormalizing
      <4>2. cur' = NoTask /\ untidy' = untidy
        BY <4>1 DEF Succeeds, Fails, Over
      <4>. QED
        BY <1>2, <2>0, <2>4, <3>2, <1>5, <4>1, <4>2, PastFrame
    <3>. QED
      BY <2>0, <3>1, <3>2
  <2>5. CASE CheckNormalized
    <3>1. CASE cur \notin Forced /\ HasCurrentCopy(File)
      BY <2>4, <2>5, <3>1 DEF CheckNormalized, HasCurrentCopy, history
    <3>2. CASE ~(cur \notin Forced /\ HasCurrentCopy(File))
      BY <1>1, <2>5, <3>2 DEF CheckNormalized, Then, queue, history, Hearing
    <3>. QED
      BY <3>1, <3>2
  <2>6. CASE MarkNormalized
    <3>1. CASE disk[File] = None
      BY <2>4, <2>6, <3>1 DEF MarkNormalized, BreaksOff
    <3>2. CASE disk[File] # None
      BY <1>0, <2>0, <2>4, <2>6, <3>2 DEF MarkNormalized, history
    <3>. QED
      BY <3>1, <3>2
  <2>7. CASE MarkNormalizationFailed
    BY <1>0, <2>0, <2>4, <2>7 DEF MarkNormalizationFailed, history
  <2>8. ASSUME Succeeds \/ Fails, step \in Hearing, unsettled \subseteq unsettled',
               \A f \in Files : tstate'[f] = "RUNNING" => tstate[f] = "RUNNING",
               UNCHANGED nstate, tstate'[File] # "RUNNING" \/ File \in unsettled'
        PROVE  AtWorkBy'
    <3>1. cur' = NoTask /\ untidy' = untidy
      BY <2>8 DEF Succeeds, Fails, Over
    <3>. QED
      BY <1>2, <2>0, <1>5, <2>8, <3>1, PastFrame
  <2>9. CASE Save
    <3>1. CASE disk[File] = None
      BY <2>8, <2>9, <3>1 DEF Save, BreaksOff, Hearing, rows
    <3>2. CASE disk[File] # None
      <4>1. /\ UNCHANGED <<queue, cur, nstate, unsettled, untidy>> /\ step' = "tag"
            /\ tstate' = [tstate EXCEPT ![File] = "DONE"] /\ step = "save"
        BY <2>9, <3>2 DEF Save, Then, history
      <4>. QED
        BY <1>0, <2>0, <4>1, WorkFrame DEF queue, AtWorkNow, Hearing
    <3>. QED
      BY <3>1, <3>2
  <2>10. CASE RecordFailure
    BY <1>0, <2>0, <2>8, <2>10 DEF RecordFailure, Hearing, history
  <2>11. CASE Tag
    BY <2>8, <2>11 DEF Tag, Places, Hearing, rows, history
  <2>. QED
    BY <1>3, <2>1, <2>2, <2>3, <2>5, <2>6, <2>7, <2>9, <2>10, <2>11 DEF HandlerStep
<1>4. CASE Raises
  <2>0. /\ step \notin {"down", "idle"} /\ cur \in Tasks /\ cur # NoTask /\ File \in Files
        /\ UNCHANGED <<tstate, nstate>> /\ unsettled \subseteq unsettled'
    BY <1>4, Current DEF Raises, TypeOK, rows
  <2>1. (AfterNotNormalizing \/ Fails) /\ (step = "tag" => Fails)
    BY <1>4 DEF Raises
  <2>2. CASE AfterNotNormalizing /\ TypeOf[cur] = "TRANSCRIBE"
    <3>1. UNCHANGED <<queue, cur, untidy>> /\ step # "tag"
      BY <1>4, <2>2 DEF Raises, AfterNotNormalizing, Then, Fails, Over, TypeOK
    <3>2. File \in unsettled'
      BY <1>4, <3>1 DEF Raises
    <3>. QED
      BY <2>0, <3>1, <3>2, PastFrame, <1>5 DEF queue
  <2>3. CASE Fails
    <3>1. cur' = NoTask /\ untidy' = untidy
      BY <2>3 DEF Fails, Over
    <3>2. step # "tag" => File \in unsettled'
      BY <1>4 DEF Raises
    <3>3. step = "tag" => tstate[File] # "RUNNING" /\ step \in Hearing
      BY DEF Places, Hearing
    <3>. QED
      BY <1>2, <1>5, <2>0, <2>3, <3>1, <3>2, <3>3, PastFrame
  <2>. QED
    BY <2>1, <2>2, <2>3 DEF AfterNotNormalizing
<1>6. CASE Stop \/ Crash
  <2>1. /\ \A t \in Tasks : AtWorkNow(t) => AtWorkNow(t)'
        /\ UNCHANGED <<tstate, nstate, unsettled>> /\ step' = "down"
    BY <1>0, <1>6 DEF Stop, Crash, GiveBack, Move, AtWorkNow, rows, queue
  <2>. QED
    BY <2>1, WorkFrame DEF Hearing
<1>7. CASE Restart
  <2>1. \A t \in Tasks : AtWorkNow(t) => AtWorkNow(t)'
    <3>1. untidy = {}
      BY <1>7 DEF Restart, TypeOK
    <3>. QED
      BY <1>0, <1>7, <3>1 DEF Restart, LoseAttempt, AtWorkNow, In, queue
  <2>2. UNCHANGED <<tstate, nstate, unsettled>> /\ step' = "idle"
    BY <1>7 DEF Restart, rows, history
  <2>. QED
    BY <2>1, <2>2, WorkFrame DEF Hearing
<1>13. ASSUME NEW t \in Tasks, t \in untidy, untidy' = untidy \ {t}, UNCHANGED <<queue, cur, step>>,
              unsettled \subseteq unsettled',
              \A f \in Files : tstate'[f] = "RUNNING" => tstate[f] = "RUNNING",
              \A f \in Files : nstate'[f] = "RUNNING" => nstate[f] = "RUNNING",
              tstate'[FileOf[t]] = "RUNNING" => TypeOf[t] = "NORMALIZE" \/ FileOf[t] \in unsettled',
              nstate'[FileOf[t]] = "RUNNING" => FileOf[t] \in unsettled'
       PROVE  AtWorkBy'
  <2>1. SUFFICES ASSUME NEW f \in Files \ unsettled'
                 PROVE  /\ tstate'[f] = "RUNNING" => TranscribedBy(f)'
                        /\ nstate'[f] = "RUNNING" => NormalizedBy(f)'
    BY DEF AtWorkBy
  <2>2. \A u \in Tasks \ {t} : AtWorkNow(u) => AtWorkNow(u)'
    BY <1>13 DEF AtWorkNow, queue
  <2>3. ASSUME tstate'[f] = "RUNNING"
        PROVE  TranscribedBy(f)'
    <3>1. PICK u \in Tasks : FileOf[u] = f /\ TypeOf[u] = "TRANSCRIBE" /\ AtWorkNow(u)
      BY <1>13, <2>3 DEF AtWorkBy, TranscribedBy
    <3>. QED
      BY <1>13, <2>2, <2>3, <3>1 DEF TranscribedBy
  <2>4. ASSUME nstate'[f] = "RUNNING"
        PROVE  NormalizedBy(f)'
    <3>1. PICK u \in Tasks : /\ FileOf[u] = f /\ Normalizes(u) /\ AtWorkNow(u)
                             /\ u = cur => step \notin Hearing
      BY <1>13, <2>4 DEF AtWorkBy, NormalizedBy
    <3>. QED
      BY <1>13, <2>2, <2>4, <3>1 DEF NormalizedBy, Normalizes
  <2>. QED
    BY <2>3, <2>4
<1>14. ASSUME NEW t \in untidy, Tidy(t)
       PROVE  AtWorkBy'
  <2>1. t \in Tasks /\ FileOf[t] \in Files /\ TypeOf[t] \in {"TRANSCRIBE", "NORMALIZE"}
    BY DEF TypeOK
  <2>2. UNCHANGED <<queue, cur, step, unsettled>> /\ untidy' = untidy \ {t} /\ Release(t)
    BY <1>14 DEF Tidy, history
  <2>3. /\ \A f \in Files : tstate'[f] = "RUNNING" => tstate[f] = "RUNNING"
        /\ \A f \in Files : nstate'[f] = "RUNNING" => nstate[f] = "RUNNING"
        /\ tstate'[FileOf[t]] = "RUNNING" => TypeOf[t] = "NORMALIZE"
        /\ nstate'[FileOf[t]] # "RUNNING"
    BY <1>0, <2>1, <2>2 DEF Release
  <2>. QED
    BY <1>13, <2>1, <2>2, <2>3
<1>15. ASSUME NEW t \in untidy, TidyRaises(t)
       PROVE  AtWorkBy'
  <2>1. t \in Tasks /\ UNCHANGED <<queue, cur, step, tstate, nstate>> /\ untidy' = untidy \ {t}
        /\ unsettled' = unsettled \cup {FileOf[t]}
    BY <1>15 DEF TidyRaises, rows, TypeOK
  <2>. QED
    BY <1>13, <2>1
<1>16. CASE CutShort
  <2>1. SUFFICES ASSUME NEW f \in Files \ unsettled'
                 PROVE  /\ tstate'[f] = "RUNNING" => TranscribedBy(f)'
                        /\ nstate'[f] = "RUNNING" => NormalizedBy(f)'
    BY DEF AtWorkBy
  <2>2. f \notin unsettled /\ \A t \in Tasks : FileOf[t] = f => t \notin untidy
    BY <1>16, <2>1 DEF CutShort, FilesOf
  <2>3. UNCHANGED <<queue, tstate, nstate, cur>> /\ step' \notin Hearing
    BY <1>16 DEF CutShort, rows, Hearing
  <2>4. TranscribedBy(f) => TranscribedBy(f)'
    BY <2>2, <2>3 DEF TranscribedBy, AtWorkNow, queue
  <2>5. NormalizedBy(f) => NormalizedBy(f)'
    BY <2>2, <2>3 DEF NormalizedBy, Normalizes, AtWorkNow, queue
  <2>. QED
    BY <2>1, <2>2, <2>3, <2>4, <2>5 DEF AtWorkBy
<1>8. ASSUME NEW t \in Tasks, Claim(t)
      PROVE  AtWorkBy'
  <2>1. /\ \A u \in Tasks : AtWorkNow(u) => AtWorkNow(u)'
        /\ UNCHANGED <<tstate, nstate, unsettled>> /\ step' \notin Hearing
    BY <1>0, <1>8 DEF Claim, Take, Move, AtWorkNow, rows, history, Hearing
  <2>. QED
    BY <2>1, WorkFrame
<1>9. ASSUME NEW t \in Tasks, Ask(t)
      PROVE  AtWorkBy'
  <2>1. /\ \A u \in Tasks : AtWorkNow(u) => AtWorkNow(u)'
        /\ UNCHANGED <<tstate, nstate, unsettled, untidy, cur, step>>
    BY <1>0, <1>9 DEF Ask, Submit, Retry, Move, AtWorkNow, rows, run, history
  <2>. QED
    BY <2>1, WorkFrame
<1>10. CASE ListSources \/ \E p \in Copies : RemoveCopy(p)
  BY <1>1, <1>10 DEF ListSources, RemoveCopy, rows, run, history
<1>11. CASE \E f \in Files : RemoveFile(f) \/ \E c \in Contents : PutFile(f, c)
  BY <1>1, <1>11 DEF RemoveFile, PutFile, rows, run, history
<1>12. CASE UNCHANGED vars
  BY <1>1, <1>12 DEF vars, rows, run, history
<1>. QED
  BY <1>3, <1>4, <1>6, <1>7, <1>8, <1>9, <1>10, <1>11, <1>12, <1>14, <1>15, <1>16 DEF Next

(* Whatever ends a task takes its track out of RUNNING, through failures, stops, crashes   *)
(* and the hooks of recovery, unless a statement of the handler or of a hook raised, the   *)
(* file was gone when the work was to be recorded, or another crash came amid the hooks.   *)
THEOREM RunningIsAtWork == Spec => []RunningIsRun
<1>1. Init => AtWorkBy
  BY DEF Init, AtWorkBy
<1>2. Inv /\ AtWorkBy /\ [Next]_vars => AtWorkBy'
  BY StepAtWork
<1>3. AtWorkBy => RunningIsRun
  <2>1. \A f \in Files : TranscribedBy(f) => AtWork(f, {"TRANSCRIBE"})
    BY DEF TranscribedBy, AtWorkNow, AtWork
  <2>2. \A f \in Files : NormalizedBy(f) => AtWork(f, {"TRANSCRIBE", "NORMALIZE"})
    BY DEF NormalizedBy, AtWorkNow, AtWork
  <2>. QED
    BY <2>1, <2>2 DEF AtWorkBy, RunningIsRun, ShownAtWork
<1>. QED
  BY TracksInvariant, <1>1, <1>2, <1>3, PTL DEF Spec
=============================================================================

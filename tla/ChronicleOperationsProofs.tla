---------------------- MODULE ChronicleOperationsProofs ----------------------
(***************************************************************************)
(* A form keeps the chronicle it was opened for, and a writer the columns  *)
(* of the others, for any chronicles, any values and any number of clicks  *)
(* that run at once.                                                       *)
(***************************************************************************)
EXTENDS ChronicleOperations, TLAPS

USE OperationsAssumption

All == Jobs \cup {Worker}

\* The types of the archive, of what the forms share, and of the jobs.
ArchiveOK ==
    /\ row \in [Chronicles -> Row \cup {Absent, Gone}]
    /\ lines \in [Chronicles -> BOOLEAN]
    /\ tracks \in [Chronicles -> Nat]
    /\ queued \subseteq Task
ScreenOK ==
    /\ form \in [{"edit", "transcript"} -> Form]
    /\ \A f \in {"edit", "transcript"} : form[f].open => form[f].shown
    /\ fields \in [of : Chronicles \cup {None}, title : Values, duration : Values]
    /\ pending \in Chronicles \cup {None}
JobsOK ==
    /\ job \in [All -> Job]
    /\ \A j \in All : Sound(job[j])
    /\ job[Worker].at # "none" => job[Worker].kind = "worker"
CountsOK == clicks \in 0 .. MaxClicks /\ raced \subseteq All

LEMMA Parts ==
    /\ TypeOK <=> ArchiveOK /\ ScreenOK /\ JobsOK /\ CountsOK
    /\ TypeOK' <=> ArchiveOK' /\ ScreenOK' /\ JobsOK' /\ CountsOK'
BY DEF TypeOK, ArchiveOK, ScreenOK, JobsOK, CountsOK, All

LEMMA IdleSound == Idle \in Job /\ Sound(Idle) /\ ~Shares(Idle) /\ Keeps(Idle)
BY DEF Idle, Job, Sound, Kinds, Places, Own, Shares, Keeps

LEMMA InitInv == Init => IInv
<1>. SUFFICES ASSUME Init PROVE IInv
  OBVIOUS
<1>1. ArchiveOK
  BY DEF Init, ArchiveOK, Row, Task, InArchive
<1>2. ScreenOK
  BY DEF Init, ScreenOK, Form, Row, Columns
<1>3. JobsOK
  BY IdleSound DEF Init, JobsOK, All, Idle
<1>4. CountsOK
  BY DEF Init, CountsOK
<1>. QED
  BY <1>1, <1>2, <1>3, <1>4, Parts, IdleSound
     DEF Init, IInv, FormsAlone, JobsAlone, FormsKeepTheirChronicle, Fresh, Sharing, Idle

-----------------------------------------------------------------------------
(* What a step that moves one job on leaves true.                            *)

\* A job may become a record that has what its place needs.
Fits(j, r) == r \in Job /\ Sound(r) /\ (j = Worker /\ r.at # "none" => r.kind = "worker")

LEMMA JobMoves ==
    ASSUME JobsOK, NEW j \in All, NEW r, Fits(j, r), Goes(j, r)
    PROVE  JobsOK'
BY DEF JobsOK, Fits, Goes, All

LEMMA EndFits == \A j : Fits(j, Idle)
BY IdleSound DEF Fits, Idle

\* Other jobs, and the forms, are alone or not as before.
LEMMA AloneStays ==
    ASSUME IInv, NEW j \in All, NEW r, Goes(j, r), ~Shares(r),
           j \in Jobs /\ r.alone => Keeps(r),
           UNCHANGED screen
    PROVE  FormsAlone' /\ JobsAlone' /\ FormsKeepTheirChronicle'
<1>0. /\ job \in [All -> Job]
      /\ job' = [job EXCEPT ![j] = r]
      /\ UNCHANGED <<form, fields, pending>>
  BY DEF IInv, TypeOK, Goes, All, screen
<1>1. \A i \in Sharing' : i \in Sharing /\ i # j /\ job'[i] = job[i]
  BY <1>0 DEF Sharing, All
<1>2. FormsAlone'
  BY <1>0, <1>1 DEF IInv, FormsAlone, NoneOpenBut
<1>3. JobsAlone'
  BY <1>0, <1>1 DEF IInv, JobsAlone
<1>4. FormsKeepTheirChronicle'
  BY <1>0 DEF IInv, FormsKeepTheirChronicle, All
<1>. QED
  BY <1>2, <1>3, <1>4

\* A job that is not about to write, and rows that stay: nobody's copy gets old.
LEMMA FreshStays ==
    ASSUME IInv, NEW j \in All, NEW r, Goes(j, r), r.at \notin {"select", "write"},
           UNCHANGED row, raced \ {j} \subseteq raced'
    PROVE  \A i \in All : Fresh(i)'
<1>1. /\ job \in [All -> Job]
      /\ job' = [job EXCEPT ![j] = r]
  BY DEF IInv, TypeOK, Goes, All
<1>2. \A i \in All : Fresh(i)
  BY DEF IInv, All
<1>. QED
  BY <1>1, <1>2 DEF Fresh

\* Such a step keeps the whole invariant.
LEMMA StepStays ==
    ASSUME IInv, NEW j \in All, NEW r, Fits(j, r), Goes(j, r), ~Shares(r),
           j \in Jobs /\ r.alone => Keeps(r), r.at \notin {"select", "write"},
           UNCHANGED <<row, screen>>, raced' \subseteq All, raced \ {j} \subseteq raced',
           ArchiveOK', clicks' \in 0 .. MaxClicks
    PROVE  IInv'
<1>1. ArchiveOK /\ ScreenOK /\ JobsOK /\ CountsOK
  BY Parts DEF IInv
<1>2. ScreenOK'
  BY <1>1 DEF ScreenOK, screen
<1>3. JobsOK'
  BY <1>1, JobMoves
<1>4. CountsOK'
  BY DEF CountsOK
<1>5. FormsAlone' /\ JobsAlone' /\ FormsKeepTheirChronicle'
  BY AloneStays
<1>6. \A i \in All : Fresh(i)'
  BY FreshStays
<1>. QED
  BY <1>2, <1>3, <1>4, <1>5, <1>6, Parts DEF IInv, All

\* So does one that ends the job.
LEMMA EndStays ==
    ASSUME IInv, NEW j \in All, Ends(j),
           UNCHANGED <<row, screen, clicks>>, raced' \subseteq All, raced \ {j} \subseteq raced',
           ArchiveOK'
    PROVE  IInv'
<1>1. ~Shares(Idle) /\ Keeps(Idle) /\ Fits(j, Idle) /\ Goes(j, Idle)
  BY IdleSound, EndFits DEF Ends
<1>2. clicks' \in 0 .. MaxClicks
  BY DEF IInv, TypeOK
<1>3. Idle.at \notin {"select", "write"}
  BY DEF Idle
<1>. QED
  BY <1>1, <1>2, <1>3, StepStays

LEMMA JobFacts ==
    ASSUME IInv, NEW j \in All
    PROVE  /\ job \in [All -> Job] /\ job[j] \in Job /\ Sound(job[j])
           /\ j = Worker /\ job[j].at # "none" => job[j].kind = "worker"
           /\ j \in Jobs /\ job[j].alone => Keeps(job[j])
           /\ ArchiveOK /\ ScreenOK /\ JobsOK /\ CountsOK
           /\ clicks \in 0 .. MaxClicks /\ raced \subseteq All
           /\ Fresh(j)
BY Parts DEF IInv, JobsOK, CountsOK, FormsKeepTheirChronicle, All

-----------------------------------------------------------------------------
(* The clicks *)

LEMMA ClickStep ==
    ASSUME IInv, NEW j \in Jobs, NEW kind \in Kinds, NEW at \in Places,
           NEW c \in Chronicles \cup {None}, Click(j, kind, at, c),
           kind \notin {"edit", "transcript"}, at \notin {"select", "write"},
           at \in {"get", "pick", "create"} \/ c # None,
           at = "get" => kind \in DOMAIN Own,
           UNCHANGED <<archive, screen, raced>>
    PROVE  IInv'
<1>. DEFINE r == [Idle EXCEPT !.kind = kind, !.at = at, !.on = c, !.for = c]
<1>1. r \in Job /\ ~Shares(r) /\ Keeps(r) /\ r.at = at
  BY IdleSound DEF Job, Shares, Keeps, Idle
<1>2. Sound(r)
  BY DEF Sound, Idle
<1>3. Fits(j, r) /\ Goes(j, r) /\ j \in All /\ j # Worker
  BY <1>1, <1>2 DEF Fits, Click, All
<1>4. ArchiveOK' /\ raced' \subseteq All
  BY <1>3, JobFacts DEF ArchiveOK, archive
<1>5. clicks' \in 0 .. MaxClicks
  BY <1>3, JobFacts DEF Click
<1>. HIDE DEF r
<1>. QED
  BY <1>1, <1>3, <1>4, <1>5, StepStays DEF archive

LEMMA ClicksStep ==
    ASSUME IInv, NEW j \in Jobs,
           \/ ChooseProject(j) \/ New(j)
           \/ \E c \in Chronicles \cup {None} : ChooseAudio(j, c)
           \/ \E c \in Chronicles : Identify(j, c) \/ \E kind \in {"delete", "task"} : Ask(j, kind, c)
    PROVE  IInv'
<1>1. {"counting", "new", "audio", "identify", "delete", "task"} \subseteq Kinds
      /\ {"pick", "create", "get", "confirm"} \subseteq Places
      /\ "identify" \in DOMAIN Own
  BY DEF Kinds, Places, Own
<1>2. CASE ChooseProject(j)
  BY <1>1, <1>2, ClickStep DEF ChooseProject
<1>3. CASE New(j)
  BY <1>1, <1>3, ClickStep DEF New
<1>4. ASSUME NEW c \in Chronicles \cup {None}, ChooseAudio(j, c) PROVE IInv'
  BY <1>1, <1>4, ClickStep DEF ChooseAudio
<1>5. ASSUME NEW c \in Chronicles, Identify(j, c) PROVE IInv'
  BY <1>1, <1>5, ClickStep DEF Identify
<1>6. ASSUME NEW c \in Chronicles, NEW kind \in {"delete", "task"}, Ask(j, kind, c) PROVE IInv'
  BY <1>1, <1>6, ClickStep DEF Ask
<1>. QED
  BY <1>2, <1>3, <1>4, <1>5, <1>6

-----------------------------------------------------------------------------
(* The steps of a job that leave the rows and the forms alone *)

\* A job goes on at a place where nothing is asked of the forms.
LEMMA ToStep ==
    ASSUME IInv, NEW j \in All, NEW place \in Places, To(j, place), job[j].at # "none",
           place \notin {"get", "select", "write", "pick", "stage"},
           job[j].kind = "transcript" /\ place \in {"lines", "ask"}
              => job[j].at \in {"stage", "lines", "ask"},
           place \in {"none", "create"} \/ job[j].on # None,
           UNCHANGED <<row, screen, clicks, raced>>, ArchiveOK'
    PROVE  IInv'
<1>. DEFINE r == [job[j] EXCEPT !.at = place]
<1>1. r \in Job /\ ~Shares(r) /\ r.at = place
  BY JobFacts DEF Job, Shares
<1>2. Fits(j, r) /\ Goes(j, r)
  BY <1>1, JobFacts DEF Fits, Sound, To, Job
<1>3. j \in Jobs /\ r.alone => Keeps(r)
  BY JobFacts DEF Keeps, Job
<1>4. raced' \subseteq All /\ raced' = raced /\ clicks' \in 0 .. MaxClicks
  BY JobFacts
<1>. HIDE DEF r
<1>. QED
  BY <1>1, <1>2, <1>3, <1>4, StepStays

LEMMA QuietStep ==
    ASSUME IInv, NEW j \in All,
           \/ Staged(j) \/ LookAtLines(j) \/ Asked(j) \/ Confirmed(j) \/ Raises(j)
           \/ Add(j) \/ Queue(j) \/ Remove(j)
    PROVE  IInv'
<1>0. /\ job[j] \in Job /\ Sound(job[j])
      /\ j \in Jobs /\ job[j].alone => Keeps(job[j])
      /\ ArchiveOK /\ raced \subseteq All
      /\ clicks \in 0 .. MaxClicks
  BY JobFacts
<1>1. {"add", "lines", "create", "ask", "queue", "delete"} \subseteq Places
  BY DEF Places
<1>2. UNCHANGED archive => ArchiveOK' /\ UNCHANGED row
  BY <1>0 DEF archive, ArchiveOK
<1>3. CASE Staged(j)
  BY <1>0, <1>1, <1>2, <1>3, ToStep DEF Staged
<1>4. CASE LookAtLines(j)
  <2>1. job[j].on # None
    BY <1>0, <1>4 DEF LookAtLines, Sound
  <2>. QED
    BY <1>0, <1>1, <1>2, <1>4, <2>1, ToStep, EndStays DEF LookAtLines
<1>5. CASE Asked(j)
  <2>1. ASSUME NEW append \in BOOLEAN,
               Goes(j, [job[j] EXCEPT !.at = "queue", !.append = append])
        PROVE  IInv'
    <3>. DEFINE r == [job[j] EXCEPT !.at = "queue", !.append = append]
    <3>1. r \in Job /\ ~Shares(r) /\ Keeps(r) /\ r.at = "queue"
      BY <1>0, <1>1 DEF Job, Shares, Keeps
    <3>2. Fits(j, r)
      BY <1>0, <1>5, <3>1, JobFacts DEF Fits, Sound, Job, Asked
    <3>. HIDE DEF r
    <3>. QED
      BY <1>0, <1>2, <1>5, <2>1, <3>1, <3>2, StepStays DEF Asked, r
  <2>. QED
    BY <1>0, <1>2, <1>5, <2>1, EndStays DEF Asked
<1>6. CASE Confirmed(j)
  <2>1. job[j].on # None
    BY <1>0, <1>6 DEF Confirmed, Sound
  <2>. QED
    BY <1>0, <1>1, <1>2, <1>6, <2>1, ToStep, EndStays DEF Confirmed
<1>7. CASE Raises(j)
  BY <1>0, <1>2, <1>7, EndStays DEF Raises
<1>8. CASE Add(j)
  <2>1. job[j].on \in Chronicles
    BY <1>0, <1>8 DEF Add, Sound, Job
  <2>2. ArchiveOK'
    BY <1>0, <1>8, <2>1 DEF Add, ArchiveOK
  <2>. QED
    BY <1>0, <1>8, <2>2, EndStays DEF Add
<1>9. CASE Queue(j)
  <2>1. [of |-> job[j].on, append |-> job[j].append] \in Task
    BY <1>0, <1>9 DEF Queue, Sound, Job, Task
  <2>2. ArchiveOK'
    BY <1>0, <1>9, <2>1 DEF Queue, ArchiveOK
  <2>. QED
    BY <1>0, <1>9, <2>2, EndStays DEF Queue
<1>10. CASE Remove(j)
  <2>1. tracks' \in [Chronicles -> Nat] /\ lines' \in [Chronicles -> BOOLEAN]
    <3>1. CASE UNCHANGED <<tracks, lines>>
      BY <1>0, <3>1 DEF ArchiveOK
    <3>2. CASE /\ tracks' = [tracks EXCEPT ![job[j].on] = 0]
               /\ lines' = [lines EXCEPT ![job[j].on] = FALSE]
      BY <1>0, <3>2 DEF ArchiveOK
    <3>. QED
      BY <1>10, <3>1, <3>2 DEF Remove
  <2>2. ArchiveOK'
    BY <1>0, <1>10, <2>1 DEF Remove, ArchiveOK
  <2>. QED
    BY <1>0, <1>10, <2>2, EndStays DEF Remove
<1>. QED
  BY <1>3, <1>4, <1>5, <1>6, <1>7, <1>8, <1>9, <1>10

LEMMA SettleStep ==
    ASSUME IInv, NEW t \in queued, Settle(t)
    PROVE  IInv'
<1>0. Worker \in All /\ ArchiveOK /\ raced \subseteq All /\ clicks \in 0 .. MaxClicks
  BY JobFacts DEF All
<1>. DEFINE r == [Idle EXCEPT !.kind = "worker", !.at = "get", !.on = t.of]
<1>1. t.of \in Chronicles
  BY <1>0 DEF ArchiveOK, Task
<1>2. r \in Job /\ ~Shares(r) /\ Keeps(r) /\ r.at = "get" /\ r.kind = "worker"
  BY <1>1, IdleSound DEF Job, Shares, Keeps, Idle, Kinds, Places, Own
<1>3. Fits(Worker, r)
  BY <1>2 DEF Fits, Sound, Own
<1>4. ArchiveOK'
  BY <1>0, <1>1 DEF Settle, ArchiveOK, InArchive
<1>. HIDE DEF r
<1>. QED
  BY <1>0, <1>2, <1>3, <1>4, StepStays DEF Settle, r

-----------------------------------------------------------------------------
(* Reading a row and writing it back *)

\* Where a job goes after a row, to the end or to the next row of a linked project.
LEMMA AfterRowFits ==
    ASSUME IInv, NEW j \in All, AfterRow(j), job[j].at # "none"
    PROVE  \E r \in Job : /\ Goes(j, r) /\ Fits(j, r) /\ ~Shares(r) /\ Keeps(r)
                          /\ r.at \in {"none", "get"}
<1>. DEFINE next == [job[j] EXCEPT !.kind = "link", !.at = "get"]
<1>1. job[j] \in Job /\ Sound(job[j]) /\ (j = Worker => job[j].kind = "worker")
  BY JobFacts
<1>2. CASE job[j].kind = "counting"
  <2>1. next \in Job /\ ~Shares(next) /\ Keeps(next) /\ next.at = "get"
    BY <1>1 DEF Job, Shares, Keeps, Kinds, Places, Own
  <2>2. Sound(next) /\ j # Worker
    BY <1>1, <1>2 DEF Sound, Own, Job
  <2>3. Goes(j, next)
    BY <1>2 DEF AfterRow
  <2>. HIDE DEF next
  <2>. QED
    BY <2>1, <2>2, <2>3 DEF Fits
<1>3. CASE job[j].kind # "counting"
  BY <1>3, IdleSound, EndFits DEF AfterRow, Ends, Idle
<1>. QED
  BY <1>2, <1>3

\* What is read changes only in the writer's own columns.
LEMMA ChangedRow ==
    ASSUME IInv, NEW j \in All, NEW r \in Row, NEW s \in Changed(r, j),
           job[j].kind \in DOMAIN Own
    PROVE  s \in Row /\ \A k \in Columns \ Own[job[j].kind] : s[k] = r[k]
<1>1. CASE job[j].kind = "edit"
  <2>1. fields.title \in Values /\ fields.duration \in Values
    BY JobFacts DEF ScreenOK
  <2>2. s = [r EXCEPT !.title = fields.title, !.duration = fields.duration]
    BY <1>1 DEF Changed
  <2>3. Columns \ Own[job[j].kind] = {"count"}
    BY <1>1 DEF Columns, Own
  <2>4. s \in Row
    BY <2>1, <2>2 DEF Row
  <2>5. s["count"] = r["count"]
    BY <2>2 DEF Row, Columns
  <2>. QED
    BY <2>3, <2>4, <2>5
<1>2. CASE job[j].kind # "edit"
  BY <1>2 DEF Changed
<1>. QED
  BY <1>1, <1>2

LEMMA GetStep ==
    ASSUME IInv, NEW j \in All, Get(j)
    PROVE  IInv'
<1>0. /\ job \in [All -> Job] /\ job[j] \in Job /\ Sound(job[j])
      /\ j = Worker => job[j].kind = "worker"
      /\ j \in Jobs /\ job[j].alone => Keeps(job[j])
      /\ ArchiveOK /\ ScreenOK /\ JobsOK /\ CountsOK
      /\ clicks \in 0 .. MaxClicks /\ raced \subseteq All
      /\ job[j].at = "get"
  BY JobFacts DEF Get
<1>1. /\ UNCHANGED <<archive, screen, clicks>> /\ UNCHANGED row
      /\ raced' = raced \ {j} /\ raced' \subseteq All
      /\ ArchiveOK' /\ ScreenOK' /\ CountsOK'
  BY <1>0 DEF Get, archive, screen, ArchiveOK, ScreenOK, CountsOK
<1>2. CASE Ends(j)
  BY <1>0, <1>1, <1>2, EndStays
<1>3. CASE AfterRow(j)
  BY <1>0, <1>1, <1>3, AfterRowFits, StepStays
<1>4. ASSUME InArchive(job[j].on), NEW s \in Changed(row[job[j].on], j),
             Goes(j, [job[j] EXCEPT !.at = "select", !.copy = s, !.from = fields.of])
      PROVE  IInv'
  <2>. DEFINE r == [job[j] EXCEPT !.at = "select", !.copy = s, !.from = fields.of]
  <2>1. /\ job[j].kind \in DOMAIN Own /\ job[j].on \in Chronicles
        /\ row[job[j].on] \in Row
    BY <1>0, <1>4 DEF Sound, InArchive, Job
  <2>2. s \in Row /\ \A k \in Columns \ Own[job[j].kind] : s[k] = row[job[j].on][k]
    BY <1>4, <2>1, ChangedRow
  <2>3. fields.of \in Chronicles \cup {None}
    BY <1>0 DEF ScreenOK
  <2>4. /\ r \in Job /\ ~Shares(r) /\ r.at = "select" /\ r.copy = s /\ r.on = job[j].on
        /\ r.kind = job[j].kind /\ r.from = fields.of /\ r.alone = job[j].alone
        /\ r.for = job[j].for
    BY <1>0, <2>2, <2>3 DEF Job, Shares, Places
  <2>5. s # None /\ job[j].on # None /\ row[job[j].on] # Absent
    BY <1>4, <2>1, <2>2 DEF Row, InArchive
  <2>6. Fits(j, r)
    BY <1>0, <2>1, <2>4, <2>5 DEF Fits, Sound
  <2>7. j \in Jobs /\ r.alone => Keeps(r)
    <3>1. SUFFICES ASSUME j \in Jobs, job[j].alone, job[j].kind = "edit"
                   PROVE  r.on = r.for /\ r.from = r.on
      BY <2>4 DEF Keeps
    <3>2. j \in Sharing
      BY <1>0, <3>1 DEF Sharing, Shares
    <3>3. job[j].on = job[j].for /\ fields.of = job[j].for
      BY <3>1, <3>2 DEF IInv, JobsAlone
    <3>. QED
      BY <2>4, <3>3
  <2>. HIDE DEF r
  <2>8. Goes(j, r)
    BY <1>4 DEF r
  <2>9. FormsAlone' /\ JobsAlone' /\ FormsKeepTheirChronicle'
    BY <1>1, <2>4, <2>7, <2>8, AloneStays
  <2>10. \A i \in All : Fresh(i)'
    <3>. SUFFICES ASSUME NEW i \in All PROVE Fresh(i)'
      OBVIOUS
    <3>1. CASE i = j
      <4>1. job'[j] = r
        BY <1>0, <2>8 DEF Goes
      <4>. QED
        BY <1>1, <2>2, <2>4, <2>5, <3>1, <4>1 DEF Fresh
    <3>2. CASE i # j
      <4>1. job'[i] = job[i] /\ (i \in raced' <=> i \in raced) /\ Fresh(i)
        BY <1>0, <1>1, <2>8, <3>2 DEF Goes, IInv, All
      <4>. QED
        BY <1>1, <4>1 DEF Fresh
    <3>. QED
      BY <3>1, <3>2
  <2>. QED
    BY <1>0, <1>1, <2>6, <2>8, <2>9, <2>10, JobMoves, Parts DEF IInv, All
<1>. QED
  BY <1>2, <1>3, <1>4 DEF Get

LEMMA SelectStep ==
    ASSUME IInv, NEW j \in All, Select(j)
    PROVE  IInv'
<1>0. /\ job \in [All -> Job] /\ job[j] \in Job /\ Sound(job[j])
      /\ j = Worker => job[j].kind = "worker"
      /\ j \in Jobs /\ job[j].alone => Keeps(job[j])
      /\ ArchiveOK /\ ScreenOK /\ JobsOK /\ CountsOK
      /\ raced \subseteq All /\ Fresh(j)
      /\ job[j].at = "select"
  BY JobFacts DEF Select
<1>1. /\ UNCHANGED <<archive, screen, clicks, raced>> /\ UNCHANGED row
      /\ ArchiveOK' /\ ScreenOK' /\ CountsOK'
  BY <1>0 DEF Select, archive, screen, ArchiveOK, ScreenOK, CountsOK
<1>2. CASE Ends(j)
  BY <1>0, <1>1, <1>2, EndStays
<1>3. ASSUME InArchive(job[j].on),
             Goes(j, [job[j] EXCEPT !.at = "write", !.base = row[job[j].on]])
      PROVE  IInv'
  <2>. DEFINE r == [job[j] EXCEPT !.at = "write", !.base = row[job[j].on]]
  <2>1. row[job[j].on] \in Row /\ None \notin Row
    BY <1>3 DEF InArchive, Row
  <2>2. /\ r \in Job /\ ~Shares(r) /\ r.at = "write" /\ r.base = row[job[j].on]
        /\ r.copy = job[j].copy /\ r.on = job[j].on /\ r.kind = job[j].kind
        /\ r.from = job[j].from /\ r.alone = job[j].alone /\ r.for = job[j].for
    BY <1>0, <2>1 DEF Job, Shares, Places
  <2>3. Fits(j, r)
    BY <1>0, <2>1, <2>2 DEF Fits, Sound
  <2>4. j \in Jobs /\ r.alone => Keeps(r)
    BY <1>0, <2>2 DEF Keeps
  <2>. HIDE DEF r
  <2>5. Goes(j, r)
    BY <1>3 DEF r
  <2>6. FormsAlone' /\ JobsAlone' /\ FormsKeepTheirChronicle'
    BY <1>1, <2>2, <2>4, <2>5, AloneStays
  <2>7. \A i \in All : Fresh(i)'
    <3>. SUFFICES ASSUME NEW i \in All PROVE Fresh(i)'
      OBVIOUS
    <3>1. /\ job'[i] = IF i = j THEN r ELSE job[i]
          /\ Fresh(i)
      BY <1>0, <2>5 DEF Goes, IInv, All
    <3>2. CASE i = j
      <4>1. /\ row[job[j].on] # Absent
            /\ j \notin raced => \A k \in Columns \ Own[job[j].kind] :
                                   job[j].copy[k] = row[job[j].on][k]
        BY <1>0, <2>1 DEF Fresh
      <4>2. /\ job'[i].at = "write" /\ job'[i].on = job[j].on /\ job'[i].kind = job[j].kind
            /\ job'[i].copy = job[j].copy /\ job'[i].base = row[job[j].on]
        BY <2>2, <3>1, <3>2
      <4>3. row'[job'[i].on] # Absent
        BY <1>1, <4>1, <4>2
      <4>4. i \notin raced' => \A k \in Columns \ Own[job'[i].kind] :
                                job'[i].copy[k] = job'[i].base[k]
        BY <1>1, <3>2, <4>1, <4>2
      <4>. QED
        BY <4>2, <4>3, <4>4 DEF Fresh
    <3>3. CASE i # j
      BY <1>1, <3>1, <3>3 DEF Fresh
    <3>. QED
      BY <3>2, <3>3
  <2>. QED
    BY <1>0, <1>1, <2>3, <2>5, <2>6, <2>7, JobMoves, Parts DEF IInv, All
<1>. QED
  BY <1>2, <1>3 DEF Select

LEMMA WrittenRow ==
    ASSUME IInv, NEW j \in All, job[j].at = "write", InArchive(job[j].on)
    PROVE  /\ Written(j) \in Row
           /\ j \notin raced => \A k \in Columns \ Own[job[j].kind] :
                                    Written(j)[k] = row[job[j].on][k]
<1>1. job[j].copy \in Row /\ row[job[j].on] \in Row
  BY JobFacts DEF Sound, Job, InArchive
<1>2. Written(j) \in Row
  BY <1>1 DEF Written, Row
<1>3. ASSUME j \notin raced, NEW k \in Columns \ Own[job[j].kind]
      PROVE  Written(j)[k] = row[job[j].on][k]
  <2>1. job[j].copy[k] = job[j].base[k]
    BY <1>1, <1>3, JobFacts DEF Fresh
  <2>. QED
    BY <2>1 DEF Written
<1>. QED
  BY <1>2, <1>3

LEMMA WriteStep ==
    ASSUME IInv, NEW j \in All, Write(j)
    PROVE  IInv'
<1>0. /\ job \in [All -> Job] /\ job[j] \in Job /\ Sound(job[j])
      /\ ArchiveOK /\ ScreenOK /\ JobsOK /\ CountsOK
      /\ raced \subseteq All
      /\ job[j].at = "write"
  BY JobFacts DEF Write
<1>1. CASE ~InArchive(job[j].on)
  <2>1. Ends(j) /\ UNCHANGED <<row, raced, screen, clicks>> /\ ArchiveOK'
    BY <1>0, <1>1 DEF Write, ArchiveOK
  <2>. QED
    BY <1>0, <2>1, EndStays
<1>2. CASE InArchive(job[j].on)
  <2>. DEFINE c == job[j].on
  <2>1. /\ row' = [row EXCEPT ![c] = Written(j)]
        /\ raced' = (raced \ {j}) \cup CutOff(j)
        /\ AfterRow(j) /\ UNCHANGED <<lines, tracks, queued, screen, clicks>>
    BY <1>2 DEF Write
  <2>2. Written(j) \in Row /\ Absent \notin Row /\ c \in Chronicles
    BY <1>0, <1>2, WrittenRow DEF Row, InArchive, Job
  <2>3. ArchiveOK' /\ ScreenOK' /\ CountsOK'
    BY <1>0, <2>1, <2>2 DEF ArchiveOK, ScreenOK, CountsOK, CutOff, screen
  <2>4. PICK r \in Job : /\ Goes(j, r) /\ Fits(j, r) /\ ~Shares(r) /\ Keeps(r)
                         /\ r.at \in {"none", "get"}
    BY <1>0, <2>1, AfterRowFits
  <2>5. FormsAlone' /\ JobsAlone' /\ FormsKeepTheirChronicle'
    BY <2>1, <2>4, AloneStays
  <2>6. ASSUME NEW i \in All PROVE Fresh(i)'
    <3>1. CASE i = j
      BY <1>0, <2>4, <3>1 DEF Goes, Fresh
    <3>2. CASE i # j
      <4>1. job'[i] = job[i] /\ Fresh(i) /\ (i \in raced => i \in raced')
        BY <1>0, <2>1, <2>4, <3>2 DEF Goes, IInv, All
      <4>2. row' \in [Chronicles -> Row \cup {Absent, Gone}]
            /\ \A d \in Chronicles : row'[d] = IF d = c THEN Written(j) ELSE row[d]
        BY <1>0, <2>1, <2>2, <2>3 DEF ArchiveOK
      <4>3. job[i].at \in {"select", "write"} => job[i].on \in Chronicles
        BY JobFacts DEF Sound, Job
      <4>4. ASSUME job[i].at = "select", job[i].on = c, i \notin raced', row[c] \in Row,
                   NEW k \in Columns \ Own[job[i].kind]
            PROVE  job[i].copy[k] = Written(j)[k]
        <5>1. i \notin CutOff(j) /\ i \in DOMAIN job \ {j}
          BY <1>0, <2>1, <3>2, <4>4
        <5>2. Written(j)[k] = row[c][k]
          BY <4>4, <5>1 DEF CutOff
        <5>. QED
          BY <4>1, <4>4, <5>2 DEF Fresh
      <4>5. row[c] \in Row
        BY <1>2 DEF InArchive
      <4>. QED
        BY <2>2, <4>1, <4>2, <4>3, <4>4, <4>5 DEF Fresh
    <3>. QED
      BY <3>1, <3>2
  <2>. QED
    BY <1>0, <2>3, <2>4, <2>5, <2>6, JobMoves, Parts DEF IInv, All
<1>. QED
  BY <1>1, <1>2

-----------------------------------------------------------------------------
(* Rows made and deleted: a row that somebody has read was made before.      *)

LEMMA RowStep ==
    ASSUME IInv, NEW j \in All, NEW r, Fits(j, r), Goes(j, r), ~Shares(r), Keeps(r),
           r.at \notin {"select", "write"},
           NEW c \in Chronicles, NEW new \in Row \cup {Gone},
           row' = [row EXCEPT ![c] = new], row[c] = Absent \/ new = Gone,
           ArchiveOK', UNCHANGED <<screen, clicks, raced>>
    PROVE  IInv'
<1>0. job \in [All -> Job] /\ ArchiveOK /\ ScreenOK /\ JobsOK /\ CountsOK
  BY JobFacts
<1>1. ScreenOK' /\ CountsOK'
  BY <1>0 DEF ScreenOK, CountsOK, screen
<1>2. FormsAlone' /\ JobsAlone' /\ FormsKeepTheirChronicle'
  BY AloneStays
<1>3. ASSUME NEW i \in All PROVE Fresh(i)'
  <2>1. CASE i = j
    BY <1>0, <2>1 DEF Goes, Fresh
  <2>2. CASE i # j
    <3>1. job'[i] = job[i] /\ Fresh(i)
      BY <1>0, <2>2 DEF Goes, IInv, All
    <3>2. Absent \notin Row /\ Gone \notin Row /\ Absent # Gone
      BY DEF Row
    <3>3. row'[job[i].on] = IF job[i].on = c THEN new ELSE row[job[i].on]
      BY <1>0 DEF ArchiveOK
    <3>. QED
      BY <3>1, <3>2, <3>3 DEF Fresh
  <2>. QED
    BY <2>1, <2>2
<1>. QED
  BY <1>0, <1>1, <1>2, <1>3, JobMoves, Parts DEF IInv, All

LEMMA CreateStep ==
    ASSUME IInv, NEW j \in All, NEW c \in Chronicles, Create(j, c)
    PROVE  IInv'
<1>0. /\ job[j] \in Job /\ Sound(job[j]) /\ ArchiveOK /\ job[j].at = "create"
      /\ j = Worker => job[j].kind = "worker"
  BY JobFacts DEF Create
<1>1. NewRow \in Row /\ row' = [row EXCEPT ![c] = NewRow] /\ row[c] = Absent
      /\ UNCHANGED <<tracks, queued, screen, clicks, raced>>
  BY DEF Create, Row
<1>2. ArchiveOK'
  <2>1. (job[j].kind = "counting") \in BOOLEAN
    OBVIOUS
  <2>2. lines' \in [Chronicles -> BOOLEAN]
    BY <1>0, <2>1 DEF Create, ArchiveOK
  <2>3. row' \in [Chronicles -> Row \cup {Absent, Gone}]
    BY <1>0, <1>1 DEF ArchiveOK
  <2>. QED
    BY <1>0, <1>1, <2>2, <2>3 DEF ArchiveOK
<1>3. CASE job[j].kind = "new"
  BY <1>1, <1>2, <1>3, IdleSound, EndFits, RowStep DEF Create, Ends, Idle
<1>4. ASSUME NEW place \in {"get", "add", "queue"}, place = "get" <=> job[j].kind = "counting",
             Goes(j, [job[j] EXCEPT !.on = c, !.at = place])
      PROVE  IInv'
  <2>. DEFINE r == [job[j] EXCEPT !.on = c, !.at = place]
  <2>1. r \in Job /\ ~Shares(r) /\ Keeps(r) /\ r.at = place
    BY <1>0, <1>4 DEF Job, Shares, Keeps, Places
  <2>2. Fits(j, r)
    BY <1>0, <1>4, <2>1 DEF Fits, Sound, Own, Job
  <2>. HIDE DEF r
  <2>3. Goes(j, r)
    BY <1>4 DEF r
  <2>. QED
    BY <1>1, <1>2, <1>4, <2>1, <2>2, <2>3, RowStep
<1>. QED
  BY <1>3, <1>4 DEF Create

LEMMA DeleteStep ==
    ASSUME IInv, NEW j \in All, Delete(j)
    PROVE  IInv'
<1>0. /\ job[j] \in Job /\ Sound(job[j]) /\ ArchiveOK /\ job[j].at = "delete"
      /\ j = Worker => job[j].kind = "worker"
  BY JobFacts DEF Delete
<1>. DEFINE r == [job[j] EXCEPT !.at = "remove"]
<1>1. r \in Job /\ ~Shares(r) /\ Keeps(r) /\ r.at = "remove" /\ job[j].on \in Chronicles
  BY <1>0 DEF Job, Shares, Keeps, Places, Sound
<1>2. Fits(j, r)
  BY <1>0, <1>1 DEF Fits, Sound, Job
<1>3. ArchiveOK'
  BY <1>0 DEF Delete, ArchiveOK
<1>4. Goes(j, r) /\ row' = [row EXCEPT ![job[j].on] = Gone] /\ UNCHANGED <<screen, clicks, raced>>
  BY DEF Delete, To
<1>. HIDE DEF r
<1>. QED
  BY <1>1, <1>2, <1>3, <1>4, RowStep

-----------------------------------------------------------------------------
(* The forms and what they share *)

\* Rows, and where the jobs are, as they were: copies get no older.
LEMMA CopiesStay ==
    ASSUME IInv, UNCHANGED <<row, raced>>,
           \A i \in All : job'[i] = [job[i] EXCEPT !.alone = FALSE] \/ job'[i] = job[i]
    PROVE  \A i \in All : Fresh(i)'
<1>. SUFFICES ASSUME NEW i \in All PROVE Fresh(i)'
  OBVIOUS
<1>1. Fresh(i) /\ job[i] \in Job
  BY JobFacts
<1>2. job'[i].at = job[i].at /\ job'[i].on = job[i].on /\ job'[i].kind = job[i].kind
      /\ job'[i].copy = job[i].copy /\ job'[i].base = job[i].base
  BY <1>1 DEF Job
<1>. QED
  BY <1>1, <1>2 DEF Fresh

LEMMA PickedStep ==
    ASSUME IInv, NEW j \in All, Picked(j)
    PROVE  IInv'
<1>0. /\ job \in [All -> Job] /\ job[j] \in Job /\ Sound(job[j])
      /\ j = Worker => job[j].kind = "worker"
      /\ ArchiveOK /\ ScreenOK /\ JobsOK /\ CountsOK
      /\ clicks \in 0 .. MaxClicks /\ raced \subseteq All
      /\ job[j].at = "pick"
  BY JobFacts DEF Picked
<1>1. /\ UNCHANGED <<archive, form, fields, clicks, raced>> /\ UNCHANGED row /\ ArchiveOK'
      /\ CountsOK'
  BY <1>0 DEF Picked, archive, ArchiveOK, CountsOK
<1>2. CASE Ends(j) /\ UNCHANGED pending
  BY <1>0, <1>1, <1>2, EndStays DEF screen
<1>3. CASE job[j].kind # "transcript" /\ UNCHANGED pending
           /\ To(j, IF job[j].kind = "audio" THEN "stage" ELSE "create")
  <2>. DEFINE r == [job[j] EXCEPT !.at = IF job[j].kind = "audio" THEN "stage" ELSE "create"]
  <2>1. r \in Job /\ ~Shares(r) /\ Keeps(r) /\ r.at \in {"stage", "create"}
        /\ r.kind = job[j].kind
    BY <1>0, <1>3 DEF Job, Shares, Keeps, Places
  <2>2. Fits(j, r)
    BY <1>0, <2>1 DEF Fits, Sound
  <2>3. Goes(j, r)
    BY <1>3 DEF To
  <2>. HIDE DEF r
  <2>. QED
    BY <1>0, <1>1, <1>3, <2>1, <2>2, <2>3, StepStays DEF screen
<1>4. CASE /\ job[j].kind = "transcript" /\ pending' = None
           /\ Goes(j, [job[j] EXCEPT !.at = "stage", !.on = pending])
  <2>. DEFINE r == [job[j] EXCEPT !.at = "stage", !.on = pending]
  <2>1. /\ r \in Job /\ ~Shares(r) /\ r.at = "stage" /\ r.on = pending
        /\ r.kind = "transcript" /\ r.alone = job[j].alone /\ r.for = job[j].for
    BY <1>0, <1>4 DEF Job, Shares, Places, ScreenOK
  <2>2. Fits(j, r)
    BY <1>0, <1>4, <2>1 DEF Fits, Sound
  <2>. HIDE DEF r
  <2>3. job' = [job EXCEPT ![j] = r]
    BY <1>4 DEF r, Goes
  <2>4. j \in Jobs /\ j \in Sharing
    BY <1>0, <1>4 DEF Sharing, Shares, All
  <2>5. \A i \in Sharing' : i \in Sharing /\ i # j /\ job'[i] = job[i]
    BY <1>0, <2>1, <2>3 DEF Sharing, All
  <2>6. FormsAlone'
    BY <1>1, <2>4 DEF IInv, FormsAlone
  <2>7. JobsAlone'
    BY <2>4, <2>5 DEF IInv, JobsAlone
  <2>8. FormsKeepTheirChronicle'
    <3>1. job[j].alone => pending = job[j].for
      BY <1>4, <2>4 DEF IInv, JobsAlone
    <3>2. job[j].alone => Keeps(r)
      BY <2>1, <3>1 DEF Keeps
    <3>. QED
      BY <1>0, <2>1, <2>3, <3>2 DEF IInv, FormsKeepTheirChronicle, All
  <2>9. \A i \in All : Fresh(i)'
    BY <1>1, <2>1, <2>3, FreshStays DEF Goes
  <2>10. ScreenOK'
    BY <1>0, <1>1, <1>4 DEF ScreenOK
  <2>. QED
    BY <1>0, <1>1, <2>2, <2>3, <2>6, <2>7, <2>8, <2>9, <2>10, JobMoves, Parts DEF IInv, All, Goes
<1>. QED
  BY <1>2, <1>3, <1>4 DEF Picked

\* The jobs are as they were, but for who is alone.
LEMMA CrowdedJobs ==
    ASSUME IInv
    PROVE  /\ Crowded \in [All -> Job]
           /\ \A i \in All :
                 /\ Sound(Crowded[i])
                 /\ Shares(Crowded[i]) <=> Shares(job[i])
                 /\ Crowded[i].at = job[i].at /\ Crowded[i].kind = job[i].kind
                 /\ Crowded[i] = [job[i] EXCEPT !.alone = FALSE] \/ Crowded[i] = job[i]
                 /\ i \in Jobs /\ Crowded[i].alone => ~Shares(job[i]) /\ Keeps(Crowded[i])
<1>0. job \in [All -> Job]
  BY JobFacts DEF All, IInv, TypeOK
<1>1. ASSUME NEW i \in All
      PROVE  /\ Crowded[i] \in Job /\ Sound(Crowded[i])
             /\ Shares(Crowded[i]) <=> Shares(job[i])
             /\ Crowded[i].at = job[i].at /\ Crowded[i].kind = job[i].kind
             /\ Crowded[i] = [job[i] EXCEPT !.alone = FALSE] \/ Crowded[i] = job[i]
             /\ i \in Jobs /\ Crowded[i].alone => ~Shares(job[i]) /\ Keeps(Crowded[i])
  <2>1. job[i] \in Job /\ Sound(job[i]) /\ (i \in Jobs /\ job[i].alone => Keeps(job[i]))
    BY JobFacts
  <2>2. Crowded[i] = IF i \in Sharing THEN [job[i] EXCEPT !.alone = FALSE] ELSE job[i]
    BY <1>0 DEF Crowded
  <2>3. CASE i \in Sharing
    <3>1. Crowded[i] = [job[i] EXCEPT !.alone = FALSE]
      BY <2>2, <2>3
    <3>2. Crowded[i] \in Job /\ ~Crowded[i].alone
          /\ Crowded[i].at = job[i].at /\ Crowded[i].kind = job[i].kind
      BY <2>1, <3>1 DEF Job
    <3>3. Sound(Crowded[i])
      BY <2>1, <3>1 DEF Job, Sound
    <3>. QED
      BY <3>1, <3>2, <3>3 DEF Shares
  <2>4. CASE i \notin Sharing
    BY <2>1, <2>2, <2>4 DEF Sharing
  <2>. QED
    BY <2>3, <2>4
<1>2. DOMAIN Crowded = All
  BY <1>0 DEF Crowded
<1>3. Crowded \in [All -> Job]
  BY <1>0, <1>1, <1>2 DEF Crowded
<1>. QED
  BY <1>1, <1>3

\* A form that is opened: the jobs that still look at what it takes are alone no more.
LEMMA OpensStep ==
    ASSUME IInv, NEW f \in {"edit", "transcript"}, NEW c \in Chronicles \cup {None},
           Opens(f, c), Remembers(c),
           \/ f = "transcript" /\ UNCHANGED fields
           \/ /\ f = "edit" /\ c # None
              /\ \E title, duration \in Values :
                    fields' = [of |-> c, title |-> title, duration |-> duration]
    PROVE  IInv'
<1>0. /\ job \in [All -> Job] /\ ArchiveOK /\ ScreenOK /\ JobsOK /\ CountsOK
      /\ pending' = c
  BY Parts DEF IInv, JobsOK, Remembers
<1>. DEFINE opened == [open |-> TRUE, shown |-> TRUE, for |-> c,
                       alone |-> Sharing = {} /\ NoneOpenBut(f)]
<1>1. /\ form' = [CrowdedForms EXCEPT ![f] = opened]
      /\ job' = Crowded
      /\ UNCHANGED <<row, raced>> /\ ArchiveOK' /\ CountsOK'
  BY <1>0 DEF Opens, archive, ArchiveOK, CountsOK
<1>2. /\ opened \in Form /\ opened.open /\ opened.shown /\ opened.for = c
      /\ opened.alone <=> Sharing = {} /\ NoneOpenBut(f)
  BY DEF Form, NoneOpenBut
<1>. HIDE DEF opened
<1>3. ASSUME NEW g \in {"edit", "transcript"}
      PROVE  /\ form'[g] = IF g = f THEN opened ELSE [form[g] EXCEPT !.alone = FALSE]
             /\ form'[g] \in Form
             /\ form'[g].open => form'[g].shown
             /\ g # f => form'[g].open = form[g].open /\ ~form'[g].alone
  <2>1. form[g] \in Form /\ DOMAIN form = {"edit", "transcript"} /\ (form[g].open => form[g].shown)
    BY <1>0 DEF ScreenOK
  <2>2. form'[g] = IF g = f THEN opened ELSE [form[g] EXCEPT !.alone = FALSE]
    BY <1>1, <2>1 DEF CrowdedForms
  <2>. QED
    BY <1>2, <2>1, <2>2 DEF Form
<1>4. ScreenOK'
  <2>1. DOMAIN form' = {"edit", "transcript"}
    BY <1>0, <1>1 DEF ScreenOK, CrowdedForms
  <2>2. form' \in [{"edit", "transcript"} -> Form]
    BY <1>0, <1>1, <1>3, <2>1 DEF ScreenOK, CrowdedForms
  <2>3. fields' \in [of : Chronicles \cup {None}, title : Values, duration : Values]
    BY <1>0 DEF ScreenOK
  <2>. QED
    BY <1>0, <1>3, <2>2, <2>3 DEF ScreenOK
<1>5. JobsOK'
  BY <1>0, <1>1, CrowdedJobs DEF JobsOK, All
<1>6. Sharing' = Sharing
  BY <1>1, CrowdedJobs DEF Sharing, All
<1>7. FormsAlone'
  <2>. SUFFICES ASSUME NEW g \in {"edit", "transcript"}, form'[g].open, form'[g].alone
                PROVE  /\ Sharing' = {} /\ NoneOpenBut(g)'
                       /\ pending' = form'[g].for
                       /\ g = "edit" => fields'.of = form'[g].for /\ pending' # None
    BY DEF FormsAlone
  <2>1. g = f /\ form'[g] = opened
    BY <1>3
  <2>2. NoneOpenBut(g)'
    BY <1>2, <1>3, <2>1 DEF NoneOpenBut
  <2>. QED
    BY <1>0, <1>2, <1>6, <2>1, <2>2
<1>8. JobsAlone'
  BY <1>1, <1>6, CrowdedJobs DEF JobsAlone, Sharing, All
<1>9. FormsKeepTheirChronicle'
  BY <1>1, CrowdedJobs DEF FormsKeepTheirChronicle, All
<1>10. \A i \in All : Fresh(i)'
  BY <1>1, CopiesStay, CrowdedJobs
<1>. QED
  BY <1>1, <1>4, <1>5, <1>7, <1>8, <1>9, <1>10, Parts DEF IInv, All

\* A form that is closed, and nothing of it goes on.
LEMMA CloseStep ==
    ASSUME IInv, NEW f \in {"edit", "transcript"},
           form' = [form EXCEPT ![f].open = FALSE],
           UNCHANGED <<archive, fields, pending, job, clicks, raced>>
    PROVE  IInv'
<1>0. ArchiveOK /\ ScreenOK /\ JobsOK /\ CountsOK
  BY Parts DEF IInv
<1>1. UNCHANGED row
  BY DEF archive
<1>2. \A g \in {"edit", "transcript"} :
         /\ form'[g] \in Form /\ form'[g].for = form[g].for /\ form'[g].alone = form[g].alone
         /\ form'[g].shown = form[g].shown
         /\ form'[g].open => form[g].open
  BY <1>0 DEF ScreenOK, Form
<1>3. ArchiveOK' /\ JobsOK' /\ CountsOK'
  BY <1>0 DEF ArchiveOK, JobsOK, CountsOK, archive
<1>4. ScreenOK'
  BY <1>0, <1>2 DEF ScreenOK
<1>5. Sharing' = Sharing
  BY DEF Sharing
<1>6. FormsAlone' /\ JobsAlone' /\ FormsKeepTheirChronicle'
  BY <1>2, <1>5 DEF IInv, FormsAlone, JobsAlone, FormsKeepTheirChronicle, NoneOpenBut
<1>7. \A i \in All : Fresh(i)'
  BY <1>1, CopiesStay
<1>. QED
  BY <1>3, <1>4, <1>6, <1>7, Parts DEF IInv, All

LEMMA CancelStep ==
    ASSUME IInv, NEW f \in {"edit", "transcript"}, Cancel(f)
    PROVE  IInv'
BY CloseStep DEF Cancel

\* A form that is closed to go on: what it was alone with, its job is.
LEMMA HandedOver ==
    ASSUME IInv, NEW f \in {"edit", "transcript"}, form[f].open,
           form' = [form EXCEPT ![f].open = FALSE], UNCHANGED <<archive, fields, clicks, raced>>,
           NEW j \in Jobs, NEW r \in Job, Goes(j, r), job[j].at = "none",
           r.for = form[f].for, r.alone = form[f].alone, Sound(r), Shares(r),
           \/ r.kind = "edit" /\ f = "edit" /\ r.on = pending /\ pending' = None
           \/ r.kind = "transcript" /\ UNCHANGED pending
    PROVE  IInv'
<1>0. /\ job \in [All -> Job] /\ ArchiveOK /\ ScreenOK /\ JobsOK /\ CountsOK
      /\ j \in All /\ j # Worker /\ r.at \in {"get", "pick"}
      /\ job' = [job EXCEPT ![j] = r]
      /\ UNCHANGED row
  BY JobFacts DEF All, Goes, Shares, archive
<1>1. ASSUME NEW g \in {"edit", "transcript"}
      PROVE  /\ form'[g] \in Form /\ (form'[g].open => form'[g].shown)
             /\ form'[g].open => g # f /\ form[g].open /\ form'[g] = form[g]
  <2>1. /\ form'[g] \in Form /\ form'[g].shown = form[g].shown
        /\ form'[g].open => g # f /\ form[g].open
    BY <1>0 DEF ScreenOK, Form
  <2>2. g # f => form'[g] = form[g]
    BY <1>0 DEF ScreenOK
  <2>. QED
    BY <1>0, <2>1, <2>2 DEF ScreenOK
<1>2. ArchiveOK' /\ CountsOK' /\ JobsOK' /\ ScreenOK'
  <2>1. ScreenOK'
    BY <1>0, <1>1 DEF ScreenOK
  <2>. QED
    BY <1>0, <2>1, JobMoves DEF archive, ArchiveOK, CountsOK, Fits
<1>3. FormsAlone'
  BY <1>1 DEF IInv, FormsAlone, NoneOpenBut
<1>4. \A i \in Sharing : ~job[i].alone
  BY DEF IInv, JobsAlone
<1>5. form[f].alone => /\ Sharing = {} /\ NoneOpenBut(f) /\ pending = form[f].for
                       /\ f = "edit" => fields.of = form[f].for
  BY DEF IInv, FormsAlone
<1>6. ASSUME NEW i \in Jobs, i # j PROVE job'[i] = job[i]
  BY <1>0, <1>6 DEF All
<1>7. j \in Sharing' /\ job'[j] = r
  BY <1>0 DEF Sharing
<1>8. JobsAlone'
  <2>. SUFFICES ASSUME NEW i \in Sharing', job'[i].alone
                PROVE  /\ Sharing' = {i}
                       /\ \A g \in {"edit", "transcript"} : ~form'[g].open
                       /\ job'[i].kind = "edit" => job'[i].on = job'[i].for /\ fields'.of = job'[i].for
                       /\ job'[i].kind = "transcript" => pending' = job'[i].for
    BY DEF JobsAlone
  <2>1. i = j
    BY <1>4, <1>6 DEF Sharing
  <2>2. Sharing = {} /\ NoneOpenBut(f)
    BY <1>5, <1>7, <2>1
  <2>3. Sharing' = {j}
    BY <1>6, <1>7, <2>2 DEF Sharing
  <2>4. \A g \in {"edit", "transcript"} : ~form'[g].open
    BY <1>1, <2>2 DEF NoneOpenBut
  <2>. QED
    BY <1>5, <1>7, <2>1, <2>3, <2>4
<1>9. FormsKeepTheirChronicle'
  <2>1. r.alone => Keeps(r)
    BY <1>0, <1>5 DEF Keeps
  <2>. QED
    BY <1>6, <1>7, <2>1 DEF IInv, FormsKeepTheirChronicle
<1>10. \A i \in All : Fresh(i)'
  BY <1>0, FreshStays
<1>. QED
  BY <1>2, <1>3, <1>8, <1>9, <1>10, Parts DEF IInv, All

\* A form that is closed and answered again: nobody has what the forms share to itself.
LEMMA AnsweredAgain ==
    ASSUME IInv, form' = CrowdedForms, UNCHANGED <<archive, fields, raced>>,
           clicks' \in 0 .. MaxClicks, pending' \in {pending, None},
           NEW j \in Jobs, NEW r \in Job, job' = [Crowded EXCEPT ![j] = r],
           ~r.alone, Sound(r), r.at \notin {"select", "write"}
    PROVE  IInv'
<1>0. /\ ArchiveOK /\ ScreenOK /\ JobsOK /\ CountsOK
      /\ j \in All /\ j # Worker /\ UNCHANGED row
  BY JobFacts DEF All, archive
<1>1. ASSUME NEW g \in {"edit", "transcript"}
      PROVE  form'[g] \in Form /\ (form'[g].open => form'[g].shown) /\ ~form'[g].alone
  <2>1. form[g] \in Form /\ (form[g].open => form[g].shown)
    BY <1>0 DEF ScreenOK
  <2>2. form'[g] = [form[g] EXCEPT !.alone = FALSE]
    BY <1>0 DEF ScreenOK, CrowdedForms
  <2>. QED
    BY <2>1, <2>2 DEF Form
<1>2. ArchiveOK' /\ CountsOK'
  BY <1>0 DEF archive, ArchiveOK, CountsOK
<1>3. ScreenOK'
  <2>1. form' \in [{"edit", "transcript"} -> Form]
    BY <1>0, <1>1 DEF ScreenOK, CrowdedForms
  <2>. QED
    BY <1>0, <1>1, <2>1 DEF ScreenOK
<1>4. ASSUME NEW i \in All PROVE job'[i] = IF i = j THEN r ELSE Crowded[i]
  BY <1>0, CrowdedJobs
<1>5. JobsOK'
  <2>1. job' \in [All -> Job]
    BY <1>0, CrowdedJobs
  <2>. QED
    BY <1>0, <1>4, <2>1, CrowdedJobs DEF JobsOK, All
<1>6. FormsAlone'
  BY <1>1 DEF FormsAlone
<1>7. JobsAlone' /\ FormsKeepTheirChronicle'
  BY <1>4, CrowdedJobs DEF JobsAlone, FormsKeepTheirChronicle, Sharing, All
<1>8. ASSUME NEW i \in All PROVE Fresh(i)'
  <2>1. CASE i = j
    BY <1>4, <2>1 DEF Fresh
  <2>2. CASE i # j
    <3>1. Fresh(i) /\ job[i] \in Job
      BY JobFacts
    <3>2. /\ job'[i].at = job[i].at /\ job'[i].on = job[i].on /\ job'[i].kind = job[i].kind
          /\ job'[i].copy = job[i].copy /\ job'[i].base = job[i].base
      BY <1>4, <2>2, <3>1, CrowdedJobs DEF Job
    <3>. QED
      BY <1>0, <3>1, <3>2 DEF Fresh
  <2>. QED
    BY <2>1, <2>2
<1>. QED
  BY <1>2, <1>3, <1>5, <1>6, <1>7, <1>8, Parts DEF IInv, All

\* The button of a form, the first time or again.
LEMMA AnswerStep ==
    ASSUME IInv, NEW f \in {"edit", "transcript"}, NEW j \in Jobs, NEW r \in Job,
           Answers(f, j, r), job[j].at = "none", UNCHANGED <<archive, fields, raced>>,
           r.for = form[f].for, ~r.alone, Sound(r), Shares(r),
           \/ r.kind = "edit" /\ f = "edit" /\ r.on = pending /\ pending' = None
           \/ r.kind = "transcript" /\ UNCHANGED pending
    PROVE  IInv'
<1>1. CASE form[f].open
  <2>. DEFINE s == [r EXCEPT !.alone = form[f].alone]
  <2>1. /\ s \in Job /\ Sound(s) /\ Shares(s)
        /\ s.kind = r.kind /\ s.on = r.on /\ s.for = r.for /\ s.alone = form[f].alone
    BY Parts DEF IInv, ScreenOK, Form, Job, Sound, Shares
  <2>2. /\ form' = [form EXCEPT ![f].open = FALSE] /\ Goes(j, s)
        /\ UNCHANGED <<archive, fields, clicks, raced>>
    BY <1>1 DEF Answers
  <2>. HIDE DEF s
  <2>. QED
    BY <1>1, <2>1, <2>2, HandedOver
<1>2. CASE ~form[f].open
  <2>1. clicks' \in 0 .. MaxClicks /\ form' = CrowdedForms /\ job' = [Crowded EXCEPT ![j] = r]
    BY <1>2 DEF Answers, IInv, TypeOK
  <2>2. r.at \notin {"select", "write"} /\ pending' \in {pending, None}
    BY DEF Shares
  <2>. QED
    BY <2>1, <2>2, AnsweredAgain
<1>. QED
  BY <1>1, <1>2

LEMMA SaveStep ==
    ASSUME IInv, NEW j \in Jobs, Save(j)
    PROVE  IInv'
<1>1. CASE pending = None
  BY <1>1, CloseStep DEF Save
<1>2. CASE pending # None
  <2>. DEFINE r == [Idle EXCEPT !.kind = "edit", !.at = "get", !.on = pending,
                                !.for = form["edit"].for]
  <2>0. ScreenOK
    BY Parts DEF IInv
  <2>1. /\ r \in Job /\ Sound(r) /\ Shares(r) /\ ~r.alone
        /\ r.kind = "edit" /\ r.on = pending /\ r.for = form["edit"].for
    BY <1>2, <2>0, IdleSound DEF Job, Sound, Shares, Idle, Kinds, Places, Own, ScreenOK, Form
  <2>2. Answers("edit", j, r) /\ job[j].at = "none" /\ pending' = None
        /\ UNCHANGED <<archive, fields, raced>>
    BY <1>2 DEF Save
  <2>. HIDE DEF r
  <2>. QED
    BY <2>1, <2>2, AnswerStep
<1>. QED
  BY <1>1, <1>2

LEMMA ChooseTranscriptStep ==
    ASSUME IInv, NEW j \in Jobs, ChooseTranscript(j)
    PROVE  IInv'
<1>0. ScreenOK
  BY Parts DEF IInv
<1>. DEFINE r == [Idle EXCEPT !.kind = "transcript", !.at = "pick", !.for = form["transcript"].for]
<1>1. /\ r \in Job /\ Sound(r) /\ Shares(r) /\ ~r.alone
      /\ r.kind = "transcript" /\ r.for = form["transcript"].for
  BY <1>0, IdleSound DEF Job, Sound, Shares, Idle, Kinds, Places, ScreenOK, Form
<1>2. Answers("transcript", j, r) /\ job[j].at = "none"
      /\ UNCHANGED <<archive, fields, pending, raced>>
  BY DEF ChooseTranscript
<1>. HIDE DEF r
<1>. QED
  BY <1>1, <1>2, AnswerStep

-----------------------------------------------------------------------------
(* The theorems *)

LEMMA NextInv == IInv /\ [Next]_vars => IInv'
<1>. SUFFICES ASSUME IInv, [Next]_vars PROVE IInv'
  OBVIOUS
<1>1. CASE UNCHANGED vars
  BY <1>1 DEF vars, archive, screen, IInv, TypeOK, FormsAlone, JobsAlone,
              FormsKeepTheirChronicle, Fresh, Sharing, NoneOpenBut
<1>2. ASSUME NEW c \in Chronicles, NEW title \in Values, NEW duration \in Values,
             BeginEdit(c, title, duration)
      PROVE  IInv'
  BY <1>2, OpensStep DEF BeginEdit
<1>3. ASSUME NEW c \in Chronicles \cup {None}, BeginTranscriptImport(c) PROVE IInv'
  BY <1>3, OpensStep DEF BeginTranscriptImport
<1>4. ASSUME NEW f \in {"edit", "transcript"}, Cancel(f) PROVE IInv'
  BY <1>4, CancelStep
<1>5. ASSUME NEW j \in Jobs, Begins(j) PROVE IInv'
  BY <1>5, SaveStep, ChooseTranscriptStep, ClicksStep DEF Begins
<1>6. ASSUME NEW j \in All, GoesOn(j) PROVE IInv'
  BY <1>6, GetStep, SelectStep, WriteStep, PickedStep, QuietStep, DeleteStep, CreateStep
     DEF GoesOn
<1>7. ASSUME NEW t \in queued, Settle(t) PROVE IInv'
  BY <1>7, SettleStep
<1>. QED
  BY <1>1, <1>2, <1>3, <1>4, <1>5, <1>6, <1>7 DEF Next, All

\* The invariant the theorems below rest on: types, the forms that are alone, and the
\* copies of rows that are not old.
THEOREM OperationsInductive == Spec => []IInv
<1>. QED
  BY InitInv, NextInv, PTL DEF Spec

\* A job has what its place needs, and a form that is open was shown.
THEOREM OperationTypes == Spec => []TypeOK
<1>1. IInv => TypeOK
  BY DEF IInv
<1>. QED
  BY <1>1, OperationsInductive, PTL

\* An edit or an import goes to the chronicle its form was opened for, as long as no other
\* form is opened and none is answered a second time in between, whatever else runs meanwhile.
THEOREM FormsKeep == Spec => []FormsKeepTheirChronicle
<1>1. IInv => FormsKeepTheirChronicle
  BY DEF IInv
<1>. QED
  BY <1>1, OperationsInductive, PTL

LEMMA WriterLeaves ==
    ASSUME IInv, NEW j \in All, Write(j) \/ UNCHANGED row
    PROVE  Leaves(j)
<1>1. CASE UNCHANGED row
  BY <1>1 DEF Leaves
<1>2. CASE Write(j) /\ InArchive(job[j].on)
  <2>1. row' = [row EXCEPT ![job[j].on] = Written(j)] /\ row \in [Chronicles -> Row \cup {Absent, Gone}]
    BY <1>2, JobFacts DEF Write, ArchiveOK
  <2>2. j \notin raced => \A k \in Columns \ Own[job[j].kind] : Written(j)[k] = row[job[j].on][k]
    BY <1>2, WrittenRow DEF Write
  <2>. QED
    BY <2>1, <2>2 DEF Leaves
<1>3. CASE Write(j) /\ ~InArchive(job[j].on)
  BY <1>1, <1>3 DEF Write
<1>. QED
  BY <1>1, <1>2, <1>3

\* A job in the middle of a write stays there in the steps of the others.
LEMMA OthersLeave ==
    ASSUME IInv, NEW j \in All, NEW i \in All, i # j, NEW r, Goes(i, r)
    PROVE  Leaves(j)
BY JobFacts DEF Leaves, Goes

LEMMA StepLeaves ==
    ASSUME IInv, Next, NEW j \in All
    PROVE  Leaves(j)
<1>0. job \in [All -> Job]
  BY JobFacts
<1>1. ASSUME NEW c \in Chronicles, NEW title \in Values, NEW duration \in Values,
             BeginEdit(c, title, duration)
      PROVE  Leaves(j)
  BY <1>1, WriterLeaves DEF BeginEdit, Opens, archive
<1>2. ASSUME NEW c \in Chronicles \cup {None}, BeginTranscriptImport(c) PROVE Leaves(j)
  BY <1>2, WriterLeaves DEF BeginTranscriptImport, Opens, archive
<1>3. ASSUME NEW f \in {"edit", "transcript"}, Cancel(f) PROVE Leaves(j)
  BY <1>3, WriterLeaves DEF Cancel, archive
<1>4. ASSUME NEW i \in Jobs, Begins(i) PROVE Leaves(j)
  <2>1. UNCHANGED row
    BY <1>4 DEF Begins, Save, ChooseTranscript, ChooseProject, New, ChooseAudio, Identify, Ask, archive
  <2>. QED
    BY <2>1, WriterLeaves
<1>5. ASSUME NEW i \in All, GoesOn(i) PROVE Leaves(j)
  <2>1. ASSUME NEW c \in Chronicles, Create(i, c) PROVE Leaves(j)
    <3>1. i # j \/ job[j].at # "write"
      BY <2>1 DEF Create
    <3>. QED
      BY <2>1, <3>1, OthersLeave DEF Create, Ends, Leaves
  <2>2. CASE Delete(i)
    <3>1. i # j \/ job[j].at # "write"
      BY <2>2 DEF Delete
    <3>. QED
      BY <2>2, <3>1, OthersLeave DEF Delete, To, Leaves
  <2>3. CASE Write(i)
    <3>1. CASE i = j
      BY <2>3, <3>1, WriterLeaves
    <3>2. CASE i # j
      BY <2>3, <3>2, OthersLeave DEF Write, AfterRow, Ends
    <3>. QED
      BY <3>1, <3>2
  <2>4. CASE \/ Get(i) \/ Select(i) \/ Picked(i) \/ Staged(i) \/ Add(i) \/ LookAtLines(i)
             \/ Asked(i) \/ Queue(i) \/ Confirmed(i) \/ Remove(i) \/ Raises(i)
    <3>1. UNCHANGED row
      BY <2>4 DEF Get, Select, Picked, Staged, Add, LookAtLines, Asked, Queue, Confirmed, Remove,
                  Raises, archive
    <3>. QED
      BY <3>1, WriterLeaves
  <2>. QED
    BY <1>5, <2>1, <2>2, <2>3, <2>4 DEF GoesOn
<1>6. ASSUME NEW t \in queued, Settle(t) PROVE Leaves(j)
  BY <1>6, WriterLeaves DEF Settle
<1>. QED
  BY <1>1, <1>2, <1>3, <1>4, <1>5, <1>6 DEF Next, All

\* A writer leaves the columns that are not its own as they are in the archive when it writes,
\* unless one of them was changed between its two reads of the row.
THEOREM OthersColumnsKept == Spec => OthersColumnsStay
<1>1. ASSUME IInv, [Next]_vars
      PROVE  [\A j \in DOMAIN job : Leaves(j)]_vars
  <2>1. DOMAIN job = All
    BY <1>1 DEF IInv, TypeOK, All
  <2>2. CASE Next
    <3>1. \A j \in All : Leaves(j)
      BY <1>1, <2>2, StepLeaves
    <3>. QED
      BY <2>1, <3>1
  <2>. QED
    BY <1>1, <2>2
<1>. QED
  BY <1>1, OperationsInductive, PTL DEF Spec, OthersColumnsStay

=============================================================================

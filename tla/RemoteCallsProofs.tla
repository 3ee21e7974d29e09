--------------------------- MODULE RemoteCallsProofs ---------------------------
(***************************************************************************)
(* An import over the network keeps what an import promises, for any       *)
(* clicks, clients, names, chronicles and versions, and any number of      *)
(* deaths of the server: RemoteCalls implements ImportPromise.             *)
(***************************************************************************)
EXTENDS RemoteCalls, TLAPS

USE RemoteAssumption

LEMMA InitInv == Init => IInv
<1>. SUFFICES ASSUME Init PROVE IInv
  OBVIOUS
<1>1. TypeOK
  BY DEF Init, TypeOK, NoRequest, Calls, Content, Knowledge, Request, Chronicles
<1>2. \A c \in Clicks : TracksOf(c) = {} /\ TasksOf(c) = {}
  BY DEF Init, TracksOf, TasksOf
<1>. QED
  BY <1>1, <1>2 DEF Init, IInv, Staged, InStep, Kept, HoldsNothing, NoRequest

-----------------------------------------------------------------------------
(* An import is not disturbed by what leaves its call, its request, its file *)
(* and what it stored alone.                                                 *)

LEMMA Undisturbed ==
    ASSUME NEW c \in Clicks, InStep(c), Kept(c),
           click'[c] = click[c], request'[c] = request[c], imports'[c] = imports[c],
           TracksOf(c)' = TracksOf(c), TasksOf(c)' = TasksOf(c)
    PROVE  InStep(c)' /\ Kept(c)'
<1>1. InStep(c)'
  BY DEF InStep, Picked, Half
<1>2. HoldsNothing(c)' = HoldsNothing(c)
  BY DEF HoldsNothing
<1>3. ASSUME NEW file, HoldsOnce(c, file) PROVE HoldsOnce(c, file)'
  BY <1>3 DEF HoldsOnce, Kept
<1>4. Kept(c)'
  BY <1>2, <1>3 DEF Kept, Picked, Half
<1>. QED
  BY <1>1, <1>4

-----------------------------------------------------------------------------
(* Types *)

LEMMA TypeClient ==
    ASSUME IInv, NEW c \in Clicks, ClientStep(c)
    PROVE  TypeOK'
<1>0. /\ click[c] \in Knowledge /\ request[c] \in Request
      /\ c \in Chronicles /\ None \in Chronicles \cup {None}
  BY DEF IInv, TypeOK, Chronicles
<1>1. ASSUME NEW call \in Calls, NEW path \in Clicks \cup {None}, NEW in \in Chronicles \cup {None},
             Post(c, call, path, in)
      PROVE  request' \in [Clicks -> Request]
  BY <1>1 DEF IInv, TypeOK, Post, NoRequest, Request, Calls
<1>2. ASSUME NEW know \in Knowledge, know.big = click[c].big, click' = [click EXCEPT ![c] = know],
             request' \in [Clicks -> Request], UNCHANGED <<app, server, crashes>>
      PROVE  TypeOK'
  BY <1>2 DEF IInv, TypeOK, server, Content
<1>7. click \in [Clicks -> Knowledge] /\ request \in [Clicks -> Request]
  BY DEF IInv, TypeOK
<1>3. CASE Click(c)
  <2>. DEFINE know == [click[c] EXCEPT !.told = "waiting"]
  <2>1. know \in Knowledge /\ know.big = click[c].big /\ click' = [click EXCEPT ![c] = know]
    BY <1>3, <1>0, <1>7 DEF Click, Knowledge
  <2>2. request' \in [Clicks -> Request]
    BY <1>1, <1>3 DEF Click, Calls
  <2>. QED
    BY <1>2, <1>3, <2>1, <2>2 DEF Click
<1>4. CASE Answered(c)
  <2>0. UNCHANGED <<app, server, crashes>>
    BY <1>4 DEF Answered
  <2>1. ASSUME NEW told \in {"failed", "done"}, click' = [click EXCEPT ![c].told = told],
               UNCHANGED request
        PROVE  TypeOK'
    <3>. DEFINE know == [click[c] EXCEPT !.told = told]
    <3>1. know \in Knowledge /\ know.big = click[c].big /\ click' = [click EXCEPT ![c] = know]
      BY <2>1, <1>0, <1>7 DEF Knowledge
    <3>. QED
      BY <1>2, <1>7, <2>0, <2>1, <3>1
  <2>2. ASSUME NEW call \in Calls, NEW path \in Clicks \cup {None},
               NEW in \in Chronicles \cup {None}, Post(c, call, path, in),
               NEW learnt \in Clicks \cup {None},
               click' = [click EXCEPT ![c].call = call, ![c].path = learnt]
        PROVE  TypeOK'
    <3>. DEFINE know == [click[c] EXCEPT !.call = call, !.path = learnt]
    <3>1. know \in Knowledge /\ know.big = click[c].big /\ click' = [click EXCEPT ![c] = know]
      BY <2>2, <1>0, <1>7 DEF Knowledge
    <3>. QED
      BY <1>1, <1>2, <2>0, <2>2, <3>1
  <2>3. ASSUME NEW call \in Calls, NEW path \in Clicks \cup {None},
               NEW in \in Chronicles \cup {None}, Post(c, call, path, in),
               click' = [click EXCEPT ![c].call = call, ![c].in = in]
        PROVE  TypeOK'
    <3>. DEFINE know == [click[c] EXCEPT !.call = call, !.in = in]
    <3>1. know \in Knowledge /\ know.big = click[c].big /\ click' = [click EXCEPT ![c] = know]
      BY <2>3, <1>0, <1>7 DEF Knowledge
    <3>. QED
      BY <1>1, <1>2, <2>0, <2>3, <3>1
  <2>4. /\ {"create", Last(c)} \subseteq Calls
        /\ {None, request[c].path, click[c].path} \subseteq Clicks \cup {None}
        /\ {None, request[c].in, click[c].in} \subseteq Chronicles \cup {None}
    BY <1>0 DEF Last, Calls, Request, Knowledge
  <2>. QED
    BY <1>4, <2>1, <2>2, <2>3, <2>4 DEF Answered
<1>5. CASE Lost(c)
  <2>. DEFINE know == [click[c] EXCEPT !.told = "failed"]
  <2>1. know \in Knowledge /\ know.big = click[c].big /\ click' = [click EXCEPT ![c] = know]
    BY <1>5, <1>0, <1>7 DEF Lost, Knowledge
  <2>2. NoRequest \in Request
    BY DEF NoRequest, Request, Calls
  <2>3. request' \in [Clicks -> Request]
    BY <1>5, <1>7, <2>2 DEF Lost
  <2>. QED
    BY <1>2, <1>5, <2>1, <2>3 DEF Lost
<1>. QED
  BY <1>3, <1>4, <1>5 DEF ClientStep

LEMMA TypeServer ==
    ASSUME IInv, NEW c \in Clicks, ServerStep(c)
    PROVE  TypeOK'
<1>. USE DEF IInv, TypeOK
<1>0. request[c] \in Request /\ c \in Chronicles
  BY DEF Chronicles
<1>1. CASE Open(c)
  <2>1. [of |-> c, whole |-> FALSE] \in Content
    BY DEF Content
  <2>2. [request[c] EXCEPT !.at = "writing", !.path = c] \in Request
    BY <1>0 DEF Request
  <2>. QED
    BY <1>1, <2>1, <2>2 DEF Open, StageName
<1>2. CASE Write(c)
  <2>1. [of |-> c, whole |-> TRUE] \in Content /\ request[c].path = c
    BY <1>2 DEF Write, Writing, InStep, Content
  <2>2. [request[c] EXCEPT !.at = "answer", !.ok = TRUE] \in Request
    BY <1>0 DEF Request
  <2>3. /\ request' \in [Clicks -> Request]
        /\ imports' \in [Clicks -> Content \cup {None}]
        /\ ~click[c].big
    BY <1>2, <2>1, <2>2 DEF Write, Writing
  <2>4. \A p \in Clicks : imports'[p] # None /\ imports'[p].whole => ~click[imports'[p].of].big
    BY <1>2, <2>1, <2>3 DEF Write, Writing
  <2>. QED
    BY <1>2, <2>3, <2>4 DEF Write, Writing
<1>3. CASE Refuse(c)
  <2>1. [request[c] EXCEPT !.at = "answer", !.ok = FALSE] \in Request
    BY <1>0 DEF Request
  <2>2. request' \in [Clicks -> Request]
    BY <1>3, <2>1 DEF Refuse, Writing, Raises
  <2>3. /\ imports' \in [Clicks -> Content \cup {None}]
        /\ \A p \in Clicks : imports'[p] # None => imports'[p] = imports[p]
    BY <1>3 DEF Refuse, Writing
  <2>. QED
    BY <1>3, <2>2, <2>3 DEF Refuse, Writing
<1>4. CASE WriteFails(c)
  BY <1>4, <1>0 DEF WriteFails, Writing, Raises, Request
<1>5. CASE Scope(c) \/ MethodFails(c) \/ Close(c)
  BY <1>5, <1>0 DEF Scope, MethodFails, Close, Goes, Raises, server, Request
<1>6. CASE CreateChronicle(c)
  BY <1>6, <1>0 DEF CreateChronicle, Runs, Request
<1>7. CASE QueueImport(c)
  <2>1. request[c].path \in Clicks /\ request[c].in \in Chronicles
    BY <1>7, <1>0 DEF QueueImport, Runs, InStep, Request
  <2>2. [request[c] EXCEPT !.at = "close", !.ok = TRUE] \in Request
    BY <1>0 DEF Request
  <2>. QED
    BY <1>7, <2>1, <2>2 DEF QueueImport, Runs, Returns
<1>8. ASSUME NEW n \in 0 .. MaxNumber, AddAudioSource(c, n) \/ MoveFails(c, n) PROVE TypeOK'
  <2>1. request[c].path \in Clicks /\ request[c].in \in Chronicles
    BY <1>8, <1>0 DEF AddAudioSource, MoveFails, Runs, InStep, Request
  <2>2. imports[request[c].path] \in Content
    BY <1>8, <2>1 DEF AddAudioSource, MoveFails
  <2>3. \A file \in Content : Track(c, n, file) \in Tracks
    BY <2>1 DEF Track, Tracks
  <2>4. CASE AddAudioSource(c, n)
    BY <2>4, <1>0, <2>1, <2>2, <2>3 DEF AddAudioSource, Runs, Returns, Request
  <2>5. CASE MoveFails(c, n)
    <3>1. [of |-> imports[request[c].path].of, whole |-> FALSE] \in Content
      BY <2>2 DEF Content
    <3>. QED
      BY <2>5, <1>0, <2>1, <2>3, <3>1 DEF MoveFails, Runs, Raises, Request
  <2>. QED
    BY <1>8, <2>4, <2>5
<1>. QED
  BY <1>1, <1>2, <1>3, <1>4, <1>5, <1>6, <1>7, <1>8 DEF ServerStep

-----------------------------------------------------------------------------
(* What a step of one click does to that click; the others are undisturbed.  *)

LEMMA ClientKeeps ==
    ASSUME IInv, NEW c \in Clicks, ClientStep(c)
    PROVE  InStep(c)' /\ Kept(c)'
<1>0. /\ click \in [Clicks -> Knowledge] /\ request \in [Clicks -> Request]
      /\ click[c] \in Knowledge /\ request[c] \in Request
      /\ InStep(c) /\ Kept(c)
  BY DEF IInv, TypeOK
<1>1. UNCHANGED <<sources, tasks, imports>>
  BY DEF ClientStep, Click, Answered, Lost, server
<1>2. HoldsNothing(c)' = HoldsNothing(c) /\ TasksOf(c)' = TasksOf(c)
  BY <1>1 DEF HoldsNothing, TracksOf, TasksOf
<1>3. \A file : HoldsOnce(c, file)' = HoldsOnce(c, file)
  BY <1>1 DEF HoldsOnce, TracksOf, TasksOf
<1>4. /\ HoldsOnce(c, Picked(c))' = HoldsOnce(c, Picked(c))
      /\ HoldsOnce(c, Half(c))' = HoldsOnce(c, Half(c))
      /\ Picked(c)' = Picked(c) /\ Half(c)' = Half(c)
  BY <1>3 DEF Picked, Half
<1>5. ASSUME NEW call, NEW path, NEW in, Post(c, call, path, in)
      PROVE  \/ request'[c] = NoRequest
             \/ request'[c] = [what |-> call, at |-> "sent", path |-> path, in |-> in, ok |-> FALSE]
  BY <1>0, <1>5 DEF Post
<1>6. CASE Click(c)
  <2>1. click'[c] = [click[c] EXCEPT !.told = "waiting"] /\ click[c].call = "upload"
    BY <1>0, <1>6 DEF Click, InStep
  <2>2. \/ request'[c] = NoRequest
        \/ request'[c] = [what |-> "upload", at |-> "sent", path |-> None, in |-> None, ok |-> FALSE]
    BY <1>5, <1>6 DEF Click
  <2>3. InStep(c)'
    BY <1>0, <2>1, <2>2 DEF InStep, NoRequest, Knowledge
  <2>4. /\ click[c] \in Knowledge /\ click'[c].call = "upload" /\ click'[c].told = "waiting"
        /\ request'[c].ok = FALSE
    BY <1>0, <2>1, <2>2 DEF Knowledge, NoRequest
  <2>5. Kept(c)'
    BY <1>0, <1>1, <1>2, <1>4, <2>1, <2>4 DEF Kept, Picked, Half
  <2>. QED
    BY <2>3, <2>5
<1>7. CASE Answered(c)
  <2>. USE <1>7 DEF Answered
  <2>1. CASE ~request[c].ok /\ click' = [click EXCEPT ![c].told = "failed"] /\ UNCHANGED request
    <3>1. click'[c] = [click[c] EXCEPT !.told = "failed"] /\ request'[c] = request[c]
      BY <1>0, <2>1
    <3>2. /\ click'[c].call = click[c].call /\ click'[c].path = click[c].path
          /\ click'[c].told = "failed" /\ click[c].told = "waiting"
      BY <1>0, <3>1 DEF Knowledge
    <3>3. InStep(c)'
      BY <1>0, <1>1, <2>1, <3>1, <3>2 DEF InStep, Picked, Half
    <3>4. request'[c] = request[c]
      BY <3>1
    <3>5. Kept(c)'
      BY <1>0, <1>1, <1>2, <1>3, <3>2, <3>4 DEF Kept, Picked, Half
    <3>. QED
      BY <3>3, <3>5
  <2>2. CASE /\ request[c].ok /\ click[c].call = "upload"
             /\ click' = [click EXCEPT ![c].call = "create", ![c].path = request[c].path]
             /\ Post(c, "create", None, None)
    <3>1. click'[c] = [click[c] EXCEPT !.call = "create", !.path = c]
      BY <1>0, <2>2 DEF InStep
    <3>2. \/ request'[c] = NoRequest
          \/ request'[c] = [what |-> "create", at |-> "sent", path |-> None, in |-> None, ok |-> FALSE]
      BY <1>5, <2>2
    <3>. QED
      <4>1. /\ click'[c].call = "create" /\ click'[c].path = c /\ click'[c].told = "waiting"
            /\ request'[c].at \in {"none", "sent"}
            /\ request'[c].at = "sent" => request'[c].what = "create"
        BY <1>0, <3>1, <3>2 DEF NoRequest, Knowledge
      <4>2. InStep(c)'
        BY <1>0, <1>1, <1>4, <2>2, <4>1 DEF InStep
      <4>3. Kept(c)'
        BY <1>0, <1>1, <1>2, <1>4, <2>2, <4>1 DEF Kept
      <4>. QED
        BY <4>2, <4>3
  <2>3. CASE \E in \in Chronicles :
             /\ request[c].ok /\ click[c].call \in {"upload", "create"}
             /\ click'[c].call = Last(c) /\ click'[c].told = "waiting" /\ click'[c].path = c
             /\ Post(c, Last(c), c, in)
    <3>1. PICK in \in Chronicles :
             /\ request[c].ok /\ click[c].call \in {"upload", "create"}
             /\ click'[c].call = Last(c) /\ click'[c].told = "waiting" /\ click'[c].path = c
             /\ Post(c, Last(c), c, in)
      BY <2>3
    <3>2. \/ request'[c] = NoRequest
          \/ request'[c] = [what |-> Last(c), at |-> "sent", path |-> c, in |-> in, ok |-> FALSE]
      BY <1>5, <3>1
    <3>3. in # None /\ Last(c) \in {"add", "queue"}
      BY DEF Last, Chronicles
    <3>4. imports[c] = Picked(c) /\ HoldsNothing(c)
      BY <1>0, <3>1 DEF InStep, Kept
    <3>5. InStep(c)'
      BY <1>1, <3>1, <3>2, <3>3, <3>4 DEF InStep, NoRequest, Picked
    <3>6. Kept(c)'
      BY <1>0, <1>1, <1>2, <1>3, <3>1, <3>2, <3>3, <3>4 DEF Kept, NoRequest, Picked, Half
    <3>. QED
      BY <3>5, <3>6
  <2>4. CASE /\ request[c].ok /\ click[c].call \in {"add", "queue"}
             /\ click' = [click EXCEPT ![c].told = "done"] /\ UNCHANGED request
    <3>1. click'[c] = [click[c] EXCEPT !.told = "done"] /\ request'[c] = request[c]
      BY <1>0, <2>4
    <3>. QED
      BY <1>0, <1>1, <1>2, <1>3, <1>4, <2>4, <3>1 DEF InStep, Kept, Knowledge
  <2>5. ASSUME request[c].ok, click[c].call = "upload", click[c].in # None,
               click' = [click EXCEPT ![c].call = Last(c), ![c].path = request[c].path],
               Post(c, Last(c), request[c].path, click[c].in)
        PROVE  \E in \in Chronicles :
             /\ request[c].ok /\ click[c].call \in {"upload", "create"}
             /\ click'[c].call = Last(c) /\ click'[c].told = "waiting" /\ click'[c].path = c
             /\ Post(c, Last(c), c, in)
    BY <1>0, <2>5 DEF InStep, Knowledge
  <2>6. ASSUME request[c].ok, click[c].call = "create",
               click' = [click EXCEPT ![c].call = Last(c), ![c].in = request[c].in],
               Post(c, Last(c), click[c].path, request[c].in)
        PROVE  \E in \in Chronicles :
             /\ request[c].ok /\ click[c].call \in {"upload", "create"}
             /\ click'[c].call = Last(c) /\ click'[c].told = "waiting" /\ click'[c].path = c
             /\ Post(c, Last(c), c, in)
    BY <1>0, <2>6 DEF InStep, Knowledge, Chronicles
  <2>. QED
    BY <2>1, <2>2, <2>3, <2>4, <2>5, <2>6
<1>8. CASE Lost(c)
  <2>1. click'[c] = [click[c] EXCEPT !.told = "failed"]
    BY <1>0, <1>8 DEF Lost
  <2>2. request'[c] = request[c] \/ request'[c] = NoRequest
    BY <1>0, <1>8 DEF Lost
  <2>3. InStep(c)'
    BY <1>0, <1>1, <1>8, <2>1, <2>2 DEF Lost, InStep, NoRequest, Knowledge, Picked, Half
  <2>4. Kept(c)'
    <3>1. click'[c].call = click[c].call /\ click'[c].told = "failed"
      BY <1>0, <2>1 DEF Knowledge
    <3>2. CASE request'[c] = request[c]
      BY <1>0, <1>1, <1>2, <1>3, <3>1, <3>2 DEF Kept, Picked, Half
    <3>3. CASE request'[c] = NoRequest
      <4>1. request'[c].at = "none"
        BY <3>3 DEF NoRequest
      <4>2. HoldsOnce(c, Picked(c))' = HoldsOnce(c, Picked(c)) /\ HoldsOnce(c, Half(c))' = HoldsOnce(c, Half(c))
        BY <1>3 DEF Picked, Half
      <4>. QED
        BY <1>0, <1>1, <1>2, <3>1, <4>1, <4>2 DEF Kept, Picked
    <3>. QED
      BY <2>2, <3>2, <3>3
  <2>. QED
    BY <2>3, <2>4
<1>. QED
  BY <1>6, <1>7, <1>8 DEF ClientStep

LEMMA ServerKeeps ==
    ASSUME IInv, NEW c \in Clicks, ServerStep(c)
    PROVE  InStep(c)' /\ Kept(c)'
<1>0. /\ click \in [Clicks -> Knowledge] /\ request \in [Clicks -> Request]
      /\ imports \in [Clicks -> Content \cup {None}]
      /\ click[c] \in Knowledge /\ request[c] \in Request
      /\ InStep(c) /\ Kept(c) /\ Staged
  BY DEF IInv, TypeOK
<1>1. click'[c] = click[c]
  BY DEF ServerStep, Open, Write, Refuse, WriteFails, Writing, Scope, CreateChronicle, QueueImport,
         MethodFails, Close, AddAudioSource, MoveFails, Runs, server
\* Steps that store nothing.
<1>2. ASSUME UNCHANGED <<sources, tasks>>, HoldsNothing(c) \/ UNCHANGED imports
      PROVE  /\ HoldsNothing(c)' = HoldsNothing(c) /\ TasksOf(c)' = TasksOf(c)
             /\ HoldsNothing(c) => TasksOf(c) = {}
             /\ HoldsOnce(c, Picked(c)) => HoldsOnce(c, Picked(c))'
             /\ HoldsOnce(c, Half(c)) => HoldsOnce(c, Half(c))'
  <2>1. TracksOf(c)' = TracksOf(c) /\ TasksOf(c)' = TasksOf(c)
    BY <1>2 DEF TracksOf, TasksOf
  <2>2. ASSUME NEW file PROVE HoldsOnce(c, file) => HoldsOnce(c, file)'
    BY <1>2, <2>1 DEF HoldsOnce, HoldsNothing
  <2>. QED
    BY <2>1, <2>2 DEF HoldsNothing, Picked, Half
<1>3. CASE Open(c)
  <2>1. /\ request'[c] = [request[c] EXCEPT !.at = "writing", !.path = c]
        /\ imports'[c] = Half(c) /\ request[c].what = "upload" /\ request[c].at = "sent"
        /\ UNCHANGED <<sources, tasks>>
    BY <1>0, <1>3 DEF Open, StageName, Half
  <2>2. click[c].call = "upload" /\ HoldsNothing(c)
    BY <1>0, <2>1 DEF InStep, Kept
  <2>3. InStep(c)'
    BY <1>0, <1>1, <2>1, <2>2 DEF InStep, Request, Half
  <2>4. Kept(c)'
    BY <1>0, <1>1, <1>2, <2>1, <2>2 DEF Kept, Request
  <2>. QED
    BY <2>3, <2>4
<1>4. CASE Write(c) \/ Refuse(c) \/ WriteFails(c)
  <2>1. /\ request[c].at = "writing" /\ UNCHANGED <<sources, tasks>>
        /\ request[c].what = "upload" /\ request[c].path = c
    BY <1>0, <1>4 DEF Write, Refuse, WriteFails, Writing, InStep
  <2>2. \/ /\ request'[c] = [request[c] EXCEPT !.at = "answer", !.ok = TRUE]
           /\ imports'[c] = Picked(c)
        \/ request'[c] = [request[c] EXCEPT !.at = "answer", !.ok = FALSE]
    BY <1>0, <1>4, <2>1 DEF Write, Refuse, WriteFails, Writing, Raises, Picked
  <2>3. click[c].call = "upload" /\ HoldsNothing(c)
    BY <1>0, <2>1 DEF InStep, Kept
  <2>4. InStep(c)'
    BY <1>0, <1>1, <2>1, <2>2, <2>3 DEF InStep, Request, Picked
  <2>5. Kept(c)'
    BY <1>0, <1>1, <1>2, <2>1, <2>2, <2>3 DEF Kept, Request
  <2>. QED
    BY <2>4, <2>5
<1>5. CASE Scope(c) \/ MethodFails(c) \/ Close(c)
  <2>1. UNCHANGED <<sources, tasks, imports>>
    BY <1>5 DEF Scope, MethodFails, Close, server
  <2>2. \/ /\ request[c].at = "sent" /\ request[c].what # "upload"
           /\ request'[c] = [request[c] EXCEPT !.at = "method"]
        \/ /\ request[c].at = "method"
           /\ request'[c] = [request[c] EXCEPT !.at = "close", !.ok = FALSE]
        \/ /\ request[c].at = "close"
           /\ request'[c] = [request[c] EXCEPT !.at = "answer"]
    BY <1>0, <1>5 DEF Scope, MethodFails, Close, Goes, Raises
  <2>3. InStep(c)'
    <3>1. CASE /\ request[c].at = "sent" /\ request[c].what # "upload"
               /\ request'[c] = [request[c] EXCEPT !.at = "method"]
      BY <1>0, <1>1, <2>1, <3>1 DEF InStep, Request, Picked, Half
    <3>2. CASE /\ request[c].at = "method"
               /\ request'[c] = [request[c] EXCEPT !.at = "close", !.ok = FALSE]
      BY <1>0, <1>1, <2>1, <3>2 DEF InStep, Request, Picked, Half
    <3>3. CASE /\ request[c].at = "close"
               /\ request'[c] = [request[c] EXCEPT !.at = "answer"]
      BY <1>0, <1>1, <2>1, <3>3 DEF InStep, Request, Picked, Half
    <3>. QED
      BY <2>2, <3>1, <3>2, <3>3
  <2>4. Kept(c)'
    <3>1. /\ request'[c].what = request[c].what
          /\ \/ request[c].at = "sent" /\ request'[c].at = "method"
             \/ request[c].at = "method" /\ request'[c].at = "close" /\ ~request'[c].ok
             \/ request[c].at = "close" /\ request'[c].at = "answer" /\ request'[c].ok = request[c].ok
      BY <1>0, <2>2 DEF Request
    <3>. QED
      BY <1>0, <1>1, <1>2, <2>1, <3>1 DEF Kept, Picked
  <2>. QED
    BY <2>3, <2>4
<1>6. CASE CreateChronicle(c)
  <2>1. /\ UNCHANGED <<sources, tasks, imports>>
        /\ request[c].at = "method" /\ request[c].what = "create"
        /\ request'[c] = [request[c] EXCEPT !.at = "close", !.ok = TRUE, !.in = c]
    BY <1>0, <1>6 DEF CreateChronicle, Runs
  <2>2. click[c].call = "create"
    BY <1>0, <2>1 DEF InStep
  <2>3. InStep(c)'
    BY <1>0, <1>1, <2>1, <2>2 DEF InStep, Request, Picked, Half
  <2>4. Kept(c)'
    BY <1>0, <1>1, <1>2, <2>1, <2>2 DEF Kept, Request, Picked
  <2>. QED
    BY <2>3, <2>4
\* Steps that store: they find nothing stored, and the whole file under its name.
<1>7. ASSUME Runs(c, "add") \/ Runs(c, "queue")
      PROVE  /\ HoldsNothing(c) /\ request[c].path = c /\ imports[c] = Picked(c)
             /\ click[c].call \in {"add", "queue"} /\ request[c].in # None
  BY <1>0, <1>7 DEF Runs, InStep, Kept
<1>8. ASSUME NEW ok \in BOOLEAN, request'[c] = [request[c] EXCEPT !.at = "close", !.ok = ok],
             Runs(c, "add") \/ Runs(c, "queue"),
             HoldsOnce(c, Picked(c))' \/ (~ok /\ HoldsOnce(c, Half(c))'),
             \A t \in TasksOf(c)' : t.path = c /\ imports'[c] = Picked(c)
      PROVE  InStep(c)' /\ Kept(c)'
  <2>1. /\ request'[c].at = "close" /\ request'[c].what = request[c].what
        /\ request'[c].ok = ok
    BY <1>0, <1>8 DEF Request
  <2>2. request[c].at = "method" /\ request[c].what \in {"add", "queue"}
    BY <1>8 DEF Runs
  <2>3. click[c].path = c /\ click[c].call = request[c].what /\ click[c].told # "idle"
    BY <1>0, <2>2 DEF InStep
  <2>4. InStep(c)'
    BY <1>1, <2>1, <2>2, <2>3 DEF InStep
  <2>5. click[c].told = "done" => ok
    BY <1>0, <1>7, <1>8 DEF Kept, HoldsOnce, HoldsNothing
  <2>6. Kept(c)'
    BY <1>1, <1>8, <2>1, <2>2, <2>3, <2>5 DEF Kept, Picked, Half
  <2>. QED
    BY <2>4, <2>6
<1>9. CASE QueueImport(c)
  <2>. DEFINE t == [by |-> c, in |-> request[c].in, path |-> c]
  <2>1. /\ tasks' = tasks \cup {t} /\ UNCHANGED <<imports, sources>>
        /\ HoldsNothing(c) /\ imports[c] = Picked(c)
    BY <1>7, <1>9 DEF QueueImport
  <2>2. TasksOf(c)' = {t} /\ TracksOf(c)' = {}
    BY <2>1 DEF TasksOf, TracksOf, HoldsNothing
  <2>3. HoldsOnce(c, Picked(c))'
    BY <2>1, <2>2 DEF HoldsOnce, Picked
  <2>4. request'[c] = [request[c] EXCEPT !.at = "close", !.ok = TRUE]
    BY <1>0, <1>9 DEF QueueImport, Returns
  <2>5. \A u \in TasksOf(c)' : u.path = c /\ imports'[c] = Picked(c)
    BY <2>1, <2>2
  <2>6. Runs(c, "queue")
    BY <1>9 DEF QueueImport
  <2>. QED
    BY <1>8, <2>3, <2>4, <2>5, <2>6
<1>10. ASSUME NEW n \in 0 .. MaxNumber, NEW file \in {Picked(c), Half(c)}, Runs(c, "add"),
              sources' = sources \cup {Track(c, n, file)}, UNCHANGED tasks
       PROVE  TasksOf(c)' = {} /\ HoldsOnce(c, file)'
  <2>1. HoldsNothing(c) /\ UNCHANGED tasks
    BY <1>7, <1>10
  <2>2. TracksOf(c)' = {Track(c, n, file)} /\ TasksOf(c)' = {}
    BY <1>10, <2>1 DEF TracksOf, TasksOf, HoldsNothing, Track
  <2>3. Track(c, n, file).file = file
    BY DEF Track
  <2>. QED
    BY <2>2, <2>3 DEF HoldsOnce
<1>11. ASSUME NEW n \in 0 .. MaxNumber, AddAudioSource(c, n) PROVE InStep(c)' /\ Kept(c)'
  <2>1. Runs(c, "add") /\ sources' = sources \cup {Track(c, n, Picked(c))} /\ UNCHANGED tasks
    BY <1>7, <1>11 DEF AddAudioSource
  <2>2. TasksOf(c)' = {} /\ HoldsOnce(c, Picked(c))'
    BY <1>10, <2>1
  <2>3. request'[c] = [request[c] EXCEPT !.at = "close", !.ok = TRUE]
    BY <1>0, <1>11 DEF AddAudioSource, Returns
  <2>. QED
    BY <1>8, <2>1, <2>2, <2>3
<1>12. ASSUME NEW n \in 0 .. MaxNumber, MoveFails(c, n) PROVE InStep(c)' /\ Kept(c)'
  <2>1. Runs(c, "add") /\ sources' = sources \cup {Track(c, n, Half(c))} /\ UNCHANGED tasks
    <3>1. Runs(c, "add") /\ UNCHANGED tasks
      BY <1>12 DEF MoveFails
    <3>2. imports[request[c].path].of = c
      BY <1>7, <3>1 DEF Picked
    <3>. QED
      BY <1>12, <3>1, <3>2 DEF MoveFails, Half
  <2>2. TasksOf(c)' = {} /\ HoldsOnce(c, Half(c))'
    BY <1>10, <2>1
  <2>3. request'[c] = [request[c] EXCEPT !.at = "close", !.ok = FALSE]
    BY <1>0, <1>12 DEF MoveFails, Raises
  <2>. QED
    BY <1>8, <2>1, <2>2, <2>3
<1>. QED
  BY <1>3, <1>4, <1>5, <1>6, <1>9, <1>11, <1>12 DEF ServerStep

-----------------------------------------------------------------------------
(* The inductive invariant *)

LEMMA OthersFiles ==
    ASSUME IInv, NEW c \in Clicks, ServerStep(c)
    PROVE  /\ UNCHANGED click
           /\ \A d \in Clicks \ {c} : request'[d] = request[d] /\ imports'[d] = imports[d]
           /\ \A d \in Clicks \ {c} : TracksOf(d)' = TracksOf(d) /\ TasksOf(d)' = TasksOf(d)
           /\ imports'[c] # None => imports'[c].of = c
<1>0. /\ request \in [Clicks -> Request] /\ imports \in [Clicks -> Content \cup {None}]
      /\ Staged /\ InStep(c)
  BY DEF IInv, TypeOK
<1>1. /\ UNCHANGED click
      /\ \A d \in Clicks \ {c} : request'[d] = request[d]
  BY <1>0 DEF ServerStep, Open, Write, Refuse, WriteFails, Writing, Raises, Scope, Goes,
                    CreateChronicle, QueueImport, MethodFails, Close, AddAudioSource, MoveFails,
                    Runs, Returns, server
<1>2. /\ \A d \in Clicks \ {c} : imports'[d] = imports[d]
      /\ imports'[c] # None => imports'[c].of = c
  <2>1. CASE Open(c)
    BY <1>0, <2>1 DEF Open, StageName
  <2>2. CASE Write(c) \/ Refuse(c) \/ WriteFails(c)
    <3>1. request[c].path = c
      BY <1>0, <2>2 DEF Write, Refuse, WriteFails, Writing, InStep
    <3>. QED
      BY <1>0, <2>2, <3>1 DEF Write, Refuse, WriteFails, Staged
  <2>3. ASSUME NEW n \in 0 .. MaxNumber, AddAudioSource(c, n)
        PROVE  /\ \A d \in Clicks \ {c} : imports'[d] = imports[d]
               /\ imports'[c] # None => imports'[c].of = c
    <3>1. request[c].path = c
      BY <1>0, <2>3 DEF AddAudioSource, Runs, InStep
    <3>. QED
      BY <1>0, <2>3, <3>1 DEF AddAudioSource, Staged
  <2>4. CASE UNCHANGED imports
    BY <1>0, <2>4 DEF Staged
  <2>. QED
    BY <2>1, <2>2, <2>3, <2>4
       DEF ServerStep, Scope, CreateChronicle, QueueImport, MethodFails, Close, MoveFails, server
<1>3. ASSUME NEW d \in Clicks \ {c}
      PROVE  TracksOf(d)' = TracksOf(d) /\ TasksOf(d)' = TasksOf(d)
  <2>1. CASE UNCHANGED <<sources, tasks>>
    BY <2>1 DEF TracksOf, TasksOf
  <2>2. CASE QueueImport(c)
    BY <2>2 DEF QueueImport, TracksOf, TasksOf
  <2>3. ASSUME NEW n \in 0 .. MaxNumber, AddAudioSource(c, n) \/ MoveFails(c, n)
        PROVE  TracksOf(d)' = TracksOf(d) /\ TasksOf(d)' = TasksOf(d)
    BY <2>3 DEF AddAudioSource, MoveFails, Track, TracksOf, TasksOf
  <2>. QED
    BY <2>1, <2>2, <2>3
       DEF ServerStep, Open, Write, Refuse, WriteFails, Writing, Scope, CreateChronicle, Runs,
           MethodFails, Close, server
<1>. QED
  BY <1>1, <1>2, <1>3

LEMMA StepInv ==
    ASSUME IInv, [Next]_vars
    PROVE  IInv'
<1>0. /\ click \in [Clicks -> Knowledge] /\ request \in [Clicks -> Request]
      /\ imports \in [Clicks -> Content \cup {None}]
      /\ Staged /\ \A c \in Clicks : InStep(c) /\ Kept(c)
  BY DEF IInv, TypeOK
<1>1. ASSUME NEW c \in Clicks, ClientStep(c) PROVE IInv'
  <2>1. Staged'
    BY <1>0, <1>1 DEF ClientStep, Click, Answered, Lost, server, Staged
  <2>2. ASSUME NEW d \in Clicks \ {c} PROVE InStep(d)' /\ Kept(d)'
    <3>1. click'[d] = click[d] /\ request'[d] = request[d]
      BY <1>0, <1>1 DEF ClientStep, Click, Answered, Lost, Post
    <3>2. UNCHANGED <<imports, sources, tasks>>
      BY <1>1 DEF ClientStep, Click, Answered, Lost, server
    <3>. QED
      BY <1>0, <3>1, <3>2, Undisturbed DEF TracksOf, TasksOf
  <2>. QED
    BY <1>1, <2>1, <2>2, TypeClient, ClientKeeps DEF IInv
<1>2. ASSUME NEW c \in Clicks, ServerStep(c) PROVE IInv'
  <2>4. ASSUME NEW d \in Clicks \ {c} PROVE InStep(d)' /\ Kept(d)'
    BY <1>0, <1>2, OthersFiles, Undisturbed
  <2>5. Staged'
    BY <1>0, <1>2, OthersFiles DEF Staged
  <2>. QED
    BY <1>2, <2>4, <2>5, TypeServer, ServerKeeps DEF IInv
<1>3. ASSUME NEW k \in Clients, Handshake(k) PROVE IInv'
  <2>1. TypeOK'
    BY <1>3 DEF IInv, TypeOK, Handshake, server
  <2>2. UNCHANGED <<click, request, imports, sources, tasks>>
    BY <1>3 DEF Handshake, server
  <2>3. \A c \in Clicks : InStep(c)' /\ Kept(c)'
    BY <1>0, <2>2, Undisturbed DEF TracksOf, TasksOf
  <2>. QED
    BY <1>0, <2>1, <2>2, <2>3 DEF IInv, Staged
<1>4. CASE Crash
  <2>1. NoRequest \in Request
    BY DEF NoRequest, Request, Calls
  <2>2. TypeOK'
    BY <1>4, <2>1 DEF IInv, TypeOK, Crash
  <2>3. /\ UNCHANGED <<click, imports, sources, tasks>>
        /\ \A c \in Clicks : request'[c].at = "none"
    BY <1>4 DEF Crash, NoRequest
  <2>4. ASSUME NEW c \in Clicks PROVE InStep(c)' /\ Kept(c)'
    <3>1. /\ HoldsNothing(c)' = HoldsNothing(c) /\ TasksOf(c)' = TasksOf(c)
          /\ \A file : HoldsOnce(c, file)' = HoldsOnce(c, file)
      BY <2>3 DEF HoldsNothing, HoldsOnce, TracksOf, TasksOf
    <3>2. InStep(c)'
      BY <1>0, <2>3 DEF InStep, Picked
    <3>3. /\ HoldsOnce(c, Picked(c))' = HoldsOnce(c, Picked(c))
          /\ HoldsOnce(c, Half(c))' = HoldsOnce(c, Half(c))
      BY <3>1 DEF Picked, Half
    <3>4. Kept(c)'
      BY <1>0, <2>3, <3>1, <3>3 DEF Kept, Picked
    <3>. QED
      BY <3>2, <3>4
  <2>. QED
    BY <1>0, <2>2, <2>3, <2>4 DEF IInv, Staged
<1>5. ASSUME NEW v \in Versions, RunServer(v) PROVE IInv'
  <2>1. TypeOK'
    BY <1>5 DEF IInv, TypeOK, RunServer
  <2>2. UNCHANGED <<click, request, imports, sources, tasks>>
    BY <1>5 DEF RunServer
  <2>3. \A c \in Clicks : InStep(c)' /\ Kept(c)'
    BY <1>0, <2>2, Undisturbed DEF TracksOf, TasksOf
  <2>. QED
    BY <1>0, <2>1, <2>2, <2>3 DEF IInv, Staged
<1>6. CASE UNCHANGED vars
  <2>1. TypeOK'
    BY <1>6 DEF IInv, TypeOK, vars, server
  <2>2. UNCHANGED <<click, request, imports, sources, tasks>>
    BY <1>6 DEF vars, server
  <2>3. \A c \in Clicks : InStep(c)' /\ Kept(c)'
    BY <1>0, <2>2, Undisturbed DEF TracksOf, TasksOf
  <2>. QED
    BY <1>0, <2>1, <2>2, <2>3 DEF IInv, Staged
<1>. QED
  BY <1>1, <1>2, <1>3, <1>4, <1>5, <1>6 DEF Next

\* The type invariant and the inductive invariant hold always.
THEOREM CallsInductive == Spec => []IInv
BY InitInv, StepInv, PTL DEF Spec

THEOREM CallTypes == Spec => []TypeOK
<1>1. IInv => TypeOK
  BY DEF IInv
<1>. QED
  BY <1>1, CallsInductive, PTL

-----------------------------------------------------------------------------
(* The refinement: what a step does to what is told and to what is stored.   *)

LEMMA StoredValues ==
    ASSUME NEW c \in Clicks, Kept(c)
    PROVE  /\ StoredOf(c) \in {"nothing", "picked", "half"}
           /\ StoredOf(c) = "nothing" <=> HoldsNothing(c)
           /\ HoldsOnce(c, Picked(c)) => StoredOf(c) = "picked"
<1>1. HoldsOnce(c, Picked(c)) => ~HoldsNothing(c)
  BY DEF HoldsOnce, HoldsNothing
<1>. QED
  BY <1>1 DEF StoredOf, Kept

LEMMA StoredFrame ==
    ASSUME NEW c \in Clicks, Kept(c), imports'[c] = imports[c],
           TracksOf(c)' = TracksOf(c), TasksOf(c)' = TasksOf(c)
    PROVE  StoredOf(c)' = StoredOf(c)
<1>1. HoldsNothing(c)' = HoldsNothing(c)
  BY DEF HoldsNothing
<1>2. ASSUME NEW file PROVE HoldsOnce(c, file)' = HoldsOnce(c, file)
  BY DEF HoldsOnce, Kept
<1>3. /\ HoldsOnce(c, Picked(c))' = HoldsOnce(c, Picked(c))
      /\ HoldsOnce(c, Half(c))' = HoldsOnce(c, Half(c))
  BY <1>2 DEF Picked, Half
<1>. QED
  BY <1>1, <1>3 DEF StoredOf

\* A click that stores something had stored nothing, and waits or was told of a failure.
LEMMA StoreOnce ==
    ASSUME IInv, IInv', NEW c \in Clicks, ServerStep(c)
    PROVE  \/ StoredOf(c)' = StoredOf(c)
           \/ /\ StoredOf(c) = "nothing" /\ StoredOf(c)' \in {"picked", "half"}
              /\ click[c].told \notin {"idle", "done"}
<1>0. InStep(c) /\ Kept(c) /\ Kept(c)' /\ click[c].told = click[c].told
  BY DEF IInv
<1>1. StoredOf(c)' \in {"nothing", "picked", "half"}
  BY <1>0 DEF StoredOf, Kept, Picked, Half
<1>2. CASE HoldsNothing(c)
  <2>1. StoredOf(c) = "nothing" /\ click[c].told # "done"
    BY <1>0, <1>2, StoredValues DEF Kept, HoldsOnce, HoldsNothing
  <2>2. request[c].at # "none"
    BY DEF ServerStep, Open, Write, Refuse, WriteFails, Writing, Scope, CreateChronicle,
           QueueImport, MethodFails, Close, AddAudioSource, MoveFails, Runs
  <2>. QED
    BY <1>0, <1>1, <2>1, <2>2 DEF InStep
<1>3. CASE ~HoldsNothing(c)
  <2>1. request[c].at \notin {"sent", "method", "writing"}
    BY <1>0, <1>3 DEF InStep, Kept
  <2>2. Close(c)
    BY <2>1 DEF ServerStep, Open, Write, Refuse, WriteFails, Writing, Scope, CreateChronicle,
                QueueImport, MethodFails, AddAudioSource, MoveFails, Runs
  <2>3. UNCHANGED <<imports, sources, tasks>>
    BY <2>2 DEF Close, server
  <2>. QED
    BY <1>0, <2>3, StoredFrame DEF TracksOf, TasksOf
<1>. QED
  BY <1>2, <1>3

LEMMA PromiseStep ==
    ASSUME IInv, IInv', [Next]_vars
    PROVE  [Promise!Next]_(Promise!vars)
<1>. DEFINE Told == [c \in Clicks |-> click[c].told]
            Stored == [c \in Clicks |-> StoredOf(c)]
<1>0. /\ click \in [Clicks -> Knowledge] /\ \A c \in Clicks : InStep(c) /\ Kept(c) /\ Kept(c)'
  BY DEF IInv, TypeOK
<1>1. ASSUME UNCHANGED <<imports, sources, tasks>> PROVE Stored' = Stored
  BY <1>0, <1>1, StoredFrame DEF TracksOf, TasksOf
<1>2. ASSUME NEW c \in Clicks, ClientStep(c) PROVE [Promise!Next]_(Promise!vars)
  <2>1. Stored' = Stored
    BY <1>1, <1>2 DEF ClientStep, Click, Answered, Lost, server
  <2>2. \A d \in Clicks \ {c} : click'[d] = click[d]
    BY <1>0, <1>2 DEF ClientStep, Click, Answered, Lost
  <2>3. \/ click'[c].told = click[c].told
        \/ click[c].told = "idle" /\ click'[c].told = "waiting"
        \/ click[c].told = "waiting" /\ click'[c].told \in {"done", "failed"}
    BY <1>0, <1>2 DEF ClientStep, Click, Answered, Lost, Knowledge
  <2>4. click'[c].told = "done" /\ click[c].told = "waiting" => StoredOf(c) = "picked"
    <3>1. HAVE click'[c].told = "done" /\ click[c].told = "waiting"
    <3>2. HoldsOnce(c, Picked(c))'
      BY <1>0, <3>1 DEF Kept, Picked
    <3>3. StoredOf(c)' = "picked"
      BY <3>2 DEF StoredOf, HoldsNothing, HoldsOnce, Picked
    <3>. QED
      BY <2>1, <3>3
  <2>5. Told' = [Told EXCEPT ![c] = click'[c].told]
    BY <2>2
  <2>6. CASE click'[c].told = click[c].told
    BY <2>1, <2>5, <2>6 DEF Promise!vars
  <2>7. CASE click[c].told = "idle" /\ click'[c].told = "waiting"
    BY <2>1, <2>5, <2>7 DEF Promise!Next, Promise!Begin
  <2>8. CASE click[c].told = "waiting" /\ click'[c].told \in {"done", "failed"}
    BY <2>1, <2>4, <2>5, <2>8 DEF Promise!Next, Promise!End
  <2>. QED
    BY <2>3, <2>6, <2>7, <2>8
<1>3. ASSUME NEW c \in Clicks, ServerStep(c) PROVE [Promise!Next]_(Promise!vars)
  <2>1. Told' = Told
    BY <1>3 DEF ServerStep, Open, Write, Refuse, WriteFails, Writing, Scope, CreateChronicle,
                QueueImport, MethodFails, Close, AddAudioSource, MoveFails, Runs, server
  <2>2. ASSUME NEW d \in Clicks \ {c} PROVE StoredOf(d)' = StoredOf(d)
    BY <1>0, <1>3, OthersFiles, StoredFrame
  <2>3. CASE StoredOf(c)' = StoredOf(c)
    BY <2>1, <2>2, <2>3 DEF Promise!vars
  <2>4. CASE /\ StoredOf(c) = "nothing" /\ StoredOf(c)' \in {"picked", "half"}
             /\ click[c].told \notin {"idle", "done"}
    <3>1. Stored' = [Stored EXCEPT ![c] = StoredOf(c)']
      BY <2>2
    <3>. QED
      BY <2>1, <2>4, <3>1 DEF Promise!Next, Promise!Store
  <2>. QED
    BY <1>3, <2>3, <2>4, StoreOnce
<1>4. CASE \/ \E k \in Clients : Handshake(k)
           \/ Crash
           \/ \E v \in Versions : RunServer(v)
           \/ UNCHANGED vars
  <2>1. UNCHANGED <<click, imports, sources, tasks>>
    BY <1>4 DEF Handshake, Crash, RunServer, vars, server
  <2>. QED
    BY <1>1, <2>1 DEF Promise!vars
<1>. QED
  BY <1>2, <1>3, <1>4 DEF Next

\* An import over the network keeps what an import promises.
THEOREM CallsKeepPromise == Spec => ImportsKeepPromise
<1>1. Init => Promise!Init
  BY DEF Init, Promise!Init, StoredOf, HoldsNothing, TracksOf, TasksOf
<1>2. IInv /\ IInv' /\ [Next]_vars => [Promise!Next]_(Promise!vars)
  BY PromiseStep
<1>. QED
  BY <1>1, <1>2, CallsInductive, PTL DEF Spec, Promise!Spec, ImportsKeepPromise
=============================================================================

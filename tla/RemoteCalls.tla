----------------------------- MODULE RemoteCalls -----------------------------
(***************************************************************************)
(* A thin client imports files over the network: the start-up handshake    *)
(* (handshake.py), the generated calls (remote.py) and the server's routes *)
(* for them (rpc.py), the upload of the picked file (RemoteFileStager and  *)
(* /upload), and the services that then take it from the imports directory *)
(* (imports.py, chronicle_service.py, task_service.py).                    *)
(*                                                                         *)
(* An import is a sequence of calls: the upload, a new chronicle where     *)
(* there is none, and the call that names the uploaded file.  The client   *)
(* waits for one call at a time; a call whose answer does not come fails   *)
(* the import, and nothing is sent twice.  The server goes on with a       *)
(* request nobody waits for any more.  It may die with its requests and    *)
(* start again, also as another version.  Clicking again is a click of its *)
(* own.                                                                    *)
(***************************************************************************)
EXTENDS Naturals

CONSTANTS
    Clicks,         \* the imports, each of a file of its own
    NameOf,         \* the name of the file, which need not be its own
    Clients, ClientOf, VersionOf,
    Versions,       \* the versions the server may run
    Existing,       \* the chronicles there are
    Linked,         \* those whose sources/ may be on another file system
    None,           \* no chronicle, no file, no path
    MaxNumber,      \* bound: the numbers a name in sources/ can be given
    MaxCrashes      \* bound: the server's deaths

ASSUME RemoteAssumption ==
    /\ None \notin Clicks \cup Existing
    /\ Clicks \cap Existing = {}
    /\ Linked \subseteq Existing
    /\ ClientOf \in [Clicks -> Clients]
    /\ VersionOf \in [Clients -> Versions]
    /\ {MaxNumber, MaxCrashes} \subseteq Nat

VARIABLES
    app,        \* the clients that came up
    click,      \* what the client knows of each import
    request,    \* the request of the import the server has
    version,    \* of the server, None while it is down
    imports,    \* the imports directory: what is under each staged name
    sources,    \* the tracks of the chronicles: where they are, what put them there, what they hold
    tasks,      \* the queued imports and the path each names
    crashes

server == <<version, imports, sources, tasks>>
vars == <<app, click, request, server, crashes>>

\* What a file holds: the file of a click, all of it or the beginning.
Content == [of : Clicks, whole : BOOLEAN]
Chronicles == Existing \cup Clicks        \* a new one is named after the click that made it
Calls == {"upload", "create", "add", "queue"}
NoRequest == [what |-> "upload", at |-> "none", path |-> None, in |-> None, ok |-> FALSE]

Knowledge ==
    [told : {"idle", "waiting", "done", "failed"}, call : Calls, audio : BOOLEAN, big : BOOLEAN,
     in : Chronicles \cup {None}, path : Clicks \cup {None}]
Request ==
    [what : Calls, at : {"none", "sent", "writing", "method", "close", "answer"},
     path : Clicks \cup {None}, in : Chronicles \cup {None}, ok : BOOLEAN]
Tracks ==
    [in : Chronicles, name : (0 .. MaxNumber) \X {NameOf[c] : c \in Clicks}, by : Clicks,
     file : Content]

TypeOK ==
    /\ app \subseteq Clients
    /\ click \in [Clicks -> Knowledge]
    /\ request \in [Clicks -> Request]
    /\ version \in Versions \cup {None}
    /\ imports \in [Clicks -> Content \cup {None}]
    /\ sources \subseteq Tracks
    /\ tasks \subseteq [by : Clicks, in : Chronicles, path : Clicks]
    /\ crashes \in 0 .. MaxCrashes
    \* what is over MAX_UPLOAD_SIZE is never taken whole
    /\ \A p \in Clicks : imports[p] # None /\ imports[p].whole => ~click[imports[p].of].big

Init ==
    /\ app = {}
    /\ click \in [Clicks -> [told : {"idle"}, call : {"upload"}, audio : BOOLEAN, big : BOOLEAN,
                             in : Existing \cup {None}, path : {None}]]
    /\ request = [c \in Clicks |-> NoRequest]
    /\ version \in Versions
    /\ imports = [c \in Clicks |-> None]
    /\ sources = {}
    /\ tasks = {}
    /\ crashes = 0
-----------------------------------------------------------------------------
(* The client *)

\* perform_handshake: one version, or the app does not come up.  What the list of
\* chronicles then says, or that it fails, makes no difference.
Handshake(k) ==
    /\ k \notin app
    /\ version = VersionOf[k]
    /\ app' = app \cup {k}
    /\ UNCHANGED <<click, request, server, crashes>>

\* Posting a call; a server that is down is not reached.
Post(c, call, path, in) ==
    request' = [request EXCEPT ![c] =
        IF version = None THEN NoRequest
        ELSE [what |-> call, at |-> "sent", path |-> path, in |-> in, ok |-> FALSE]]

\* import_audio, import_transcript: stage_file comes first.
Click(c) ==
    /\ ClientOf[c] \in app
    /\ click[c].told = "idle"
    /\ click' = [click EXCEPT ![c].told = "waiting"]
    /\ Post(c, "upload", None, None)
    /\ UNCHANGED <<app, server, crashes>>

\* What the import does once it knows path and chronicle.
Last(c) == IF click[c].audio THEN "add" ELSE "queue"

\* raise_for_status, and the call after this one.
Answered(c) ==
    /\ click[c].told = "waiting"
    /\ request[c].at = "answer"
    /\ \/ /\ ~request[c].ok
          /\ click' = [click EXCEPT ![c].told = "failed"]
          /\ UNCHANGED request
       \/ /\ request[c].ok /\ click[c].call = "upload" /\ click[c].in = None
          /\ click' = [click EXCEPT ![c].call = "create", ![c].path = request[c].path]
          /\ Post(c, "create", None, None)
       \/ /\ request[c].ok /\ click[c].call = "upload" /\ click[c].in # None
          /\ click' = [click EXCEPT ![c].call = Last(c), ![c].path = request[c].path]
          /\ Post(c, Last(c), request[c].path, click[c].in)
       \/ /\ request[c].ok /\ click[c].call = "create"
          /\ click' = [click EXCEPT ![c].call = Last(c), ![c].in = request[c].in]
          /\ Post(c, Last(c), click[c].path, request[c].in)
       \/ /\ request[c].ok /\ click[c].call \in {"add", "queue"}
          /\ click' = [click EXCEPT ![c].told = "done"]
          /\ UNCHANGED request
    /\ UNCHANGED <<app, server, crashes>>

\* No connection, no answer within RPC_TIMEOUT, an answer that is lost, or the user
\* cancels where it asks: the request may be with the server, or never get there.
Lost(c) ==
    /\ click[c].told = "waiting"
    /\ click' = [click EXCEPT ![c].told = "failed"]
    /\ \/ UNCHANGED request
       \/ request[c].at = "sent" /\ request' = [request EXCEPT ![c] = NoRequest]
    /\ UNCHANGED <<app, server, crashes>>
-----------------------------------------------------------------------------
(* The server *)

Goes(c, at) == request' = [request EXCEPT ![c].at = at]
Raises(c, at) == request' = [request EXCEPT ![c].at = at, ![c].ok = FALSE]

\* Mutant: the upload keeps the name it came with.
NamedAsPicked(c) == CHOOSE d \in Clicks : NameOf[d] = NameOf[c]

\* sanitize_stage_name: a name nothing else ever had.
StageName(c) == c

\* upload_file has the whole body, and opens its own file.
Open(c) ==
    /\ request[c].what = "upload" /\ request[c].at = "sent"
    /\ imports' = [imports EXCEPT ![StageName(c)] = [of |-> c, whole |-> FALSE]]
    /\ request' = [request EXCEPT ![c].at = "writing", ![c].path = StageName(c)]
    /\ UNCHANGED <<app, click, version, sources, tasks, crashes>>

Writing(c) ==
    /\ request[c].at = "writing"
    /\ UNCHANGED <<app, click, version, sources, tasks, crashes>>

\* Mutant: the size is not looked at.
WriteAnySize(c) ==
    /\ Writing(c)
    /\ imports' = [imports EXCEPT ![request[c].path] = [of |-> c, whole |-> TRUE]]
    /\ request' = [request EXCEPT ![c].at = "answer", ![c].ok = TRUE]

Write(c) ==
    /\ Writing(c)
    /\ ~click[c].big
    /\ imports' = [imports EXCEPT ![request[c].path] = [of |-> c, whole |-> TRUE]]
    /\ request' = [request EXCEPT ![c].at = "answer", ![c].ok = TRUE]

\* Over MAX_UPLOAD_SIZE: what was written is removed, and refused.
Refuse(c) ==
    /\ Writing(c)
    /\ click[c].big
    /\ imports' = [imports EXCEPT ![request[c].path] = None]
    /\ Raises(c, "answer")

\* Any other error leaves what was written, under a name nobody is told.
WriteFails(c) == Writing(c) /\ Raises(c, "answer") /\ UNCHANGED imports

\* The wrapper of every other route: a scope, the method, and the session is closed.
Scope(c) ==
    /\ request[c].what # "upload" /\ request[c].at = "sent"
    /\ Goes(c, "method")
    /\ UNCHANGED <<app, click, server, crashes>>

Runs(c, call) ==
    /\ request[c].what = call /\ request[c].at = "method"
    /\ UNCHANGED <<app, click, version, crashes>>

Returns(c) == request' = [request EXCEPT ![c].at = "close", ![c].ok = TRUE]

\* create_chronicle commits a row with an id of its own.
CreateChronicle(c) ==
    /\ Runs(c, "create")
    /\ request' = [request EXCEPT ![c].at = "close", ![c].ok = TRUE, ![c].in = c]
    /\ UNCHANGED <<imports, sources, tasks>>

Taken(in, name) == \E s \in sources : s.in = in /\ s.name = name

\* The name in sources/: the file's own, or with the first number that is free.
Free(c, in, n) ==
    /\ ~Taken(in, <<n, NameOf[c]>>)
    /\ \A m \in 0 .. n - 1 : Taken(in, <<m, NameOf[c]>>)

Track(c, n, file) == [in |-> request[c].in, name |-> <<n, NameOf[c]>>, by |-> c, file |-> file]

\* add_audio_source moves the file.
AddAudioSource(c, n) ==
    /\ Runs(c, "add")
    /\ imports[request[c].path] # None
    /\ Free(c, request[c].in, n)
    /\ sources' = sources \cup {Track(c, n, imports[request[c].path])}
    /\ imports' = [imports EXCEPT ![request[c].path] = None]
    /\ Returns(c)
    /\ UNCHANGED tasks

\* To another file system, a move is a copy that may break off.
MoveFails(c, n) ==
    /\ Runs(c, "add")
    /\ imports[request[c].path] # None
    /\ Free(c, request[c].in, n)
    /\ request[c].in \in Linked
    /\ sources' = sources \cup {Track(c, n, [of |-> imports[request[c].path].of, whole |-> FALSE])}
    /\ Raises(c, "close")
    /\ UNCHANGED <<imports, tasks>>

\* queue_import names the file in a task; it stays where it is.
QueueImport(c) ==
    /\ Runs(c, "queue")
    /\ tasks' = tasks \cup {[by |-> c, in |-> request[c].in, path |-> request[c].path]}
    /\ Returns(c)
    /\ UNCHANGED <<imports, sources>>

\* The method raises before it has done anything, as one of another version may.
MethodFails(c) ==
    /\ request[c].at = "method"
    /\ Raises(c, "close")
    /\ UNCHANGED <<app, click, server, crashes>>

\* The finally of the wrapper, and the answer.
Close(c) ==
    /\ request[c].at = "close"
    /\ Goes(c, "answer")
    /\ UNCHANGED <<app, click, server, crashes>>

\* The process dies; what was written stays.
Crash ==
    /\ version # None
    /\ crashes < MaxCrashes
    /\ crashes' = crashes + 1
    /\ version' = None
    /\ request' = [c \in Clicks |-> NoRequest]
    /\ UNCHANGED <<app, click, imports, sources, tasks>>

\* run_server
RunServer(v) ==
    /\ version = None
    /\ version' = v
    /\ UNCHANGED <<app, click, request, imports, sources, tasks, crashes>>
-----------------------------------------------------------------------------
ClientStep(c) == Click(c) \/ Answered(c) \/ Lost(c)

ServerStep(c) ==
    \/ Open(c) \/ Write(c) \/ Refuse(c) \/ WriteFails(c) \/ Scope(c) \/ CreateChronicle(c)
    \/ QueueImport(c) \/ MethodFails(c) \/ Close(c)
    \/ \E n \in 0 .. MaxNumber : AddAudioSource(c, n) \/ MoveFails(c, n)

Next ==
    \/ \E k \in Clients : Handshake(k)
    \/ \E c \in Clicks : ClientStep(c) \/ ServerStep(c)
    \/ Crash
    \/ \E v \in Versions : RunServer(v)

Spec == Init /\ [][Next]_vars
-----------------------------------------------------------------------------
Picked(c) == [of |-> c, whole |-> TRUE]
Half(c) == [of |-> c, whole |-> FALSE]

\* What the chronicles hold because of a click: tracks, and tasks that name a path.
TracksOf(c) == {s \in sources : s.by = c}
TasksOf(c) == {t \in tasks : t.by = c}

HoldsNothing(c) == TracksOf(c) = {} /\ TasksOf(c) = {}
HoldsOnce(c, file) ==
    \/ TasksOf(c) = {} /\ \E s \in TracksOf(c) : TracksOf(c) = {s} /\ s.file = file
    \/ TracksOf(c) = {} /\ \E t \in TasksOf(c) : TasksOf(c) = {t} /\ imports[t.path] = file

StoredOf(c) ==
    IF HoldsNothing(c) THEN "nothing"
    ELSE IF HoldsOnce(c, Picked(c)) THEN "picked"
    ELSE IF HoldsOnce(c, Half(c)) THEN "half"
    ELSE "wrong"

\* The parts of the inductive invariant.  A staged name is the click's own.
Staged == \A p \in Clicks : imports[p] # None => imports[p].of = p

\* What the server has of an import belongs to the call the client made last.
InStep(c) ==
    /\ click[c].told = "idle" => click[c].call = "upload" /\ request[c].at = "none"
    /\ request[c].at # "none" => request[c].what = click[c].call
    /\ request[c].at = "writing" =>
          /\ request[c].what = "upload" /\ request[c].path = c
          /\ imports[c] = Half(c)
    /\ request[c].at \in {"method", "close"} => request[c].what # "upload"
    /\ click[c].call = "upload" /\ request[c].at = "answer" /\ request[c].ok =>
          request[c].path = c /\ imports[c] = Picked(c)
    /\ click[c].call # "upload" => click[c].path = c
    /\ click[c].call = "create" => imports[c] = Picked(c)
    /\ click[c].call = "create" /\ request[c].at \in {"close", "answer"} /\ request[c].ok =>
          request[c].in = c
    /\ click[c].call \in {"add", "queue"} /\ request[c].at \in {"sent", "method"} =>
          request[c].path = c /\ request[c].in # None /\ imports[c] = Picked(c)

\* What a click has stored, and that nothing it still has on its way stores it again.
Kept(c) ==
    /\ click[c].call \in {"upload", "create"} => HoldsNothing(c)
    /\ request[c].at \in {"sent", "method"} => HoldsNothing(c)
    /\ HoldsNothing(c) \/ HoldsOnce(c, Picked(c)) \/ HoldsOnce(c, Half(c))
    /\ \A t \in TasksOf(c) : t.path = c /\ imports[c] = Picked(c)
    /\ click[c].call \in {"add", "queue"} /\ request[c].at \in {"close", "answer"}
          /\ request[c].ok => HoldsOnce(c, Picked(c))
    /\ click[c].told = "done" => click[c].call \in {"add", "queue"} /\ HoldsOnce(c, Picked(c))

IInv == TypeOK /\ Staged /\ \A c \in Clicks : InStep(c) /\ Kept(c)

Promise == INSTANCE ImportPromise WITH
    told <- [c \in Clicks |-> click[c].told],
    stored <- [c \in Clicks |-> StoredOf(c)]

(* An import over the network keeps what an import promises: whatever is lost, times   *)
(* out or dies between its calls, and whoever else imports a file of the same name,    *)
(* the file is stored at most once, and one that is "done" as it was picked.  One that *)
(* has failed may have left half of its file, under a name of its own.                 *)
ImportsKeepPromise == Promise!Spec
=============================================================================

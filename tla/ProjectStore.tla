---------------------------- MODULE ProjectStore ----------------------------
(***************************************************************************)
(* Where chronicles keep their project databases: DatabaseManager          *)
(* (core/database_manager.py) with its cache of engines and its migration  *)
(* lock, the checks its callers make before they open a database, and      *)
(* ChronicleService.delete_chronicle.                                      *)
(*                                                                         *)
(* Callers are coroutines of one process (task handlers, the panels of a   *)
(* view, remote calls, an export, a deletion); a step runs from one await  *)
(* to the next.  A chronicle has its database at "home" in the workspace,  *)
(* or is linked to a file at a "link" that its owner may move away.        *)
(***************************************************************************)
EXTENDS Integers, Sequences, FiniteSets

CONSTANTS
    Chronicles,
    Linked,         \* those that have a project_path
    Callers,
    None,
    MaxCalls        \* bound: how many calls there are

Places == Chronicles \X {"home", "link"}
Home(c) == <<c, "home">>
Link(c) == <<c, "link">>

\* handler: project_session; service: _get_repository; copy: snapshot_before_clean;
\* export: export_zip; delete: delete_chronicle.
Ops == {"handler", "service", "copy", "export", "delete"}

Calls == [on : Chronicles, op : Ops]

ASSUME StoreAssumption ==
    /\ Linked \subseteq Chronicles
    /\ None \notin Calls \cup Places
    /\ MaxCalls \in Nat

VARIABLES
    row,        \* the chronicle's row in the archive database
    db,         \* who made the file at each place; "absent" if there is none, and "late" is
                \* a caller whose linked file was moved since it looked
    engines,    \* every engine made: the place it opens, and what became of it
    cache,      \* _project_engines: an index of engines, 0 for none
    queue,      \* _migration_lock: its holder, and those who wait in turn
    call,       \* the call each caller is in
    pc,         \* where it is
    path,       \* the place it found out
    using,      \* the engine of its session
    calls,      \* history: how many calls there were
    raced,      \* history: chronicles deleted while a caller was opening them
    moved,      \* history: callers whose linked file was moved since their first check
    stuck       \* history: chronicles whose files could not be removed

callers == <<call, pc, path, using>>
history == <<calls, raced, moved, stuck>>
vars == <<row, db, engines, cache, queue, callers, history>>

Engine == [at : Places, is : {"new", "cached", "disposed", "leaked"}]

\* The steps of opening a database, from the caller's first check on.
Opening == {"path", "open", "wait", "migrate"}

TypeOK ==
    /\ row \in [Chronicles -> {"none", "there", "gone"}]
    /\ db \in [Places -> {"absent", "owner", "late"} \cup Ops]
    /\ engines \in Seq(Engine)
    /\ cache \in [Chronicles -> 0 .. Len(engines)]
    /\ queue \in Seq(Callers)
    /\ call \in [Callers -> Calls \cup {None}]
    /\ pc \in [Callers -> {"idle", "check", "use", "read", "close", "row", "remove"} \cup Opening]
    /\ path \in [Callers -> Places \cup {None}]
    /\ using \in [Callers -> 0 .. Len(engines)]
    /\ \A p \in Callers : (call[p] = None) = (pc[p] = "idle")
    /\ calls \in 0 .. MaxCalls
    /\ raced \subseteq Chronicles
    /\ moved \subseteq Callers
    /\ stuck \subseteq Chronicles

Init ==
    /\ row = [c \in Chronicles |-> "none"]
    /\ db = [x \in Places |-> IF x[1] \in Linked /\ x[2] = "link" THEN "owner" ELSE "absent"]
    /\ engines = <<>>
    /\ cache = [c \in Chronicles |-> 0]
    /\ queue = <<>>
    /\ call = [p \in Callers |-> None]
    /\ pc = [p \in Callers |-> "idle"]
    /\ path = [p \in Callers |-> None]
    /\ using = [p \in Callers |-> 0]
    /\ calls = 0
    /\ raced = {}
    /\ moved = {}
    /\ stuck = {}
-----------------------------------------------------------------------------
On(p) == call[p].on
Goto(p, s) == pc' = [pc EXCEPT ![p] = s]

\* Mutant: the call that has returned is kept.
ReturnOnly(p) == Goto(p, "idle") /\ UNCHANGED <<call, path, using>>

Return(p) ==
    /\ Goto(p, "idle")
    /\ call' = [call EXCEPT ![p] = None]
    /\ path' = [path EXCEPT ![p] = None]
    /\ using' = [using EXCEPT ![p] = 0]

\* The callers that are past their first check of c, in one of these steps.
InSteps(c, steps) == {p \in Callers : call[p] # None /\ On(p) = c /\ pc[p] \in steps}

PathOf(c) == IF row[c] = "there" /\ c \in Linked THEN Link(c) ELSE Home(c)

\* create_chronicle, link_external_chronicle.
Create(c) ==
    /\ row[c] = "none"
    /\ c \in Linked => db[Link(c)] # "absent"
    /\ row' = [row EXCEPT ![c] = "there"]
    /\ UNCHANGED <<db, engines, cache, queue, callers, history>>

\* The id comes from a view or a task: at the call the row is there, or was.
\* A task's row goes with its chronicle's.
Begin(p, c, op) ==
    /\ pc[p] = "idle"
    /\ IF op \in {"handler", "copy"} THEN row[c] = "there" ELSE row[c] # "none"
    /\ calls < MaxCalls
    /\ calls' = calls + 1
    /\ call' = [call EXCEPT ![p] = [on |-> c, op |-> op]]
    /\ Goto(p, IF op = "delete" THEN "read" ELSE IF op = "copy" THEN "path" ELSE "check")
    /\ moved' = moved \ {p}
    /\ UNCHANGED <<row, db, engines, cache, queue, path, using, raced, stuck>>

\* Mutants: only the row is looked at; only the file.
RowThere(c) == row[c] = "there"
FileThere(c) == c \in Linked => db[Link(c)] # "absent"

\* ensure_project_available.
Available(c) == row[c] = "there" /\ (c \in Linked => db[Link(c)] # "absent")

\* A handler asks for the path again, and so does an export, which looks at
\* the row only; a service has it from the same read.
Check(p) ==
    /\ pc[p] = "check"
    /\ LET c == On(p)
           op == call[p].op
       IN  IF IF op = "export" THEN row[c] = "there" ELSE Available(c)
           THEN /\ Goto(p, IF op = "service" THEN "open" ELSE "path")
                /\ path' = IF op = "service" THEN [path EXCEPT ![p] = PathOf(c)] ELSE path
                /\ UNCHANGED <<call, using>>
           ELSE Return(p)
    /\ UNCHANGED <<row, db, engines, cache, queue, history>>

ReadPath(p) ==
    /\ pc[p] = "path"
    /\ path' = [path EXCEPT ![p] = PathOf(On(p))]
    /\ Goto(p, "open")
    /\ UNCHANGED <<row, db, engines, cache, queue, call, using, history>>

Take(p, e) == using' = [using EXCEPT ![p] = e] /\ Goto(p, "use")

\* _project_engine: the cached engine, else the lock.
Open(p) ==
    /\ pc[p] = "open"
    /\ IF cache[On(p)] # 0
       THEN Take(p, cache[On(p)]) /\ UNCHANGED queue
       ELSE Goto(p, "wait") /\ queue' = Append(queue, p) /\ UNCHANGED using
    /\ UNCHANGED <<row, db, engines, cache, call, path, history>>

NewEngine(p) == engines' = Append(engines, [at |-> path[p], is |-> "new"])

\* Mutant: the cache is not looked up again under the lock.
LockedBlindly(p) ==
    /\ pc[p] = "wait"
    /\ Head(queue) = p
    /\ NewEngine(p)
    /\ using' = [using EXCEPT ![p] = Len(engines) + 1]
    /\ Goto(p, "migrate")
    /\ UNCHANGED <<row, db, cache, queue, call, path, history>>

\* Whoever had the lock before may have cached the engine.
Locked(p) ==
    /\ pc[p] = "wait"
    /\ Head(queue) = p
    /\ IF cache[On(p)] # 0
       THEN Take(p, cache[On(p)]) /\ queue' = Tail(queue) /\ UNCHANGED engines
       ELSE /\ NewEngine(p)
            /\ using' = [using EXCEPT ![p] = Len(engines) + 1]
            /\ Goto(p, "migrate")
            /\ UNCHANGED queue
    /\ UNCHANGED <<row, db, cache, call, path, history>>

Becomes(e, s) == engines' = [engines EXCEPT ![e].is = s]

Maker(p) == IF p \in moved THEN "late" ELSE call[p].op

\* The migration is done.  Its connection made the file if there was none.
Migrated(p) ==
    /\ pc[p] = "migrate"
    /\ db' = [db EXCEPT ![path[p]] = IF @ = "absent" THEN Maker(p) ELSE @]
    /\ Becomes(using[p], "cached")
    /\ cache' = [cache EXCEPT ![On(p)] = using[p]]
    /\ queue' = Tail(queue)
    /\ Goto(p, "use")
    /\ UNCHANGED <<row, call, path, using, history>>

\* Mutant: the lock is kept by a call that has failed.
KeepLock(p) == UNCHANGED queue

\* The lock is released, or no longer waited for, on every way out of it.
InLock(p) == pc[p] \in {"wait", "migrate"}
LeaveLock(p) ==
    \/ ~InLock(p) /\ UNCHANGED queue
    \/ /\ InLock(p)
       /\ \E i \in DOMAIN queue :
             /\ queue[i] = p
             /\ queue' = [j \in 1 .. Len(queue) - 1 |-> queue[IF j < i THEN j ELSE j + 1]]

MigrationFails(p) ==
    /\ pc[p] = "migrate"
    /\ Becomes(using[p], "disposed")
    /\ LeaveLock(p)
    /\ Return(p)
    /\ UNCHANGED <<row, db, cache, history>>

\* A cancellation is no Exception: an engine under way is not disposed.
Cancel(p) ==
    /\ call[p] # None
    /\ call[p].op \in {"handler", "copy"}
    /\ IF pc[p] = "migrate" THEN Becomes(using[p], "leaked") ELSE UNCHANGED engines
    /\ LeaveLock(p)
    /\ Return(p)
    /\ UNCHANGED <<row, db, cache, history>>

\* The caller is done with its session or its snapshot.  A connection of its
\* own, if the pool had none, may have made a linked file that is not there;
\* at home the directory went with the file, and connecting fails.
Use(p) ==
    /\ pc[p] = "use"
    /\ LET x == engines[using[p]].at
       IN  \/ UNCHANGED db
           \/ x[2] = "link" /\ db[x] = "absent" /\ db' = [db EXCEPT ![x] = Maker(p)]
    /\ Return(p)
    /\ UNCHANGED <<row, engines, cache, queue, history>>
-----------------------------------------------------------------------------
(* delete_chronicle *)

\* path is what the row said; None for a row that is gone.
ReadRow(p) ==
    /\ pc[p] = "read"
    /\ path' = [path EXCEPT ![p] = IF row[On(p)] = "there" THEN PathOf(On(p)) ELSE None]
    /\ Goto(p, "close")
    /\ UNCHANGED <<row, db, engines, cache, queue, call, using, history>>

\* The engine leaves the cache before the await on its disposal.
CloseProject(p) ==
    /\ pc[p] = "close"
    /\ LET c == On(p)
       IN  IF cache[c] = 0
           THEN UNCHANGED <<engines, cache>>
           ELSE Becomes(cache[c], "disposed") /\ cache' = [cache EXCEPT ![c] = 0]
    /\ Goto(p, "row")
    /\ UNCHANGED <<row, db, queue, call, path, using, history>>

\* The row is deleted; a linked chronicle's files stay.
DeleteRow(p) ==
    /\ pc[p] = "row"
    /\ LET c == On(p)
       IN  /\ row' = [row EXCEPT ![c] = "gone"]
           /\ raced' = IF InSteps(c, Opening) # {} THEN raced \cup {c} ELSE raced
           /\ IF path[p] = Link(c)
              THEN Return(p)
              ELSE Goto(p, "remove") /\ UNCHANGED <<call, path, using>>
    /\ UNCHANGED <<db, engines, cache, queue, calls, moved, stuck>>

\* Somebody has the file open.
InUse(x) ==
    \/ \E e \in DOMAIN engines : engines[e].at = x /\ engines[e].is # "disposed"
    \/ \E p \in Callers : pc[p] = "use" /\ engines[using[p]].at = x

\* remove_directory gives up on a file that stays open, where the system
\* does not let it be removed.
RemoveDirectory(p) ==
    /\ pc[p] = "remove"
    /\ LET c == On(p)
       IN  \/ db' = [db EXCEPT ![Home(c)] = "absent"] /\ UNCHANGED stuck
           \/ InUse(Home(c)) /\ stuck' = stuck \cup {c} /\ UNCHANGED db
    /\ Return(p)
    /\ UNCHANGED <<row, engines, cache, queue, calls, raced, moved>>

\* The owner of a linked file moves it away, or puts it back.
MoveFile(c) ==
    /\ db[Link(c)] = "owner"
    /\ db' = [db EXCEPT ![Link(c)] = "absent"]
    /\ moved' = moved \cup InSteps(c, Opening \cup {"use"})
    /\ UNCHANGED <<row, engines, cache, queue, callers, calls, raced, stuck>>

PutFile(c) ==
    /\ db[Link(c)] = "absent"
    /\ db' = [db EXCEPT ![Link(c)] = "owner"]
    /\ UNCHANGED <<row, engines, cache, queue, callers, history>>
-----------------------------------------------------------------------------
CallerStep(p) ==
    \/ Check(p) \/ ReadPath(p) \/ Open(p) \/ Locked(p)
    \/ Migrated(p) \/ MigrationFails(p) \/ Use(p)
    \/ ReadRow(p) \/ CloseProject(p) \/ DeleteRow(p) \/ RemoveDirectory(p)

Next ==
    \/ \E c \in Chronicles : Create(c)
    \/ \E c \in Linked : MoveFile(c) \/ PutFile(c)
    \/ \E p \in Callers :
          \/ \E c \in Chronicles, op \in Ops : Begin(p, c, op)
          \/ CallerStep(p)
          \/ Cancel(p)

Spec == Init /\ [][Next]_vars

\* The event loop runs whatever is ready, and files and migrations answer.
FairSpec == Spec /\ \A p \in Callers : WF_vars(CallerStep(p))
-----------------------------------------------------------------------------
(* Properties *)

\* "creating and migrating it at most once" (database_manager.py): a project
\* never has two engines, one of them being migrated or cached, and no two
\* migrations run at once, whatever they are for; and what the cache hands
\* out is the project's own engine, never one that was disposed.
Live(e) == engines[e].is \in {"new", "cached"}
OneEngine ==
    /\ \A d, e \in DOMAIN engines :
          Live(d) /\ Live(e) /\ engines[d].at[1] = engines[e].at[1] => d = e
    /\ \A d, e \in DOMAIN engines : engines[d].is = "new" /\ engines[e].is = "new" => d = e
    /\ \A c \in Chronicles : cache[c] # 0 => /\ engines[cache[c]].at[1] = c
                                           /\ engines[cache[c]].is = "cached"

\* A deleted chronicle leaves no database in the workspace once its deletion
\* is over: none that was opened between the steps of it, and none for a
\* caller that came late.  Callers that were opening it when its row went
\* can leave one, and files that stay open.
Deleting(c) == \E p \in Callers : call[p] = [on |-> c, op |-> "delete"]
DeletedIsGone ==
    \A c \in Chronicles \ (raced \cup stuck) :
        row[c] = "gone" /\ ~Deleting(c) => db[Home(c)] = "absent"

\* "LookupError for a chronicle with no row (deleted while the task waited) [...] instead
\* of creating a new empty database" (project_session of handlers/base.py): once its
\* deletion is over, and has removed the files, no database is made for a chronicle - not
\* by a task that had found the row before it went either.
NoDatabaseForTheDeleted ==
    \A c \in Chronicles \ stuck :
        row[c] = "gone" /\ ~Deleting(c) => db[Home(c)] # "handler"

\* "Reading a chronicle [...] whose linked project.db has moved, raises [...] rather
\* than creating a new empty database" (docs/audio-sources.md:108): no panel, no
\* handler and no export puts a database where a linked one was.
ReadingCreatesNothing ==
    \A c \in Linked : db[Link(c)] \notin {"handler", "service", "export"}

\* How far the look goes that a handler and a service take first
\* (ensure_project_available): what is made at a link is made by an export or a
\* clean's copy, which do not look, or by a caller whose file was moved away
\* after it had looked; never by one that came later, whatever was cached for
\* the chronicle and whoever had opened it before.
LookKeepsTheLink ==
    \A c \in Linked : db[Link(c)] \notin {"handler", "service"}

\* Every call returns: nobody waits for the migration lock for ever, whoever
\* failed or was cancelled while having it.
EveryCallReturns == \A p \in Callers : pc[p] # "idle" ~> pc[p] = "idle"
=============================================================================

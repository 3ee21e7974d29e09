----------------------------- MODULE ViewScopes -----------------------------
(***************************************************************************)
(* The desktop application (desktop/app.py): which view is on screen, the  *)
(* resolution scope it works through, and the database session of every    *)
(* scope, from the start of the window to its cleanup.                     *)
(*                                                                         *)
(* Everything runs on one event loop, and a step here ends where the code  *)
(* awaits.  The actors that may be inside update_view at such a point are  *)
(* the handlers of clicks and the worker, which publishes its events one   *)
(* after the other.  The loads of a view and the refresh of the model list *)
(* run as tasks of their own.  Closing a session that has no connection    *)
(* does not suspend; a session another coroutine is connecting or closing  *)
(* refuses to be closed.                                                   *)
(***************************************************************************)
EXTENDS Naturals, FiniteSets

CONSTANTS
    Handlers,   \* the handlers of clicks that may be in progress together
    Worker,     \* the worker, publishing an event
    Chronicles,
    MaxScopes,  \* bound: the scopes made
    NoChronicle        \* no chronicle

ASSUME ViewAssumption ==
    /\ MaxScopes \in Nat
    /\ Worker \notin Handlers
    /\ NoChronicle \notin Chronicles

Actors == Handlers \cup {Worker}
Scopes == 1..MaxScopes

VARIABLES
    view,       \* AppState.current_view
    selected,   \* AppState.selected_chronicle
    shown,      \* what content_area holds, and the scope it was built with
    lit,        \* the sidebar's selected_view
    editing,    \* TranscriptView.editing of the view on screen
    scope,      \* _view_scope; 0 is None
    made,       \* the scopes made so far
    session,    \* the session of each scope
    loads,      \* the queries the tasks of a scope's view have still to make
    pc,         \* where each actor is in update_view
    at,         \* the scope it closes or asks through
    wanted,     \* the chronicle it asks for
    models,     \* the scope of refresh_models while it runs; 0 when it does not
    exists,     \* the chronicles of the archive
    app,        \* the application
    failed,     \* history: an update raised or was cancelled
    overlapped, \* history: an update or a deletion began while another was under way
    late,       \* history: scopes whose view queried after its session was let go
    closings,   \* history: how often cleanup was called
    crossed     \* history: it was called while a handler was in an update or in a cleanup

place == <<view, selected>>
screen == <<shown, editing>>
sessions == <<scope, made, session>>
actors == <<pc, at, wanted>>
ending == <<closings, crossed>>
viewHistory == <<failed, overlapped, late, ending>>
viewVars == <<place, lit, screen, sessions, loads, actors, models, exists, app, viewHistory>>

Views == {"archive", "tasks", "settings", "transcript"}

ViewsTypeOK ==
    /\ view \in Views
    /\ selected \in Chronicles \cup {NoChronicle}
    /\ shown \in [view : Views \cup {"none"}, chronicle : Chronicles \cup {NoChronicle},
                  scope : 0..MaxScopes]
    /\ lit \in Views \ {"transcript"}
    /\ editing \in BOOLEAN
    /\ scope \in 0..MaxScopes
    /\ made \in 0..MaxScopes
    /\ session \in [Scopes -> {"idle", "connecting", "open", "closing"}]
    /\ loads \in [Scopes -> 0..3]
    /\ pc \in [Actors -> {"idle", "closing", "asking", "deleting", "stopping", "releasing"}]
    /\ at \in [Actors -> 0..MaxScopes]
    /\ wanted \in [Actors -> Chronicles \cup {NoChronicle}]
    /\ models \in 0..MaxScopes
    /\ exists \subseteq Chronicles
    /\ app \in {"new", "running", "closing", "closed"}
    /\ failed \in BOOLEAN
    /\ overlapped \in BOOLEAN
    /\ late \subseteq Scopes
    /\ closings \in 0..2
    /\ crossed \in BOOLEAN

ViewsInit ==
    /\ view = "archive"
    /\ selected = NoChronicle
    /\ shown = [view |-> "none", chronicle |-> NoChronicle, scope |-> 0]
    /\ lit = "archive"
    /\ editing = FALSE
    /\ scope = 0
    /\ made = 0
    /\ session = [s \in Scopes |-> "idle"]
    /\ loads = [s \in Scopes |-> 0]
    /\ pc = [a \in Actors |-> "idle"]
    /\ at = [a \in Actors |-> 0]
    /\ wanted = [a \in Actors |-> NoChronicle]
    /\ models = 0
    /\ exists = Chronicles
    /\ app = "new"
    /\ failed = FALSE
    /\ overlapped = FALSE
    /\ late = {}
    /\ closings = 0
    /\ crossed = FALSE

\* close_scope: no scope, or one whose session has no connection, has nothing to close.
ViewSession == IF scope = 0 THEN "idle" ELSE session[scope]
Busy(s) == session[s] \in {"connecting", "closing"}
Updating(a) == pc[a] \in {"closing", "asking", "deleting"}
OthersUpdate(a) == \E b \in Actors \ {a} : Updating(b)
Open(s) == session[s] # "idle"
-----------------------------------------------------------------------------
(* update_view, from one await to the next. *)

\* Mutant: every load is started by the constructor as well.
LoadsTwice(v) == CASE v = "archive" -> 2 [] v = "tasks" -> 4 [] v = "transcript" -> 6
                   [] OTHER -> 0

\* The queries the tasks started by did_mount make of the archive.
LoadsOf(v) == CASE v = "archive" -> 1 [] v = "tasks" -> 2 [] v = "transcript" -> 3
                [] OTHER -> 0

\* content_area.content = content, and did_mount of the view that is put there.
Show(v, c, s) ==
    /\ shown' = [view |-> v, chronicle |-> c, scope |-> s]
    /\ editing' = FALSE
    /\ loads' = IF s = 0 THEN loads ELSE [loads EXCEPT ![s] = LoadsOf(v)]

Leave(a) ==
    /\ pc' = [pc EXCEPT ![a] = "idle"]
    /\ at' = [at EXCEPT ![a] = 0]
    /\ wanted' = [wanted EXCEPT ![a] = NoChronicle]

\* A first query takes a connection from the pool, or waits for a new one.
Query(s) ==
    \/ /\ session[s] = "idle"
       /\ \E how \in {"connecting", "open"} : session' = [session EXCEPT ![s] = how]
    \/ /\ session[s] = "open"
       /\ UNCHANGED session

NewScope(sess) ==
    /\ made < MaxScopes
    /\ made' = made + 1 /\ scope' = made + 1
    /\ session' = sess

\* _build_view, at place v and c; without a chronicle a transcript goes back.
BuildView(a, v, c, sess) ==
    LET to == IF v = "transcript" /\ c = NoChronicle THEN "archive" ELSE v IN
    /\ view' = to /\ selected' = c
    /\ \/ /\ to \in {"archive", "tasks"}
          /\ NewScope(sess)
          /\ Show(to, NoChronicle, made + 1)
          /\ Leave(a)
       \/ /\ to = "settings"
          /\ session' = sess /\ scope' = 0
          /\ Show(to, NoChronicle, 0)
          /\ Leave(a)
          /\ UNCHANGED made
       \/ /\ to = "transcript"
          /\ \E how \in {"connecting", "open"} : NewScope([sess EXCEPT ![made + 1] = how])
          /\ pc' = [pc EXCEPT ![a] = "asking"]
          /\ at' = [at EXCEPT ![a] = made + 1]
          /\ wanted' = [wanted EXCEPT ![a] = c]
          /\ UNCHANGED <<screen, loads>>

\* state.navigate_to(v, c) and then update_view, up to its first suspension.
Update(a, v, c) ==
    /\ overlapped' = (overlapped \/ OthersUpdate(a))
    /\ \/ /\ ViewSession = "idle"
          /\ BuildView(a, v, c, session)
          /\ UNCHANGED failed
       \/ /\ ViewSession = "open"
          /\ session' = [session EXCEPT ![scope] = "closing"]
          /\ view' = v /\ selected' = c
          /\ pc' = [pc EXCEPT ![a] = "closing"]
          /\ at' = [at EXCEPT ![a] = scope]
          /\ wanted' = [wanted EXCEPT ![a] = NoChronicle]
          /\ UNCHANGED <<screen, scope, made, loads, failed>>
       \/ /\ ViewSession \in {"connecting", "closing"}
          /\ failed' = TRUE
          /\ view' = v /\ selected' = c
          /\ Leave(a)
          /\ UNCHANGED <<screen, sessions, loads>>

\* _close_view_scope returns: whatever scope is the view's by now is forgotten.
ScopeClosed(a) ==
    /\ pc[a] = "closing"
    /\ BuildView(a, view, selected, [session EXCEPT ![at[a]] = "idle"])
    /\ UNCHANGED <<lit, models, exists, app, viewHistory>>

\* Mutant: a chronicle that is gone leaves the view as it was.
ChronicleReadStays(a) ==
    /\ pc[a] = "asking"
    /\ session[at[a]] # "connecting"
    /\ \/ /\ wanted[a] \in exists
          /\ selected' = wanted[a]
          /\ Show("transcript", wanted[a], at[a])
       \/ /\ wanted[a] \notin exists
          /\ UNCHANGED <<selected, screen, loads>>
    /\ Leave(a)
    /\ UNCHANGED <<view, lit, sessions, models, exists, app, viewHistory>>

\* get_chronicle returns: the view is shown, or go_back, or the error leaves it as it was.
ChronicleRead(a) ==
    /\ pc[a] = "asking"
    /\ session[at[a]] # "connecting"
    /\ \/ /\ wanted[a] \in exists
          /\ selected' = wanted[a]
          /\ Show("transcript", wanted[a], at[a])
          /\ Leave(a)
          /\ UNCHANGED <<view, sessions, failed, overlapped>>
       \/ /\ wanted[a] \notin exists
          /\ Update(a, "archive", NoChronicle)
       \/ /\ failed' = TRUE
          /\ Leave(a)
          /\ UNCHANGED <<place, lit, screen, sessions, loads, overlapped>>
    /\ UNCHANGED <<lit, models, exists, app, late, ending>>
-----------------------------------------------------------------------------
(* What starts an update. *)

Goes(a, v, c) ==
    /\ pc[a] = "idle"
    /\ app # "closed"
    /\ Update(a, v, c)
    /\ UNCHANGED <<models, exists, late, ending>>

\* DesktopApp.main: the first view.
Start(h) ==
    /\ app = "new"
    /\ app' = "running"
    /\ Goes(h, view, selected)
    /\ UNCHANGED lit

\* handle_nav_click, on_sidebar_nav_change; an id the sidebar does not offer cannot be clicked.
Navigate(h, v) ==
    /\ app = "running"
    /\ lit' = v
    /\ Goes(h, v, NoChronicle)
    /\ UNCHANGED app

\* open_chronicle: a card of the archive, the chronicle still there or not.
OpenChronicle(h, c) ==
    /\ app = "running" /\ shown.view = "archive"
    /\ Goes(h, "transcript", c)
    /\ UNCHANGED <<lit, app>>

\* go_back, from the transcript's arrow.
GoBack(h) ==
    /\ app = "running" /\ shown.view = "transcript"
    /\ Goes(h, "archive", NoChronicle)
    /\ UNCHANGED <<lit, app>>

\* on_dark_mode_change, on_locale_change, and the transcript's reload unless it is edited.
Refresh(h) ==
    /\ app = "running"
    /\ shown.view = "settings" \/ (shown.view = "transcript" /\ ~editing)
    /\ Goes(h, view, selected)
    /\ UNCHANGED <<lit, app>>

\* _on_task_completed: settings and another chronicle's transcript stay as they are.
TaskCompleted(c) ==
    /\ app = "running"
    /\ view # "settings"
    /\ view = "transcript" /\ selected # NoChronicle => c \in {NoChronicle, selected}
    /\ Goes(Worker, view, selected)
    /\ UNCHANGED <<lit, app>>

\* delete_clicked on a card: the chronicle goes and the list is read again.
DeleteCard(h, c) ==
    /\ app = "running" /\ pc[h] = "idle"
    /\ shown.view = "archive" /\ c \in exists
    /\ exists' = exists \ {c}
    /\ loads' = [loads EXCEPT ![shown.scope] = LoadsOf("archive")]
    /\ UNCHANGED <<place, lit, screen, sessions, actors, models, app, viewHistory>>

\* The transcript's delete: the chronicle goes, and when that is done the view goes back.
Delete(h) ==
    /\ app = "running" /\ pc[h] = "idle"
    /\ shown.view = "transcript" /\ shown.chronicle \in exists
    /\ exists' = exists \ {shown.chronicle}
    /\ pc' = [pc EXCEPT ![h] = "deleting"]
    /\ overlapped' = (overlapped \/ OthersUpdate(h))
    /\ UNCHANGED <<place, lit, screen, sessions, loads, at, wanted, models, app, failed, late,
                   ending>>

Deleted(h) ==
    /\ pc[h] = "deleting"
    /\ Update(h, "archive", NoChronicle)
    /\ UNCHANGED <<lit, models, exists, app, late, ending>>
-----------------------------------------------------------------------------
(* The tasks of a view, and of the model list, on the same loop. *)

\* One query of load_chronicles, load_tasks or the transcript's three loads.  Nothing
\* cancels them when the view goes; a session at work elsewhere makes them fail, and
\* an error ends a task and is drawn.
Load(s) ==
    /\ loads[s] > 0
    /\ \/ /\ Query(s)
          /\ loads' = [loads EXCEPT ![s] = @ - 1]
          /\ late' = IF s = scope THEN late ELSE late \cup {s}
       \/ /\ Busy(s)
          /\ loads' \in {[loads EXCEPT ![s] = n] : n \in {0, loads[s] - 1}}
          /\ UNCHANGED <<session, late>>
    /\ UNCHANGED <<place, lit, screen, scope, made, actors, models, exists, app, failed,
                   overlapped, ending>>

Connected(s) ==
    /\ session[s] = "connecting"
    /\ session' = [session EXCEPT ![s] = "open"]
    /\ UNCHANGED <<place, lit, screen, scope, made, loads, actors, models, exists, app,
                   viewHistory>>

\* The refresh button, a search, a filter or a retry.
ReloadList(h) ==
    /\ app = "running" /\ pc[h] = "idle"
    /\ shown.view \in {"archive", "tasks"} /\ loads[shown.scope] = 0
    /\ loads' = [loads EXCEPT ![shown.scope] = LoadsOf(shown.view)]
    /\ UNCHANGED <<place, lit, screen, sessions, actors, models, exists, app, viewHistory>>

\* edit_toggled: the editor, or the transcript again, is loaded.
ToggleEdit(h) ==
    /\ app = "running" /\ pc[h] = "idle"
    /\ shown.view = "transcript" /\ loads[shown.scope] = 0
    /\ editing' = ~editing
    /\ loads' = [loads EXCEPT ![shown.scope] = 1]
    /\ UNCHANGED <<place, lit, shown, sessions, actors, models, exists, app, viewHistory>>

\* refresh_models, from main and on_llm_change: a scope of its own, closed in the end.
RefreshModels ==
    /\ app = "running" /\ models = 0
    /\ made < MaxScopes
    /\ made' = made + 1 /\ models' = made + 1
    /\ UNCHANGED <<place, lit, screen, scope, session, loads, actors, exists, app,
                   viewHistory>>

ReadInfo ==
    /\ models # 0 /\ session[models] = "idle"
    /\ Query(models)
    /\ UNCHANGED <<place, lit, screen, scope, made, loads, actors, models, exists, app,
                   viewHistory>>

CloseModels ==
    /\ models # 0
    /\ \/ /\ session[models] = "open"
          /\ session' = [session EXCEPT ![models] = "closing"]
          /\ UNCHANGED models
       \/ /\ session[models] = "closing"
          /\ session' = [session EXCEPT ![models] = "idle"]
          /\ models' = 0
    /\ UNCHANGED <<place, lit, screen, scope, made, loads, actors, exists, app, viewHistory>>
-----------------------------------------------------------------------------
(* cleanup: on_disconnect when the connection to the window is lost, on_close when it   *)
(* is closed, or both, one in the other if it has to be.                                *)

\* Whoever is in a handler's update or in a cleanup.
BusyHandlers == {b \in Handlers : pc[b] # "idle"}

\* Mutant: the worker is told to stop and not cancelled, and its update goes on.
CleanUpBeside(h) ==
    /\ app # "new" /\ pc[h] = "idle"
    /\ closings < 2 /\ closings' = closings + 1
    /\ app' = IF app = "running" THEN "closing" ELSE app
    /\ crossed' = (crossed \/ BusyHandlers # {})
    /\ pc' = [pc EXCEPT ![h] = "stopping"]
    /\ UNCHANGED <<place, lit, screen, sessions, loads, at, wanted, models, exists, failed,
                   overlapped, late>>

\* The worker is cancelled at its await, inside update_view or not; the second time there
\* is none to wait for.
CleanUp(h) ==
    /\ app # "new" /\ pc[h] = "idle"
    /\ closings < 2 /\ closings' = closings + 1
    /\ app' = IF app = "running" THEN "closing" ELSE app
    /\ crossed' = (crossed \/ BusyHandlers # {})
    /\ pc' = [pc EXCEPT ![h] = "stopping", ![Worker] = "idle"]
    /\ at' = [at EXCEPT ![Worker] = 0]
    /\ wanted' = [wanted EXCEPT ![Worker] = NoChronicle]
    /\ session' = IF pc[Worker] = "closing" THEN [session EXCEPT ![at[Worker]] = "open"]
                  ELSE session
    /\ failed' = (failed \/ Updating(Worker))
    /\ UNCHANGED <<place, lit, screen, scope, made, loads, models, exists, overlapped, late>>

\* The worker has ended: the view's session is closed, then the root's, then the engines
\* are disposed; a session that refuses to be closed ends the cleanup before that.
Release(h) ==
    /\ pc[h] = "stopping"
    /\ \/ /\ ViewSession = "idle"
          /\ scope' = 0
          /\ app' = "closed"
          /\ Leave(h)
          /\ UNCHANGED <<session, failed>>
       \/ /\ ViewSession = "open"
          /\ session' = [session EXCEPT ![scope] = "closing"]
          /\ pc' = [pc EXCEPT ![h] = "releasing"]
          /\ at' = [at EXCEPT ![h] = scope]
          /\ UNCHANGED <<scope, wanted, app, failed>>
       \/ /\ ViewSession \in {"connecting", "closing"}
          /\ failed' = TRUE
          /\ Leave(h)
          /\ UNCHANGED <<scope, session, app>>
    /\ UNCHANGED <<place, lit, screen, made, loads, models, exists, overlapped, late, ending>>

Released(h) ==
    /\ pc[h] = "releasing"
    /\ session' = [session EXCEPT ![at[h]] = "idle"]
    /\ scope' = 0
    /\ app' = "closed"
    /\ Leave(h)
    /\ UNCHANGED <<place, lit, screen, made, loads, models, exists, viewHistory>>
-----------------------------------------------------------------------------
Clicked(h) ==
    \/ Start(h) \/ GoBack(h) \/ Refresh(h) \/ Delete(h) \/ Deleted(h) \/ ReloadList(h)
    \/ ToggleEdit(h) \/ CleanUp(h) \/ Release(h) \/ Released(h)
    \/ \E v \in {"archive", "tasks", "settings"} : Navigate(h, v)
    \/ \E c \in Chronicles : OpenChronicle(h, c) \/ DeleteCard(h, c)

Continue(a) == ScopeClosed(a) \/ ChronicleRead(a)
WorkerStep == Continue(Worker) \/ \E c \in Chronicles \cup {NoChronicle} : TaskCompleted(c)
Background == (\E s \in Scopes : Load(s) \/ Connected(s))
              \/ RefreshModels \/ ReadInfo \/ CloseModels

ViewsNext ==
    \/ \E h \in Handlers : Clicked(h) \/ Continue(h)
    \/ WorkerStep
    \/ Background

ViewsSpec == ViewsInit /\ [][ViewsNext]_viewVars
-----------------------------------------------------------------------------
(* A session that holds a connection is that of the view's scope, or the model list's,  *)
(* or was opened again by a query of a view that had been left: update_view, go_back    *)
(* and cleanup lose none, also when two of them are under way together, and when one    *)
(* fails or is cancelled.  Once the engines are disposed the view's scope is no excuse, *)
(* unless a handler was in an update or in the other cleanup when cleanup was called;   *)
(* the others remain one, against what cleanup says of itself (NoneOpenAtDisposal).     *)
Accounted == {models} \cup late \cup IF app = "closed" /\ ~crossed THEN {} ELSE {scope}
SessionsAccounted == \A s \in Scopes : Open(s) => s \in Accounted

(* "Every session this app opened has to be closed before the engines are disposed"     *)
(* (app.py:125).                                                                        *)
NoneOpenAtDisposal ==
    [][app' = "closed" /\ app # "closed" => \A s \in Scopes : session'[s] = "idle"]_viewVars

(* "Each navigation gets a fresh Container scope, closed when navigating away"          *)
(* (docs/desktop.md:42): while the application runs, no other scope than the view's and *)
(* the model list's holds a connection.                                                 *)
LeftScopesAreClosed ==
    app = "running" => \A s \in Scopes : Open(s) => s \in {scope, models}

(* AppState is "which view is on screen and, for the transcript view, which chronicle   *)
(* it's showing" (desktop/state.py:22), with no update under way and none that failed.  *)
StateIsOnScreen ==
    (app = "running" /\ ~failed /\ \A a \in Actors : ~Updating(a)) =>
        /\ shown.view = view
        /\ shown.chronicle = IF view = "transcript" THEN selected ELSE NoChronicle

(* When also none began inside another, the screen shows the place the state says the  *)
(* user is at, built with the scope that is kept, and the sidebar marks the item it    *)
(* was reached from.                                                                   *)
ShownIsCurrent ==
    (app = "running" /\ ~overlapped /\ ~failed /\ \A a \in Actors : ~Updating(a)) =>
        /\ shown.view = view
        /\ shown.chronicle = IF view = "transcript" THEN selected ELSE NoChronicle
        /\ shown.scope = scope
        /\ lit = IF view = "transcript" THEN "archive" ELSE view
=============================================================================

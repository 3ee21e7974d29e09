------------------------- MODULE ProjectStoreProofs -------------------------
(***************************************************************************)
(* The migration lock and the cache of engines do what _project_engine     *)
(* promises, and after that what becomes of the files, for any chronicles, *)
(* callers and number of calls.                                            *)
(***************************************************************************)
EXTENDS ProjectStore, SequenceTheorems, TLAPS

\* The lock's queue is those who are at it, each once, the holder first.
InOrder ==
    /\ \A i, j \in DOMAIN queue : queue[i] = queue[j] => i = j
    /\ \A p \in Callers : InLock(p) <=> \E i \in DOMAIN queue : queue[i] = p
    /\ \A p \in Callers : pc[p] = "migrate" => queue[1] = p

\* Whoever migrates has a new engine for the place it found out, and nothing
\* is cached for its chronicle.
Migrates(p) ==
    /\ using[p] \in DOMAIN engines
    /\ engines[using[p]].is = "new"
    /\ engines[using[p]].at = path[p]
    /\ cache[On(p)] = 0

Migrating == \A p \in Callers : pc[p] = "migrate" => Migrates(p)

\* A path that was found out is the place of the call's chronicle.
PathFound ==
    \A p \in Callers :
        pc[p] \in {"open", "wait", "migrate"} => path[p] \in Places /\ path[p][1] = On(p)

\* No engine is left new or cached by a caller that is gone.
Accounted ==
    \A e \in DOMAIN engines :
        /\ engines[e].is = "new" => \E p \in Callers : pc[p] = "migrate" /\ using[p] = e
        /\ engines[e].is = "cached" => cache[engines[e].at[1]] = e

\* The cache hands out the chronicle's own engine.
CacheHolds ==
    \A c \in Chronicles : cache[c] # 0 => /\ engines[cache[c]].at[1] = c
                                          /\ engines[cache[c]].is = "cached"

\* A session is of an engine of the call's own chronicle.
Uses(p) == using[p] \in DOMAIN engines /\ engines[using[p]].at[1] = On(p)
UsesEngine == \A p \in Callers : pc[p] = "use" => Uses(p)

IInv ==
    /\ TypeOK
    /\ InOrder
    /\ Migrating
    /\ PathFound
    /\ Accounted
    /\ CacheHolds
    /\ UsesEngine
-----------------------------------------------------------------------------
LEMMA InitHolds == Init => IInv
<1> SUFFICES ASSUME Init PROVE IInv
  OBVIOUS
<1>1. TypeOK
  BY StoreAssumption DEF Init, TypeOK, Places, Ops
<1>2. QED
  BY <1>1 DEF Init, IInv, InOrder, InLock, Migrating, PathFound, Accounted, CacheHolds, UsesEngine

\* Every engine keeps its place when one of them changes.
LEMMA BecomesType ==
  ASSUME TypeOK, NEW e \in DOMAIN engines, NEW s \in {"new", "cached", "disposed", "leaked"},
         Becomes(e, s)
  PROVE  /\ engines' \in Seq(Engine)
         /\ Len(engines') = Len(engines)
         /\ DOMAIN engines' = DOMAIN engines
         /\ engines'[e].is = s
         /\ \A d \in DOMAIN engines : engines'[d].at = engines[d].at
         /\ \A d \in DOMAIN engines \ {e} : engines'[d] = engines[d]
<1>1. engines \in Seq(Engine) /\ e \in 1 .. Len(engines) /\ engines[e] \in Engine
  BY DEF TypeOK
<1> DEFINE E == [engines[e] EXCEPT !.is = s]
<1>2. E \in Engine /\ E.is = s /\ E.at = engines[e].at
  BY <1>1 DEF Engine
<1>3. engines' = [engines EXCEPT ![e] = E]
  BY DEF Becomes
<1> HIDE DEF E
<1>4. /\ engines' \in Seq(Engine)
      /\ Len(engines') = Len(engines)
      /\ \A j \in 1 .. Len(engines) : engines'[j] = IF j = e THEN E ELSE engines[j]
  BY <1>1, <1>2, <1>3, ExceptSeq
<1> QED
  BY <1>1, <1>2, <1>4

\* A call that returns leaves a caller with nothing.
LEMMA ReturnType ==
  ASSUME TypeOK, NEW p \in Callers, Return(p)
  PROVE  /\ call' \in [Callers -> Calls \cup {None}]
         /\ pc' \in [Callers -> {"idle", "check", "use", "read", "close", "row", "remove"} \cup Opening]
         /\ path' \in [Callers -> Places \cup {None}]
         /\ using' \in [Callers -> 0 .. Len(engines)]
         /\ \A q \in Callers : (call'[q] = None) = (pc'[q] = "idle")
  BY DEF TypeOK, Return, Goto

\* A caller in a call goes on with it.
LEMMA GotoType ==
  ASSUME TypeOK, NEW p \in Callers, pc[p] # "idle", UNCHANGED call,
         NEW s \in {"check", "use", "read", "close", "row", "remove"} \cup Opening, Goto(p, s)
  PROVE  /\ pc' \in [Callers -> {"idle", "check", "use", "read", "close", "row", "remove"} \cup Opening]
         /\ \A q \in Callers : (call'[q] = None) = (pc'[q] = "idle")
  BY DEF TypeOK, Goto, Opening

LEMMA PathOfType == \A c \in Chronicles : PathOf(c) \in Places /\ PathOf(c)[1] = c
  BY DEF PathOf, Places, Home, Link

LEMMA OnType == ASSUME TypeOK, NEW p \in Callers, pc[p] # "idle"
                PROVE  On(p) \in Chronicles /\ call[p].op \in Ops
  BY DEF TypeOK, On, Calls

\* The queue after somebody left it.
LEMMA LeaveLockType ==
  ASSUME TypeOK, NEW p \in Callers, LeaveLock(p)
  PROVE  queue' \in Seq(Callers)
<1>1. CASE ~InLock(p)
  BY <1>1 DEF LeaveLock, TypeOK
<1>2. CASE InLock(p)
  <2>1. PICK i \in DOMAIN queue :
           queue' = [j \in 1 .. Len(queue) - 1 |-> queue[IF j < i THEN j ELSE j + 1]]
    BY <1>2 DEF LeaveLock
  <2>2. queue \in Seq(Callers) /\ Len(queue) \in Nat /\ i \in 1 .. Len(queue)
    BY DEF TypeOK
  <2>3. \A j \in 1 .. Len(queue) - 1 : queue[IF j < i THEN j ELSE j + 1] \in Callers
    BY <2>2
  <2>4. queue' \in [1 .. Len(queue) - 1 -> Callers]
    BY <2>1, <2>3
  <2> QED
    BY <2>2, <2>4, IsASeq
<1> QED
  BY <1>1, <1>2

\* The variables keep their types in every step.
LEMMA TypeStep == IInv /\ [Next]_vars => TypeOK'
<1> SUFFICES ASSUME IInv, [Next]_vars PROVE TypeOK'
  OBVIOUS
<1> USE StoreAssumption
<1>0. TypeOK
  BY DEF IInv
<1>1. CASE UNCHANGED vars
  BY <1>0, <1>1 DEF TypeOK, vars, callers, history
<1>2. ASSUME NEW c \in Chronicles, Create(c) PROVE TypeOK'
  BY <1>0, <1>2 DEF Create, TypeOK, callers, history
<1>3. ASSUME NEW c \in Linked, MoveFile(c) \/ PutFile(c) PROVE TypeOK'
  BY <1>0, <1>3 DEF MoveFile, PutFile, InSteps, TypeOK, callers, history, Link, Places
<1>4. ASSUME NEW p \in Callers, NEW c \in Chronicles, NEW op \in Ops, Begin(p, c, op) PROVE TypeOK'
  <2>1. [on |-> c, op |-> op] \in Calls
    BY DEF Calls
  <2> QED
    BY <1>0, <1>4, <2>1 DEF Begin, TypeOK, Goto, Opening
<1> SUFFICES ASSUME NEW p \in Callers, CallerStep(p) \/ Cancel(p) PROVE TypeOK'
  BY <1>1, <1>2, <1>3, <1>4 DEF Next
<1>c. pc[p] # "idle" => On(p) \in Chronicles /\ call[p].op \in Ops /\ PathOf(On(p)) \in Places
  BY <1>0, OnType, PathOfType
<1>5. CASE Check(p)
  <2>1. CASE Return(p)
    BY <1>0, <1>5, <2>1, ReturnType DEF Check, TypeOK, history
  <2>2. CASE ~Return(p)
    <3>1. \E s \in {"open", "path"} : Goto(p, s)
      BY <1>5, <2>2 DEF Check
    <3>2. UNCHANGED <<call, using, row, db, engines, cache, queue, history>>
      BY <1>5, <2>2 DEF Check
    <3>3. path' \in [Callers -> Places \cup {None}]
      BY <1>0, <1>5, <1>c, <2>2 DEF Check, TypeOK
    <3> QED
      BY <1>0, <1>5, <3>1, <3>2, <3>3, GotoType DEF Check, Opening, TypeOK, history
  <2> QED
    BY <2>1, <2>2
<1>6. CASE ReadPath(p)
  BY <1>0, <1>6, <1>c, GotoType DEF ReadPath, Opening, TypeOK, history
<1>7. CASE Open(p)
  <2>1. queue' \in Seq(Callers)
    <3>1. queue \in Seq(Callers)
      BY <1>0 DEF TypeOK
    <3>2. queue' = queue \/ queue' = Append(queue, p)
      BY <1>7 DEF Open
    <3> QED
      BY <3>1, <3>2, AppendProperties
  <2>2. using' \in [Callers -> 0 .. Len(engines)]
    BY <1>0, <1>7, <1>c DEF Open, Take, TypeOK
  <2>3. \E s \in {"use", "wait"} : Goto(p, s)
    BY <1>7 DEF Open, Take
  <2> QED
    BY <1>0, <1>7, <2>1, <2>2, <2>3, GotoType DEF Open, Opening, TypeOK, history
<1>8. CASE Locked(p)
  <2>1. queue' \in Seq(Callers)
    <3>1. queue \in Seq(Callers) /\ queue # <<>>
      BY <1>0, <1>8 DEF Locked, TypeOK, IInv, InOrder, InLock
    <3>2. queue' = queue \/ queue' = Tail(queue)
      BY <1>8 DEF Locked
    <3> QED
      BY <3>1, <3>2, HeadTailProperties
  <2>2. /\ engines' \in Seq(Engine)
        /\ Len(engines') \in {Len(engines), Len(engines) + 1}
        /\ using' \in [Callers -> 0 .. Len(engines')]
    <3>1. CASE cache[On(p)] # 0
      BY <1>0, <1>8, <1>c, <3>1 DEF Locked, Take, TypeOK
    <3>2. CASE cache[On(p)] = 0
      <4>1. [at |-> path[p], is |-> "new"] \in Engine
        BY <1>8 DEF Locked, IInv, PathFound, Engine
      <4>2. engines' = Append(engines, [at |-> path[p], is |-> "new"])
        BY <1>8, <3>2 DEF Locked, NewEngine
      <4>3. engines' \in Seq(Engine) /\ Len(engines') = Len(engines) + 1
        BY <1>0, <4>1, <4>2, AppendProperties DEF TypeOK
      <4> QED
        BY <1>0, <1>8, <3>2, <4>3, LenProperties DEF Locked, TypeOK
    <3> QED
      BY <3>1, <3>2
  <2>3. \E s \in {"use", "migrate"} : Goto(p, s)
    BY <1>8 DEF Locked, Take
  <2>4. cache' \in [Chronicles -> 0 .. Len(engines')]
    BY <1>0, <1>8, <2>2, LenProperties DEF Locked, TypeOK
  <2> QED
    BY <1>0, <1>8, <2>1, <2>2, <2>3, <2>4, GotoType DEF Locked, Opening, TypeOK, history
<1>9. CASE Migrated(p)
  <2>1. using[p] \in DOMAIN engines /\ using[p] \in 1 .. Len(engines)
    BY <1>0, <1>9 DEF Migrated, IInv, Migrating, Migrates, TypeOK
  <2>2. engines' \in Seq(Engine) /\ Len(engines') = Len(engines)
    BY <1>0, <1>9, <2>1, BecomesType DEF Migrated
  <2>3. queue' \in Seq(Callers)
    BY <1>0, <1>9, HeadTailProperties DEF Migrated, TypeOK, IInv, InOrder, InLock
  <2>4. db' \in [Places -> {"absent", "owner", "late"} \cup Ops]
    BY <1>0, <1>9, <1>c DEF Migrated, TypeOK, Maker
  <2>5. cache' \in [Chronicles -> 0 .. Len(engines')]
    BY <1>0, <1>9, <1>c, <2>1, <2>2 DEF Migrated, TypeOK
  <2> QED
    BY <1>0, <1>9, <2>2, <2>3, <2>4, <2>5, GotoType DEF Migrated, Opening, TypeOK, history
<1>10. CASE MigrationFails(p)
  <2>1. using[p] \in DOMAIN engines
    BY <1>0, <1>10 DEF MigrationFails, IInv, Migrating, Migrates
  <2>2. engines' \in Seq(Engine) /\ Len(engines') = Len(engines)
    BY <1>0, <1>10, <2>1, BecomesType DEF MigrationFails
  <2> QED
    BY <1>0, <1>10, <2>2, ReturnType, LeaveLockType DEF MigrationFails, TypeOK, history
<1>11. CASE Cancel(p)
  <2>1. pc[p] = "migrate" => using[p] \in DOMAIN engines
    BY <1>0 DEF IInv, Migrating, Migrates
  <2>2. engines' \in Seq(Engine) /\ Len(engines') = Len(engines)
    BY <1>0, <1>11, <2>1, BecomesType DEF Cancel, TypeOK
  <2> QED
    BY <1>0, <1>11, <2>2, ReturnType, LeaveLockType DEF Cancel, TypeOK, history
<1>12. CASE Use(p)
  BY <1>0, <1>12, <1>c, ReturnType DEF Use, TypeOK, Maker, history
<1>13. CASE ReadRow(p)
  BY <1>0, <1>13, <1>c, GotoType DEF ReadRow, TypeOK, history
<1>14. CASE CloseProject(p)
  <2>1. engines' \in Seq(Engine) /\ Len(engines') = Len(engines)
    <3>1. CASE cache[On(p)] = 0
      BY <1>0, <1>14, <3>1 DEF CloseProject, TypeOK
    <3>2. CASE cache[On(p)] # 0
      <4>1. cache[On(p)] \in DOMAIN engines
        BY <1>0, <1>14, <1>c, <3>2 DEF CloseProject, TypeOK
      <4> QED
        BY <1>0, <1>14, <3>2, <4>1, BecomesType DEF CloseProject
    <3> QED
      BY <3>1, <3>2
  <2>2. cache' \in [Chronicles -> 0 .. Len(engines')]
    <3>1. Len(engines) \in Nat /\ cache \in [Chronicles -> 0 .. Len(engines)]
      BY <1>0, LenProperties DEF TypeOK
    <3>2. cache' = cache \/ cache' = [cache EXCEPT ![On(p)] = 0]
      BY <1>14 DEF CloseProject
    <3> QED
      BY <1>14, <1>c, <2>1, <3>1, <3>2 DEF CloseProject
  <2> QED
    BY <1>0, <1>14, <2>1, <2>2, GotoType DEF CloseProject, TypeOK, history
<1>15. CASE DeleteRow(p)
  <2>1. row' \in [Chronicles -> {"none", "there", "gone"}] /\ raced' \subseteq Chronicles
    BY <1>0, <1>15, <1>c DEF DeleteRow, TypeOK
  <2>2. UNCHANGED <<db, engines, cache, queue, calls, moved, stuck>>
    BY <1>15 DEF DeleteRow
  <2>3. CASE Return(p)
    BY <1>0, <2>1, <2>2, <2>3, ReturnType DEF TypeOK
  <2>4. CASE ~Return(p)
    BY <1>0, <1>15, <2>1, <2>2, <2>4, GotoType DEF DeleteRow, TypeOK
  <2> QED
    BY <2>3, <2>4
<1>16. CASE RemoveDirectory(p)
  BY <1>0, <1>16, <1>c, ReturnType DEF RemoveDirectory, TypeOK, Home, Places
<1> QED
  BY <1>5, <1>6, <1>7, <1>8, <1>9, <1>10, <1>11, <1>12, <1>13, <1>14, <1>15, <1>16 DEF CallerStep
-----------------------------------------------------------------------------
(* The queue of the lock *)

\* Steps of callers that are not at the lock, and steps of the holder.
LEMMA QueueStays ==
  ASSUME IInv, UNCHANGED queue,
         \A q \in Callers : InLock(q)' = InLock(q),
         \A q \in Callers : pc'[q] = "migrate" => queue[1] = q
  PROVE  InOrder'
  BY DEF IInv, InOrder

\* Most steps are of one caller, outside of the lock before and after.
LEMMA OutsideLock ==
  ASSUME IInv, UNCHANGED queue, NEW p \in Callers, NEW s, ~InLock(p),
         s \notin {"wait", "migrate"}, Goto(p, s)
  PROVE  InOrder'
<1>1. pc \in [Callers -> {"idle", "check", "use", "read", "close", "row", "remove"} \cup Opening]
  BY DEF IInv, TypeOK
<1>2. \A q \in Callers : InLock(q)' = InLock(q)
  BY <1>1 DEF Goto, InLock
<1>3. \A q \in Callers : pc'[q] = "migrate" => queue[1] = q
  BY <1>1 DEF Goto, InLock, IInv, InOrder
<1> QED
  BY <1>2, <1>3, QueueStays

LEMMA EntersLock ==
  ASSUME IInv, NEW p \in Callers, ~InLock(p), queue' = Append(queue, p), Goto(p, "wait")
  PROVE  InOrder'
<1>1. /\ queue \in Seq(Callers) /\ Len(queue) \in Nat /\ DOMAIN queue = 1 .. Len(queue)
      /\ pc \in [Callers -> {"idle", "check", "use", "read", "close", "row", "remove"} \cup Opening]
  BY LenProperties DEF IInv, TypeOK
<1>2. /\ Len(queue') = Len(queue) + 1 /\ DOMAIN queue' = 1 .. Len(queue) + 1
      /\ \A i \in 1 .. Len(queue) : queue'[i] = queue[i]
      /\ queue'[Len(queue) + 1] = p
  BY <1>1, AppendProperties
<1>3. \A i \in 1 .. Len(queue) : queue[i] # p
  BY <1>1 DEF IInv, InOrder
<1>4. \A q \in Callers : InLock(q)' <=> InLock(q) \/ q = p
  BY <1>1 DEF Goto, InLock
<1>5. \A i, j \in DOMAIN queue' : queue'[i] = queue'[j] => i = j
  BY <1>1, <1>2, <1>3 DEF IInv, InOrder
<1>6. \A q \in Callers : InLock(q)' <=> \E i \in DOMAIN queue' : queue'[i] = q
  <2> SUFFICES ASSUME NEW q \in Callers PROVE InLock(q)' <=> \E i \in DOMAIN queue' : queue'[i] = q
    OBVIOUS
  <2>1. CASE q = p
    BY <1>1, <1>2, <1>4, <2>1
  <2>2. CASE q # p
    <3>1. InLock(q)' <=> \E i \in 1 .. Len(queue) : queue[i] = q
      BY <1>1, <1>4, <2>2 DEF IInv, InOrder
    <3>2. (\E i \in 1 .. Len(queue) : queue[i] = q) <=> \E i \in DOMAIN queue' : queue'[i] = q
      BY <1>1, <1>2, <2>2
    <3> QED
      BY <3>1, <3>2
  <2> QED
    BY <2>1, <2>2
<1>7. \A q \in Callers : pc'[q] = "migrate" => queue'[1] = q
  <2> SUFFICES ASSUME NEW q \in Callers, pc'[q] = "migrate" PROVE queue'[1] = q
    OBVIOUS
  <2>1. pc[q] = "migrate"
    BY <1>1 DEF Goto
  <2>2. queue[1] = q /\ 1 \in 1 .. Len(queue)
    BY <1>1, <2>1 DEF IInv, InOrder, InLock
  <2> QED
    BY <1>2, <2>2
<1> QED
  BY <1>5, <1>6, <1>7 DEF InOrder, InLock

LEMMA LeavesLock ==
  ASSUME IInv, NEW p \in Callers, NEW i \in DOMAIN queue, queue[i] = p,
         NEW s, s \notin {"wait", "migrate"}, Goto(p, s),
         queue' = [j \in 1 .. Len(queue) - 1 |-> queue[IF j < i THEN j ELSE j + 1]]
  PROVE  InOrder'
<1>1. /\ queue \in Seq(Callers) /\ Len(queue) \in Nat /\ DOMAIN queue = 1 .. Len(queue)
      /\ pc \in [Callers -> {"idle", "check", "use", "read", "close", "row", "remove"} \cup Opening]
  BY LenProperties DEF IInv, TypeOK
<1>2. /\ DOMAIN queue' = 1 .. Len(queue) - 1
      /\ \A j \in 1 .. Len(queue) - 1 : queue'[j] = queue[IF j < i THEN j ELSE j + 1]
  BY <1>1
<1>3. \A j \in 1 .. Len(queue) : queue[j] = p => j = i
  BY <1>1 DEF IInv, InOrder
<1>4. \A q \in Callers : InLock(q)' <=> InLock(q) /\ q # p
  BY <1>1 DEF Goto, InLock
<1>5. \A j, k \in DOMAIN queue' : queue'[j] = queue'[k] => j = k
  <2> DEFINE at(j) == IF j < i THEN j ELSE j + 1
  <2>1. \A j \in 1 .. Len(queue) - 1 : at(j) \in 1 .. Len(queue)
    BY <1>1
  <2>2. \A j, k \in 1 .. Len(queue) - 1 : at(j) = at(k) => j = k
    BY <1>1
  <2>3. \A j, k \in 1 .. Len(queue) : queue[j] = queue[k] => j = k
    BY <1>1 DEF IInv, InOrder
  <2>4. \A j \in 1 .. Len(queue) - 1 : queue'[j] = queue[at(j)]
    BY <1>2
  <2> HIDE DEF at
  <2> QED
    BY <1>2, <2>1, <2>2, <2>3, <2>4
<1>6. \A q \in Callers : InLock(q)' <=> \E j \in DOMAIN queue' : queue'[j] = q
  <2> SUFFICES ASSUME NEW q \in Callers PROVE InLock(q)' <=> \E j \in DOMAIN queue' : queue'[j] = q
    OBVIOUS
  <2>1. ASSUME InLock(q)' PROVE \E j \in DOMAIN queue' : queue'[j] = q
    <3>1. q # p /\ InLock(q)
      BY <1>4, <2>1
    <3>2. PICK k \in 1 .. Len(queue) : queue[k] = q /\ k # i
      BY <1>1, <3>1 DEF IInv, InOrder
    <3>3. CASE k < i
      BY <1>1, <1>2, <3>2, <3>3
    <3>4. CASE k > i
      <4>1. k - 1 \in 1 .. Len(queue) - 1 /\ ~(k - 1 < i) /\ (k - 1) + 1 = k
        BY <1>1, <3>2, <3>4
      <4> QED
        BY <1>2, <3>2, <4>1
    <3> QED
      BY <1>1, <3>2, <3>3, <3>4
  <2>2. ASSUME NEW j \in DOMAIN queue', queue'[j] = q PROVE InLock(q)'
    <3>1. PICK k \in 1 .. Len(queue) : queue[k] = q /\ k # i
      BY <1>1, <1>2, <2>2
    <3> QED
      BY <1>1, <1>3, <1>4, <3>1 DEF IInv, InOrder
  <2> QED
    BY <2>1, <2>2
<1>7. \A q \in Callers : pc'[q] = "migrate" => queue'[1] = q
  <2> SUFFICES ASSUME NEW q \in Callers, pc'[q] = "migrate" PROVE queue'[1] = q
    OBVIOUS
  <2>1. pc[q] = "migrate" /\ q # p
    BY <1>1 DEF Goto
  <2>2. queue[1] = q /\ 1 # i
    BY <2>1 DEF IInv, InOrder
  <2>3. 1 \in 1 .. Len(queue) - 1 /\ 1 < i
    BY <1>1, <2>2
  <2> QED
    BY <1>2, <2>2, <2>3
<1> QED
  BY <1>5, <1>6, <1>7 DEF InOrder, InLock

\* Steps of everybody keep the queue in order.
LEMMA LockStep == IInv /\ [Next]_vars => InOrder'
<1> SUFFICES ASSUME IInv, [Next]_vars PROVE InOrder'
  OBVIOUS
<1>0. pc \in [Callers -> {"idle", "check", "use", "read", "close", "row", "remove"} \cup Opening]
  BY DEF IInv, TypeOK
<1>m. \A q \in Callers : pc[q] = "migrate" => queue[1] = q
  BY DEF IInv, InOrder
<1>1. CASE UNCHANGED <<queue, pc>>
  BY <1>1, <1>m, QueueStays DEF InLock
<1>2. ASSUME NEW c \in Chronicles, Create(c) PROVE InOrder'
  BY <1>1, <1>2 DEF Create, callers
<1>3. ASSUME NEW c \in Linked, MoveFile(c) \/ PutFile(c) PROVE InOrder'
  BY <1>1, <1>3 DEF MoveFile, PutFile, callers
<1> SUFFICES ASSUME NEW p \in Callers,
                    \/ CallerStep(p) \/ Cancel(p)
                    \/ \E c \in Chronicles, op \in Ops : Begin(p, c, op)
             PROVE  InOrder'
  BY <1>1, <1>2, <1>3 DEF Next, vars, callers
<1>4. CASE /\ UNCHANGED queue
           /\ pc[p] \notin {"wait", "migrate"}
           /\ \E s : s \notin {"wait", "migrate"} /\ Goto(p, s)
  BY <1>4, OutsideLock DEF InLock
<1>5. CASE \/ \E c \in Chronicles, op \in Ops : Begin(p, c, op)
           \/ Check(p) \/ ReadPath(p) \/ Use(p)
  BY <1>4, <1>5 DEF Begin, Check, ReadPath, Use, Return
<1>6. CASE ReadRow(p) \/ CloseProject(p) \/ DeleteRow(p) \/ RemoveDirectory(p)
  BY <1>4, <1>6 DEF ReadRow, CloseProject, DeleteRow, RemoveDirectory, Return
<1>7. CASE Open(p)
  BY <1>4, <1>7, EntersLock DEF Open, Take, InLock
<1>8. CASE (MigrationFails(p) \/ Cancel(p)) /\ InLock(p)
  <2>1. Goto(p, "idle") /\ LeaveLock(p)
    BY <1>8 DEF MigrationFails, Cancel, Return
  <2> QED
    BY <1>8, <2>1, LeavesLock DEF LeaveLock
<1>9. CASE Cancel(p) /\ ~InLock(p)
  BY <1>4, <1>9 DEF Cancel, Return, LeaveLock, InLock
<1>10. ASSUME queue' = Tail(queue), queue[1] = p, InLock(p), Goto(p, "use")
       PROVE  InOrder'
  <2>1. queue \in Seq(Callers) /\ queue # <<>> /\ 1 \in DOMAIN queue
    BY <1>10 DEF IInv, TypeOK, InOrder
  <2>2. queue' = [j \in 1 .. Len(queue) - 1 |-> queue[IF j < 1 THEN j ELSE j + 1]]
    <3>1. /\ Tail(queue) \in Seq(Callers) /\ Len(Tail(queue)) = Len(queue) - 1
          /\ \A j \in 1 .. Len(queue) - 1 : Tail(queue)[j] = queue[j + 1]
      BY <2>1, HeadTailProperties
    <3>2. Tail(queue) = [j \in 1 .. Len(queue) - 1 |-> Tail(queue)[j]]
      BY <3>1, LenProperties
    <3> QED
      BY <1>10, <3>1, <3>2
  <2> QED
    BY <1>10, <2>1, <2>2, LeavesLock
<1>11. CASE Locked(p)
  <2>1. queue[1] = p
    BY <1>11 DEF Locked, IInv, InOrder, InLock, TypeOK
  <2>2. CASE cache[On(p)] # 0
    BY <1>10, <1>11, <2>1, <2>2 DEF Locked, Take, InLock
  <2>3. CASE cache[On(p)] = 0
    <3>1. UNCHANGED queue /\ Goto(p, "migrate") /\ pc[p] = "wait"
      BY <1>11, <2>3 DEF Locked
    <3>2. \A q \in Callers : InLock(q)' = InLock(q)
      BY <1>0, <3>1 DEF Goto, InLock
    <3>3. \A q \in Callers : pc'[q] = "migrate" => queue[1] = q
      BY <1>0, <1>m, <2>1, <3>1 DEF Goto
    <3> QED
      BY <3>1, <3>2, <3>3, QueueStays
  <2> QED
    BY <2>2, <2>3
<1>12. CASE Migrated(p)
  BY <1>10, <1>12, <1>m DEF Migrated, InLock
<1> QED
  BY <1>5, <1>6, <1>7, <1>8, <1>9, <1>11, <1>12 DEF CallerStep, MigrationFails, InLock
-----------------------------------------------------------------------------
(* The paths *)

CallStep(p) ==
    \/ CallerStep(p) \/ Cancel(p)
    \/ \E c \in Chronicles, op \in Ops : Begin(p, c, op)

Keeps(q) == pc'[q] = pc[q] /\ call'[q] = call[q] /\ path'[q] = path[q] /\ using'[q] = using[q]

\* A step of one caller does not touch another.
LEMMA OthersStay ==
  ASSUME IInv, NEW p \in Callers, CallStep(p)
  PROVE  \A q \in Callers \ {p} : Keeps(q)
<1>0. /\ pc \in [Callers -> {"idle", "check", "use", "read", "close", "row", "remove"} \cup Opening]
      /\ call \in [Callers -> Calls \cup {None}]
      /\ path \in [Callers -> Places \cup {None}]
      /\ using \in [Callers -> 0 .. Len(engines)]
  BY DEF IInv, TypeOK
<1>1. Return(p) => \A q \in Callers \ {p} : Keeps(q)
  BY <1>0 DEF Return, Goto, Keeps
<1>2. CASE \E c \in Chronicles, op \in Ops : Begin(p, c, op)
  BY <1>0, <1>2 DEF Begin, Goto, Keeps
<1>3. CASE Check(p) \/ ReadPath(p) \/ Open(p)
  BY <1>0, <1>1, <1>3 DEF Check, ReadPath, Open, Take, Goto, Keeps
<1>4. CASE Locked(p) \/ Migrated(p)
  BY <1>0, <1>4 DEF Locked, Migrated, Take, Goto, Keeps
<1>5. CASE MigrationFails(p) \/ Cancel(p) \/ Use(p) \/ RemoveDirectory(p)
  BY <1>1, <1>5 DEF MigrationFails, Cancel, Use, RemoveDirectory
<1>6. CASE ReadRow(p) \/ CloseProject(p)
  BY <1>0, <1>6 DEF ReadRow, CloseProject, Goto, Keeps
<1>7. CASE DeleteRow(p)
  BY <1>0, <1>1, <1>7 DEF DeleteRow, Goto, Keeps
<1> QED
  BY <1>2, <1>3, <1>4, <1>5, <1>6, <1>7 DEF CallStep, CallerStep

\* A caller opens the place it found out for the chronicle of its call.
LEMMA PathStep == IInv /\ [Next]_vars => PathFound'
<1> SUFFICES ASSUME IInv, [Next]_vars PROVE PathFound'
  OBVIOUS
<1>0. /\ pc \in [Callers -> {"idle", "check", "use", "read", "close", "row", "remove"} \cup Opening]
      /\ call \in [Callers -> Calls \cup {None}]
      /\ path \in [Callers -> Places \cup {None}]
  BY DEF IInv, TypeOK
<1>1. CASE UNCHANGED <<pc, call, path>>
  BY <1>1 DEF IInv, PathFound, On
<1>2. ASSUME NEW c \in Chronicles, Create(c) PROVE PathFound'
  BY <1>1, <1>2 DEF Create, callers
<1>3. ASSUME NEW c \in Linked, MoveFile(c) \/ PutFile(c) PROVE PathFound'
  BY <1>1, <1>3 DEF MoveFile, PutFile, callers
<1> SUFFICES ASSUME NEW p \in Callers, CallStep(p) PROVE PathFound'
  BY <1>1, <1>2, <1>3 DEF Next, vars, callers, CallStep
<1>4. \A q \in Callers \ {p} :
          pc'[q] \in {"open", "wait", "migrate"} => path'[q] \in Places /\ path'[q][1] = On(q)'
  BY OthersStay DEF Keeps, IInv, PathFound, On
<1>5. pc'[p] \in {"open", "wait", "migrate"} => path'[p] \in Places /\ path'[p][1] = On(p)'
  <2>1. CASE \E c \in Chronicles, op \in Ops : Begin(p, c, op)
    BY <1>0, <2>1 DEF Begin, Goto
  <2>2. CASE Check(p)
    <3>1. On(p) \in Chronicles /\ PathOf(On(p)) \in Places /\ PathOf(On(p))[1] = On(p)
      BY <2>2, OnType, PathOfType DEF Check, IInv
    <3>2. Return(p) => pc'[p] = "idle"
      BY <1>0 DEF Return, Goto
    <3> QED
      BY <1>0, <2>2, <3>1, <3>2 DEF Check, Goto, On
  <2>3. CASE ReadPath(p)
    BY <1>0, <2>3, OnType, PathOfType DEF ReadPath, Goto, On, IInv
  <2>4. CASE Open(p) \/ Locked(p)
    BY <1>0, <2>4 DEF Open, Locked, Take, Goto, On, IInv, PathFound
  <2>5. CASE Migrated(p) \/ MigrationFails(p) \/ Cancel(p) \/ Use(p) \/ RemoveDirectory(p)
    BY <1>0, <2>5 DEF Migrated, MigrationFails, Cancel, Use, RemoveDirectory, Return, Goto
  <2>6. CASE ReadRow(p) \/ CloseProject(p) \/ DeleteRow(p)
    BY <1>0, <2>6 DEF ReadRow, CloseProject, DeleteRow, Return, Goto
  <2> QED
    BY <2>1, <2>2, <2>3, <2>4, <2>5, <2>6 DEF CallStep, CallerStep
<1> QED
  BY <1>4, <1>5 DEF PathFound
-----------------------------------------------------------------------------
(* The engines *)

EnginesFit == Migrating /\ Accounted /\ CacheHolds /\ UsesEngine

\* Steps that do not touch the engines, of callers that are not migrating.
LEMMA EnginesStay ==
  ASSUME IInv, NEW p \in Callers, UNCHANGED <<engines, cache>>,
         \A q \in Callers \ {p} : Keeps(q),
         pc[p] # "migrate", pc'[p] # "migrate",
         pc'[p] = "use" => Uses(p)'
  PROVE  EnginesFit'
<1>1. Migrating'
  BY DEF IInv, Migrating, Migrates, Keeps, On
<1>2. Accounted'
  BY DEF IInv, Accounted, Keeps
<1>3. CacheHolds'
  BY DEF IInv, CacheHolds
<1>4. UsesEngine'
  BY DEF IInv, UsesEngine, Uses, Keeps, On
<1> QED
  BY <1>1, <1>2, <1>3, <1>4 DEF EnginesFit

\* Whoever is migrating is the only one.
LEMMA OneMigrates ==
  ASSUME IInv, NEW p \in Callers, NEW q \in Callers, pc[q] = "migrate",
         InLock(p), p = queue[1]
  PROVE  q = p
  BY DEF IInv, InOrder

\* A new engine is made by whoever has just got the lock.
LEMMA MakesEngine ==
  ASSUME IInv, NEW p \in Callers, CallStep(p), Locked(p), cache[On(p)] = 0
  PROVE  EnginesFit'
<1> DEFINE n == Len(engines) + 1
           new == [at |-> path[p], is |-> "new"]
<1>1. /\ engines \in Seq(Engine) /\ Len(engines) \in Nat /\ DOMAIN engines = 1 .. Len(engines)
      /\ pc \in [Callers -> {"idle", "check", "use", "read", "close", "row", "remove"} \cup Opening]
      /\ cache \in [Chronicles -> 0 .. Len(engines)]
      /\ using \in [Callers -> 0 .. Len(engines)]
  BY LenProperties DEF IInv, TypeOK
<1>2. new \in Engine /\ new.is = "new" /\ new.at = path[p] /\ new.at[1] = On(p)
  BY DEF IInv, PathFound, Locked, Engine
<1>3. engines' = Append(engines, new)
  BY DEF Locked, NewEngine
<1> HIDE DEF new
<1>4. /\ DOMAIN engines' = 1 .. n
      /\ \A e \in 1 .. Len(engines) : engines'[e] = engines[e]
      /\ engines'[n] = new
  BY <1>1, <1>2, <1>3, AppendProperties, LenProperties
<1>5. /\ pc' = [pc EXCEPT ![p] = "migrate"] /\ using' = [using EXCEPT ![p] = n]
      /\ UNCHANGED <<cache, call, path>> /\ pc[p] = "wait"
  BY DEF Locked, Goto
<1>6. queue[1] = p
  BY DEF Locked, IInv, InOrder, InLock, TypeOK
<1>7. \A q \in Callers : pc[q] # "migrate"
  BY <1>5, <1>6, OneMigrates DEF InLock
<1>8. \A q \in Callers : pc'[q] = "migrate" => q = p
  BY <1>1, <1>5, <1>7
<1>9. Migrating'
  <2>1. Migrates(p)'
    BY <1>1, <1>2, <1>4, <1>5 DEF Migrates, On
  <2> QED
    BY <1>8, <2>1 DEF Migrating
<1>10. Accounted'
  <2> SUFFICES ASSUME NEW e \in 1 .. n
               PROVE  /\ engines'[e].is = "new" => \E q \in Callers : pc'[q] = "migrate" /\ using'[q] = e
                      /\ engines'[e].is = "cached" => cache'[engines'[e].at[1]] = e
    BY <1>4 DEF Accounted
  <2>1. CASE e = n
    BY <1>1, <1>2, <1>4, <1>5, <2>1
  <2>2. CASE e # n
    <3>1. e \in DOMAIN engines /\ engines'[e] = engines[e]
      BY <1>1, <1>4, <2>2
    <3>2. engines[e].is # "new"
      BY <1>7, <3>1 DEF IInv, Accounted
    <3>3. engines[e].is = "cached" => cache[engines[e].at[1]] = e
      BY <3>1 DEF IInv, Accounted
    <3> QED
      BY <1>5, <3>1, <3>2, <3>3
  <2> QED
    BY <2>1, <2>2
<1>11. CacheHolds'
  BY <1>1, <1>4, <1>5 DEF IInv, CacheHolds
<1>12. UsesEngine'
  BY <1>1, <1>4, <1>5 DEF IInv, UsesEngine, Uses, On
<1> QED
  BY <1>9, <1>10, <1>11, <1>12 DEF EnginesFit

\* The engine that was migrated is cached.
LEMMA CachesEngine ==
  ASSUME IInv, NEW p \in Callers, Migrated(p)
  PROVE  EnginesFit'
<1> DEFINE n == using[p]
<1>1. /\ pc \in [Callers -> {"idle", "check", "use", "read", "close", "row", "remove"} \cup Opening]
      /\ cache \in [Chronicles -> 0 .. Len(engines)]
      /\ On(p) \in Chronicles
      /\ DOMAIN engines = 1 .. Len(engines)
      /\ Len(engines) \in Nat
  BY OnType, LenProperties DEF IInv, TypeOK, Migrated
<1>2. n \in DOMAIN engines /\ engines[n].at[1] = On(p) /\ engines[n].is = "new" /\ cache[On(p)] = 0
  BY DEF IInv, Migrating, Migrates, PathFound, Migrated
<1>3. /\ DOMAIN engines' = DOMAIN engines
      /\ engines'[n].is = "cached"
      /\ \A d \in DOMAIN engines : engines'[d].at = engines[d].at
      /\ \A d \in DOMAIN engines \ {n} : engines'[d] = engines[d]
  BY <1>2, BecomesType DEF IInv, Migrated
<1>4. /\ pc' = [pc EXCEPT ![p] = "use"] /\ cache' = [cache EXCEPT ![On(p)] = n]
      /\ UNCHANGED <<call, path, using>>
  BY DEF Migrated, Goto
<1>5. \A q \in Callers : pc[q] = "migrate" => q = p
  BY DEF IInv, InOrder, Migrated
<1>6. Migrating'
  BY <1>1, <1>4, <1>5 DEF Migrating
<1>7. Accounted'
  <2> SUFFICES ASSUME NEW e \in DOMAIN engines
               PROVE  /\ engines'[e].is # "new"
                      /\ engines'[e].is = "cached" => cache'[engines'[e].at[1]] = e
    BY <1>3 DEF Accounted
  <2>1. CASE e = n
    BY <1>1, <1>2, <1>3, <1>4, <2>1
  <2>2. CASE e # n
    <3>1. engines'[e] = engines[e]
      BY <1>3, <2>2
    <3>2. engines[e].is # "new"
      BY <1>5, <2>2 DEF IInv, Accounted
    <3>3. engines[e].is = "cached" => cache[engines[e].at[1]] = e /\ e # 0
      BY <1>1 DEF IInv, Accounted
    <3> QED
      BY <1>1, <1>2, <1>4, <3>1, <3>2, <3>3
  <2> QED
    BY <2>1, <2>2
<1>8. CacheHolds'
  <2> SUFFICES ASSUME NEW c \in Chronicles, cache'[c] # 0
               PROVE  engines'[cache'[c]].at[1] = c /\ engines'[cache'[c]].is = "cached"
    BY DEF CacheHolds
  <2>1. CASE c = On(p)
    BY <1>1, <1>2, <1>3, <1>4, <2>1
  <2>2. CASE c # On(p)
    <3>1. cache'[c] = cache[c] /\ cache[c] \in DOMAIN engines
      BY <1>1, <1>4, <2>2
    <3>2. engines[cache[c]].at[1] = c /\ engines[cache[c]].is = "cached"
      BY <3>1 DEF IInv, CacheHolds
    <3> QED
      BY <1>2, <1>3, <3>1, <3>2
  <2> QED
    BY <2>1, <2>2
<1>9. UsesEngine'
  BY <1>1, <1>2, <1>3, <1>4 DEF IInv, UsesEngine, Uses, On
<1> QED
  BY <1>6, <1>7, <1>8, <1>9 DEF EnginesFit

\* The engine of a migration that ended otherwise is neither new nor cached.
LEMMA LosesEngine ==
  ASSUME IInv, NEW p \in Callers, MigrationFails(p) \/ Cancel(p), pc[p] = "migrate",
         \A q \in Callers \ {p} : Keeps(q)
  PROVE  EnginesFit'
<1> DEFINE n == using[p]
<1>1. PICK s \in {"disposed", "leaked"} : Becomes(n, s)
  BY DEF MigrationFails, Cancel
<1>2. n \in DOMAIN engines /\ engines[n].is = "new"
  BY DEF IInv, Migrating, Migrates
<1>3. /\ DOMAIN engines' = DOMAIN engines
      /\ engines'[n].is = s
      /\ \A d \in DOMAIN engines : engines'[d].at = engines[d].at
      /\ \A d \in DOMAIN engines \ {n} : engines'[d] = engines[d]
  BY <1>1, <1>2, BecomesType DEF IInv
<1>4. pc'[p] = "idle" /\ UNCHANGED cache
  BY DEF MigrationFails, Cancel, Return, Goto, IInv, TypeOK
<1>5. \A q \in Callers : pc[q] = "migrate" => q = p
  BY DEF IInv, InOrder
<1>6. Migrating'
  BY <1>4, <1>5 DEF Migrating, Keeps
<1>7. Accounted'
  BY <1>3, <1>4, <1>5 DEF Accounted, IInv
<1>8. CacheHolds'
  <2> SUFFICES ASSUME NEW c \in Chronicles, cache[c] # 0
               PROVE  engines'[cache[c]].at[1] = c /\ engines'[cache[c]].is = "cached"
    BY <1>4 DEF CacheHolds
  <2>1. cache[c] \in DOMAIN engines
    BY LenProperties DEF IInv, TypeOK
  <2>2. engines[cache[c]].at[1] = c /\ engines[cache[c]].is = "cached"
    BY DEF IInv, CacheHolds
  <2> QED
    BY <1>2, <1>3, <2>1, <2>2
<1>9. UsesEngine'
  BY <1>3, <1>4 DEF IInv, UsesEngine, Uses, Keeps, On
<1> QED
  BY <1>6, <1>7, <1>8, <1>9 DEF EnginesFit

\* A closed engine leaves the cache.
LEMMA ClosesEngine ==
  ASSUME IInv, NEW p \in Callers, CloseProject(p)
  PROVE  EnginesFit'
<1> DEFINE c == On(p)
           n == cache[c]
<1>1. /\ pc \in [Callers -> {"idle", "check", "use", "read", "close", "row", "remove"} \cup Opening]
      /\ cache \in [Chronicles -> 0 .. Len(engines)]
      /\ c \in Chronicles
      /\ DOMAIN engines = 1 .. Len(engines)
      /\ Len(engines) \in Nat
      /\ call \in [Callers -> Calls \cup {None}]
  BY OnType, LenProperties DEF IInv, TypeOK, CloseProject
<1>2. pc' = [pc EXCEPT ![p] = "row"] /\ UNCHANGED <<call, path, using>>
  BY DEF CloseProject, Goto
<1>3. CASE n = 0
  <2>1. UNCHANGED <<engines, cache>> /\ pc[p] = "close"
    BY <1>3 DEF CloseProject
  <2>2. \A q \in Callers \ {p} : Keeps(q)
    BY <1>1, <1>2 DEF Keeps
  <2> QED
    BY <1>1, <1>2, <2>1, <2>2, EnginesStay
<1>4. CASE n # 0
  <2>1. n \in DOMAIN engines /\ engines[n].at[1] = c /\ engines[n].is = "cached"
    BY <1>1, <1>4 DEF IInv, CacheHolds
  <2>2. Becomes(n, "disposed") /\ cache' = [cache EXCEPT ![c] = 0]
    BY <1>4 DEF CloseProject
  <2>3. /\ DOMAIN engines' = DOMAIN engines
        /\ engines'[n].is = "disposed"
        /\ \A d \in DOMAIN engines : engines'[d].at = engines[d].at
        /\ \A d \in DOMAIN engines \ {n} : engines'[d] = engines[d]
    BY <2>1, <2>2, BecomesType DEF IInv
  <2>4. \A q \in Callers : pc'[q] = "migrate" => pc[q] = "migrate"
    BY <1>1, <1>2
  <2>5. Migrating'
    <3> SUFFICES ASSUME NEW q \in Callers, pc'[q] = "migrate" PROVE Migrates(q)'
      BY DEF Migrating
    <3>1. Migrates(q) /\ pc[q] = "migrate" /\ On(q) \in Chronicles
      BY <2>4, OnType DEF IInv, Migrating
    <3>2. using[q] # n
      BY <2>1, <3>1 DEF Migrates
    <3>3. cache'[On(q)] = 0
      BY <1>1, <2>2, <3>1 DEF Migrates
    <3> QED
      BY <1>2, <2>3, <3>1, <3>2, <3>3 DEF Migrates, On
  <2>6. Accounted'
    <3> SUFFICES ASSUME NEW e \in DOMAIN engines
                 PROVE  /\ engines'[e].is = "new" => \E q \in Callers : pc'[q] = "migrate" /\ using'[q] = e
                        /\ engines'[e].is = "cached" => cache'[engines'[e].at[1]] = e
      BY <2>3 DEF Accounted
    <3>1. CASE e = n
      BY <2>3, <3>1
    <3>2. CASE e # n
      <4>1. engines'[e] = engines[e]
        BY <2>3, <3>2
      <4>2. engines[e].is = "new" => \E q \in Callers : pc'[q] = "migrate" /\ using'[q] = e
        <5> SUFFICES ASSUME engines[e].is = "new"
                     PROVE  \E q \in Callers : pc'[q] = "migrate" /\ using'[q] = e
          OBVIOUS
        <5>1. PICK q \in Callers : pc[q] = "migrate" /\ using[q] = e
          BY DEF IInv, Accounted
        <5>2. q # p
          BY <5>1 DEF CloseProject
        <5> QED
          BY <1>1, <1>2, <5>1, <5>2
      <4>3. engines[e].is = "cached" => cache[engines[e].at[1]] = e /\ engines[e].at[1] # c
        BY <3>2 DEF IInv, Accounted
      <4> QED
        BY <1>1, <2>2, <4>1, <4>2, <4>3
    <3> QED
      BY <3>1, <3>2
  <2>7. CacheHolds'
    <3> SUFFICES ASSUME NEW d \in Chronicles, cache'[d] # 0
                 PROVE  engines'[cache'[d]].at[1] = d /\ engines'[cache'[d]].is = "cached"
      BY DEF CacheHolds
    <3>1. d # c /\ cache'[d] = cache[d] /\ cache[d] \in DOMAIN engines
      BY <1>1, <2>2
    <3>2. engines[cache[d]].at[1] = d /\ engines[cache[d]].is = "cached"
      BY <3>1 DEF IInv, CacheHolds
    <3>3. cache[d] # n
      BY <2>1, <3>1, <3>2
    <3> QED
      BY <2>3, <3>1, <3>2, <3>3
  <2>8. UsesEngine'
    BY <1>1, <1>2, <2>3 DEF IInv, UsesEngine, Uses, On
  <2> QED
    BY <2>5, <2>6, <2>7, <2>8 DEF EnginesFit
<1> QED
  BY <1>3, <1>4

\* Steps of everybody keep the engines fit.
LEMMA EngineStep == IInv /\ [Next]_vars => EnginesFit'
<1> SUFFICES ASSUME IInv, [Next]_vars PROVE EnginesFit'
  OBVIOUS
<1>0. /\ pc \in [Callers -> {"idle", "check", "use", "read", "close", "row", "remove"} \cup Opening]
      /\ call \in [Callers -> Calls \cup {None}]
      /\ using \in [Callers -> 0 .. Len(engines)]
      /\ cache \in [Chronicles -> 0 .. Len(engines)]
      /\ DOMAIN engines = 1 .. Len(engines)
  BY LenProperties DEF IInv, TypeOK
<1>1. CASE UNCHANGED <<engines, cache, callers>>
  BY <1>1 DEF IInv, EnginesFit, Migrating, Migrates, Accounted, CacheHolds, UsesEngine, Uses, callers, On
<1>2. ASSUME NEW c \in Chronicles, Create(c) PROVE EnginesFit'
  BY <1>1, <1>2 DEF Create
<1>3. ASSUME NEW c \in Linked, MoveFile(c) \/ PutFile(c) PROVE EnginesFit'
  BY <1>1, <1>3 DEF MoveFile, PutFile
<1> SUFFICES ASSUME NEW p \in Callers, CallStep(p) PROVE EnginesFit'
  BY <1>1, <1>2, <1>3 DEF Next, vars, CallStep
<1>4. \A q \in Callers \ {p} : Keeps(q)
  BY OthersStay
<1>5. ASSUME UNCHANGED <<engines, cache>>, pc[p] # "migrate", pc'[p] \notin {"migrate", "use"}
      PROVE  EnginesFit'
  BY <1>4, <1>5, EnginesStay
<1>6. CASE \E c \in Chronicles, op \in Ops : Begin(p, c, op)
  BY <1>0, <1>5, <1>6 DEF Begin, Goto
<1>7. CASE Check(p) \/ ReadPath(p) \/ Use(p)
  BY <1>0, <1>5, <1>7 DEF Check, ReadPath, Use, Return, Goto
<1>8. CASE ReadRow(p) \/ DeleteRow(p) \/ RemoveDirectory(p)
  BY <1>0, <1>5, <1>8 DEF ReadRow, DeleteRow, RemoveDirectory, Return, Goto
<1>9. ASSUME On(p) \in Chronicles, cache[On(p)] # 0, Take(p, cache[On(p)]), pc[p] # "migrate",
             UNCHANGED <<engines, cache, call>>
      PROVE  EnginesFit'
  <2>1. cache[On(p)] \in DOMAIN engines /\ engines[cache[On(p)]].at[1] = On(p)
    BY <1>0, <1>9 DEF IInv, CacheHolds
  <2>2. pc'[p] = "use" /\ using'[p] = cache[On(p)]
    BY <1>0, <1>9 DEF Take, Goto
  <2>3. Uses(p)'
    BY <1>9, <2>1, <2>2 DEF Uses, On
  <2> QED
    BY <1>4, <1>9, <2>2, <2>3, EnginesStay
<1>10. pc[p] \in {"open", "wait"} => On(p) \in Chronicles
  BY OnType DEF IInv
<1>11. CASE Open(p)
  BY <1>0, <1>5, <1>9, <1>10, <1>11 DEF Open, Goto
<1>12. CASE Locked(p)
  BY <1>9, <1>10, <1>12, MakesEngine DEF Locked
<1>13. CASE Migrated(p)
  BY <1>13, CachesEngine
<1>14. CASE MigrationFails(p)
  BY <1>4, <1>14, LosesEngine DEF MigrationFails
<1>15. CASE Cancel(p)
  BY <1>0, <1>4, <1>5, <1>15, LosesEngine DEF Cancel, Return, Goto
<1>16. CASE CloseProject(p)
  BY <1>16, ClosesEngine
<1> QED
  BY <1>6, <1>7, <1>8, <1>11, <1>12, <1>13, <1>14, <1>15, <1>16 DEF CallStep, CallerStep
-----------------------------------------------------------------------------
(* The theorems *)

\* The inductive invariant: the lock's queue and the engines fit what the
\* callers are doing (_project_engine, close_project).
THEOREM StoreInductive == Spec => []IInv
<1>1. Init => IInv
  BY InitHolds
<1>2. IInv /\ [Next]_vars => IInv'
  BY TypeStep, LockStep, PathStep, EngineStep DEF IInv, EnginesFit
<1> QED
  BY <1>1, <1>2, PTL DEF Spec

\* Every variable keeps its type, for any chronicles, callers and calls.
THEOREM StoreTypes == Spec => []TypeOK
<1>1. IInv => TypeOK
  BY DEF IInv
<1> QED
  BY <1>1, StoreInductive, PTL

\* A project is created and migrated once at a time, no two migrations run at
\* once, and the cache hands out the project's own engine, never a closed one.
THEOREM EnginesAreUnique == Spec => []OneEngine
<1>1. IInv => OneEngine
  <2> SUFFICES ASSUME IInv PROVE OneEngine
    OBVIOUS
  <2>0. /\ \A e \in DOMAIN engines : engines[e] \in Engine
        /\ \A e \in DOMAIN engines : e # 0
    <3>1. engines \in Seq(Engine) /\ DOMAIN engines = 1 .. Len(engines) /\ Len(engines) \in Nat
      BY LenProperties DEF IInv, TypeOK
    <3> QED
      BY <3>1
  <2>1. \A p, q \in Callers : pc[p] = "migrate" /\ pc[q] = "migrate" => p = q
    BY DEF IInv, InOrder
  <2>2. \A d, e \in DOMAIN engines : engines[d].is = "new" /\ engines[e].is = "new" => d = e
    BY <2>1 DEF IInv, Accounted
  <2>3. \A e \in DOMAIN engines : engines[e].is = "new" => cache[engines[e].at[1]] = 0
    <3> SUFFICES ASSUME NEW e \in DOMAIN engines, engines[e].is = "new"
                 PROVE  cache[engines[e].at[1]] = 0
      OBVIOUS
    <3>1. PICK p \in Callers : pc[p] = "migrate" /\ using[p] = e
      BY DEF IInv, Accounted
    <3> QED
      BY <3>1 DEF IInv, Migrating, Migrates, PathFound
  <2>4. \A e \in DOMAIN engines : engines[e].is = "cached" => cache[engines[e].at[1]] = e
    BY DEF IInv, Accounted
  <2>5. \A d, e \in DOMAIN engines :
            Live(d) /\ Live(e) /\ engines[d].at[1] = engines[e].at[1] => d = e
    BY <2>0, <2>2, <2>3, <2>4 DEF Live
  <2> QED
    BY <2>2, <2>5 DEF OneEngine, IInv, CacheHolds
<1> QED
  BY <1>1, StoreInductive, PTL
-----------------------------------------------------------------------------
(***************************************************************************)
(* What becomes of the files: a deletion leaves none behind, and a linked  *)
(* file that is missing is not replaced, for any chronicles, callers and   *)
(* number of calls.                                                        *)
(***************************************************************************)

\* Deletions are at the steps of deletions, and take a path for a link only
\* of a linked chronicle.
DeletesKnown ==
    \A p \in Callers :
        /\ pc[p] \in {"read", "close", "row", "remove"} => call[p].op = "delete"
        /\ pc[p] \in {"close", "row"} /\ path[p] = Link(On(p)) => On(p) \in Linked

\* A chronicle that is being opened has its row, unless it raced.
RowOfOpening ==
    \A p \in Callers :
        pc[p] \in Opening /\ On(p) \notin raced => row[On(p)] = "there"

\* Then a linked one is opened where it is linked, and nowhere else.
LinkOfOpening ==
    \A p \in Callers :
        pc[p] \in Opening \ {"path"} /\ On(p) \in Linked \ raced => path[p] = Link(On(p))
LinkedHasNoHome == \A c \in Linked \ raced : db[Home(c)] = "absent"

\* A deleted chronicle's file is gone or about to be removed.
Removed ==
    \A c \in Chronicles \ (raced \cup stuck) :
        row[c] = "gone" =>
            \/ db[Home(c)] = "absent"
            \/ \E p \in Callers : pc[p] = "remove" /\ On(p) = c

\* Who looks at the file before opening it finds it there until the end.
Checks == {"handler", "service"}
FileIsThere ==
    \A p \in Callers :
        /\ pc[p] \in Opening \cup {"use"}
        /\ call[p].op \in Checks
        /\ On(p) \in Linked /\ p \notin moved
        => db[Link(On(p))] # "absent"

FInv ==
    /\ DeletesKnown
    /\ RowOfOpening
    /\ LinkOfOpening
    /\ LinkedHasNoHome
    /\ Removed
    /\ FileIsThere
    /\ LookKeepsTheLink
-----------------------------------------------------------------------------
PcType == {"idle", "check", "use", "read", "close", "row", "remove"} \cup Opening

LEMMA CallerTypes ==
  ASSUME IInv
  PROVE  /\ pc \in [Callers -> PcType]
         /\ call \in [Callers -> Calls \cup {None}]
         /\ path \in [Callers -> Places \cup {None}]
         /\ row \in [Chronicles -> {"none", "there", "gone"}]
         /\ db \in [Places -> {"absent", "owner", "late"} \cup Ops]
         /\ raced \subseteq Chronicles
         /\ \A p \in Callers : pc[p] # "idle" => call[p] \in Calls /\ call[p] # None
  BY DEF IInv, TypeOK, PcType

\* A call that returns is at none of the steps that are spoken of.
LEMMA Returned ==
  ASSUME IInv, NEW p \in Callers, Return(p)
  PROVE  pc'[p] = "idle"
  BY CallerTypes DEF Return, Goto

LEMMA FilesInit == Init => FInv
<1> SUFFICES ASSUME Init PROVE FInv
  OBVIOUS
<1>1. \A p \in Callers : pc[p] = "idle"
  BY DEF Init
<1>2. \A c \in Chronicles : Home(c) \in Places /\ Link(c) \in Places
  BY DEF Places, Home, Link
<1>3. DeletesKnown /\ RowOfOpening /\ LinkOfOpening /\ FileIsThere
  BY <1>1 DEF DeletesKnown, RowOfOpening, LinkOfOpening, FileIsThere, Opening
<1>4. LinkedHasNoHome /\ Removed /\ LookKeepsTheLink
  BY <1>2, StoreAssumption DEF Init, LinkedHasNoHome, Removed, LookKeepsTheLink, Home, Link
<1> QED
  BY <1>3, <1>4 DEF FInv

LEMMA DeletesStep ==
  ASSUME IInv, DeletesKnown, [Next]_vars
  PROVE  DeletesKnown'
<1>1. CASE UNCHANGED <<pc, call, path>>
  BY <1>1 DEF DeletesKnown, On
<1>2. ASSUME NEW c \in Chronicles, Create(c) PROVE DeletesKnown'
  BY <1>1, <1>2 DEF Create, callers
<1>3. ASSUME NEW c \in Linked, MoveFile(c) \/ PutFile(c) PROVE DeletesKnown'
  BY <1>1, <1>3 DEF MoveFile, PutFile, callers
<1> SUFFICES ASSUME NEW p \in Callers, CallStep(p) PROVE DeletesKnown'
  BY <1>1, <1>2, <1>3 DEF Next, vars, callers, CallStep
<1>4. \A q \in Callers \ {p} : Keeps(q)
  BY OthersStay
<1> SUFFICES /\ pc'[p] \in {"read", "close", "row", "remove"} => call'[p].op = "delete"
             /\ pc'[p] \in {"close", "row"} /\ path'[p] = Link(On(p))' => On(p)' \in Linked
  BY <1>4 DEF DeletesKnown, Keeps, On, Link
<1>5. CASE \E c \in Chronicles, op \in Ops : Begin(p, c, op)
  BY <1>5, CallerTypes DEF Begin, Goto
<1>6. CASE Check(p) \/ ReadPath(p) \/ Open(p) \/ Locked(p) \/ Migrated(p)
  BY <1>6, CallerTypes, Returned DEF Check, ReadPath, Open, Locked, Migrated, Take, Goto
<1>7. CASE MigrationFails(p) \/ Cancel(p) \/ Use(p) \/ RemoveDirectory(p)
  BY <1>7, Returned DEF MigrationFails, Cancel, Use, RemoveDirectory
<1>8. CASE ReadRow(p)
  <2>1. /\ pc'[p] = "close" /\ call'[p] = call[p] /\ call[p].op = "delete"
        /\ path'[p] \in {PathOf(On(p)), None}
    BY <1>8, CallerTypes DEF ReadRow, Goto, DeletesKnown
  <2> QED
    <3>1. pc[p] = "read" /\ On(p) \in Chronicles /\ On(p)' = On(p)
      BY <1>8, <2>1, OnType DEF ReadRow, On, IInv
    <3>2. path'[p] = Link(On(p)) => path'[p] = PathOf(On(p))
      BY <2>1, <3>1, StoreAssumption DEF Link, Places
    <3>3. PathOf(On(p)) = Link(On(p)) => On(p) \in Linked
      BY <3>1 DEF PathOf, Home, Link
    <3> QED
      BY <2>1, <3>1, <3>2, <3>3 DEF Link, On
<1>9. CASE CloseProject(p) \/ DeleteRow(p)
  BY <1>9, CallerTypes, Returned DEF CloseProject, DeleteRow, Goto, DeletesKnown, On
<1> QED
  BY <1>5, <1>6, <1>7, <1>8, <1>9 DEF CallStep, CallerStep

\* A caller at one of these steps is counted by InSteps.
LEMMA Counted ==
  ASSUME IInv, NEW p \in Callers, NEW steps, pc[p] \in steps, pc[p] # "idle"
  PROVE  p \in InSteps(On(p), steps)
  BY CallerTypes DEF InSteps

\* Only a deletion takes a row away, and then whoever is opening has raced.
LEMMA RowStep ==
  ASSUME IInv, RowOfOpening, [Next]_vars
  PROVE  RowOfOpening'
<1>1. ASSUME UNCHANGED <<pc, call, raced>>,
             \A c \in Chronicles : row[c] = "there" => row'[c] = "there"
      PROVE  RowOfOpening'
  <2> SUFFICES ASSUME NEW q \in Callers, pc[q] \in Opening, On(q) \notin raced
               PROVE  row'[On(q)] = "there"
    BY <1>1 DEF RowOfOpening, On
  <2> QED
    BY <1>1, OnType DEF RowOfOpening, Opening, IInv
<1>2. CASE UNCHANGED vars
  BY <1>1, <1>2 DEF vars, callers, history
<1>3. ASSUME NEW c \in Chronicles, Create(c) PROVE RowOfOpening'
  BY <1>1, <1>3, CallerTypes DEF Create, callers, history
<1>4. ASSUME NEW c \in Linked, MoveFile(c) \/ PutFile(c) PROVE RowOfOpening'
  BY <1>1, <1>4 DEF MoveFile, PutFile, callers, history
<1> SUFFICES ASSUME NEW p \in Callers, CallStep(p) PROVE RowOfOpening'
  BY <1>2, <1>3, <1>4 DEF Next, CallStep
<1>5. \A q \in Callers \ {p} : Keeps(q)
  BY OthersStay
<1>6. CASE DeleteRow(p)
  <2>1. /\ \A c \in Chronicles \ {On(p)} : row'[c] = row[c]
        /\ raced \subseteq raced'
        /\ InSteps(On(p), Opening) # {} => On(p) \in raced'
        /\ pc'[p] \notin Opening
    BY <1>6, CallerTypes, Returned DEF DeleteRow, Goto, Opening
  <2> SUFFICES ASSUME NEW q \in Callers \ {p}, pc[q] \in Opening, On(q) \notin raced'
               PROVE  row'[On(q)] = "there"
    BY <1>5, <2>1 DEF RowOfOpening, Keeps, On
  <2>2. On(q) \in Chronicles /\ On(q) # On(p)
    BY <2>1, Counted, OnType DEF Opening, IInv
  <2> QED
    BY <2>1, <2>2 DEF RowOfOpening
<1>7. CASE ~DeleteRow(p)
  <2>1. UNCHANGED <<row, raced>>
    BY <1>7 DEF CallStep, CallerStep, Begin, Check, ReadPath, Open, Locked, Migrated, MigrationFails,
                Cancel, Use, ReadRow, CloseProject, RemoveDirectory, history
  <2> SUFFICES pc'[p] \in Opening /\ On(p)' \notin raced => row[On(p)'] = "there"
    BY <1>5, <2>1 DEF RowOfOpening, Keeps, On
  <2>2. CASE \E c \in Chronicles, op \in Ops : Begin(p, c, op)
    BY <2>2, CallerTypes DEF Begin, Goto, On, Opening
  <2>3. CASE Check(p)
    BY <2>3, CallerTypes, Returned DEF Check, Available, Goto, On, Opening
  <2>4. CASE ReadPath(p) \/ Open(p) \/ Locked(p)
    BY <2>4, CallerTypes DEF ReadPath, Open, Locked, Take, Goto, On, Opening, RowOfOpening
  <2>5. pc'[p] \notin Opening \/ ReadPath(p) \/ Open(p) \/ Locked(p) \/ Check(p)
           \/ \E c \in Chronicles, op \in Ops : Begin(p, c, op)
    BY <1>7, CallerTypes, Returned
       DEF CallStep, CallerStep, Migrated, MigrationFails, Cancel, Use, ReadRow, CloseProject,
           RemoveDirectory, Goto, Opening
  <2> QED
    BY <2>2, <2>3, <2>4, <2>5
<1> QED
  BY <1>6, <1>7

\* A linked chronicle that has its row is opened by its link.
LEMMA LinkStep ==
  ASSUME IInv, RowOfOpening, LinkOfOpening, [Next]_vars
  PROVE  LinkOfOpening'
<1>1. CASE UNCHANGED <<pc, call, path>> /\ raced \subseteq raced'
  BY <1>1 DEF LinkOfOpening, On, Link
<1>2. ASSUME NEW c \in Chronicles, Create(c) PROVE LinkOfOpening'
  BY <1>1, <1>2 DEF Create, callers, history
<1>3. ASSUME NEW c \in Linked, MoveFile(c) \/ PutFile(c) PROVE LinkOfOpening'
  BY <1>1, <1>3 DEF MoveFile, PutFile, callers, history
<1> SUFFICES ASSUME NEW p \in Callers, CallStep(p) PROVE LinkOfOpening'
  BY <1>1, <1>2, <1>3 DEF Next, vars, callers, history, CallStep
<1>4. \A q \in Callers \ {p} : Keeps(q)
  BY OthersStay
<1>5. raced \subseteq raced'
  BY DEF CallStep, CallerStep, Begin, Check, ReadPath, Open, Locked, Migrated, MigrationFails,
         Cancel, Use, ReadRow, CloseProject, DeleteRow, RemoveDirectory, history
<1> SUFFICES pc'[p] \in Opening \ {"path"} /\ On(p)' \in Linked \ raced => path'[p] = Link(On(p)')
  BY <1>4, <1>5 DEF LinkOfOpening, Keeps, On, Link
<1>6. CASE Check(p)
  BY <1>6, CallerTypes, Returned DEF Check, Available, PathOf, Goto, On, Link, Opening
<1>7. CASE ReadPath(p)
  BY <1>7, CallerTypes DEF ReadPath, PathOf, Goto, On, Link, Opening, RowOfOpening
<1>8. CASE Open(p) \/ Locked(p)
  BY <1>8, CallerTypes DEF Open, Locked, Take, Goto, On, Link, Opening, LinkOfOpening
<1>9. pc'[p] \notin Opening \ {"path"} \/ ReadPath(p) \/ Open(p) \/ Locked(p) \/ Check(p)
  <2>1. CASE \E c \in Chronicles, op \in Ops : Begin(p, c, op)
    BY <2>1, CallerTypes DEF Begin, Goto, Opening
  <2> QED
    BY <2>1, CallerTypes, Returned
       DEF CallStep, CallerStep, Migrated, MigrationFails, Cancel, Use, ReadRow, CloseProject,
           DeleteRow, RemoveDirectory, Goto, Opening
<1> QED
  BY <1>6, <1>7, <1>8, <1>9

\* Files are made by migrations and by connections only, where there is none.
LEMMA FilesMade ==
  ASSUME IInv, NEW p \in Callers, CallStep(p), ~RemoveDirectory(p)
  PROVE  \/ UNCHANGED db
         \/ \E x \in Places :
               /\ x[1] = On(p) /\ On(p) \in Chronicles
               /\ db[x] = "absent" /\ db' = [db EXCEPT ![x] = Maker(p)]
               /\ \/ pc[p] = "migrate" /\ x = path[p]
                  \/ pc[p] = "use" /\ x = Link(On(p))
<1>1. CASE Migrated(p)
  <2>1. path[p] \in Places /\ path[p][1] = On(p) /\ pc[p] = "migrate" /\ On(p) \in Chronicles
    BY <1>1, OnType DEF Migrated, IInv, PathFound
  <2> QED
    BY <1>1, <2>1, CallerTypes DEF Migrated
<1>2. CASE Use(p)
  <2> DEFINE x == engines[using[p]].at
  <2>1. x \in Places /\ x[1] = On(p) /\ On(p) \in Chronicles
    <3>1. engines \in Seq(Engine) /\ using[p] \in DOMAIN engines
      BY <1>2 DEF Use, IInv, TypeOK, UsesEngine, Uses
    <3>2. engines[using[p]] \in Engine
      BY <3>1
    <3> QED
      BY <1>2, <3>2, OnType DEF Use, IInv, UsesEngine, Uses, Engine
  <2>2. x[2] = "link" => x = Link(On(p))
    BY <2>1 DEF Places, Link
  <2> QED
    BY <1>2, <2>1, <2>2 DEF Use
<1>3. ~Migrated(p) /\ ~Use(p) => UNCHANGED db
  BY DEF CallStep, CallerStep, Begin, Check, ReadPath, Open, Locked, MigrationFails, Cancel,
         ReadRow, CloseProject, DeleteRow
<1> QED
  BY <1>1, <1>2, <1>3

\* The history only grows.
LEMMA HistoryGrows ==
  ASSUME [Next]_vars
  PROVE  raced \subseteq raced' /\ stuck \subseteq stuck'
<1>1. \A c : Create(c) \/ MoveFile(c) \/ PutFile(c) =>
          raced \subseteq raced' /\ stuck \subseteq stuck'
  BY DEF Create, MoveFile, PutFile, history
<1>2. \A p : CallStep(p) =>
          raced \subseteq raced' /\ stuck \subseteq stuck'
  BY DEF CallStep, CallerStep, Begin, Check, ReadPath, Open, Locked, Migrated, MigrationFails,
         Cancel, Use, ReadRow, CloseProject, DeleteRow, RemoveDirectory, history
<1> QED
  BY <1>1, <1>2 DEF Next, CallStep, vars, history

\* The two places of a chronicle differ, and so do those of two.
LEMMA PlacesDiffer ==
  \A c, d \in Chronicles :
      /\ Home(c) \in Places /\ Link(c) \in Places /\ Home(c)[1] = c /\ Link(c)[1] = c
      /\ Home(c) # Link(d)
      /\ c # d => Home(c) # Home(d) /\ Link(c) # Link(d)
  BY DEF Places, Home, Link

\* A linked chronicle gets no file in the workspace.
LEMMA NoHomeStep ==
  ASSUME IInv, LinkOfOpening, LinkedHasNoHome, [Next]_vars
  PROVE  LinkedHasNoHome'
<1> SUFFICES ASSUME NEW c \in Linked, c \notin raced' PROVE db'[Home(c)] = "absent"
  BY DEF LinkedHasNoHome, Home
<1>0. c \in Chronicles /\ db[Home(c)] = "absent"
  BY HistoryGrows, StoreAssumption DEF LinkedHasNoHome
<1>1. CASE UNCHANGED db
  BY <1>0, <1>1
<1>2. ASSUME NEW d \in Linked, MoveFile(d) \/ PutFile(d) PROVE db'[Home(c)] = "absent"
  BY <1>0, <1>2, CallerTypes, PlacesDiffer, StoreAssumption DEF MoveFile, PutFile
<1>3. ASSUME NEW p \in Callers, CallStep(p) PROVE db'[Home(c)] = "absent"
  <2>1. CASE RemoveDirectory(p)
    BY <1>0, <2>1, CallerTypes, PlacesDiffer DEF RemoveDirectory
  <2>2. CASE ~RemoveDirectory(p)
    <3> SUFFICES ASSUME NEW x \in Places, x[1] = On(p), On(p) \in Chronicles,
                        db' = [db EXCEPT ![x] = Maker(p)],
                        \/ pc[p] = "migrate" /\ x = path[p]
                        \/ pc[p] = "use" /\ x = Link(On(p))
                 PROVE  x # Home(c)
      <4>1. Home(c) \in Places /\ db \in [Places -> {"absent", "owner", "late"} \cup Ops]
        BY <1>0, PlacesDiffer, CallerTypes
      <4> QED
        BY <1>0, <1>3, <2>2, <4>1, FilesMade
    <3>1. CASE On(p) = c
      <4>1. pc[p] = "migrate" => path[p] = Link(c)
        BY <1>0, <3>1, HistoryGrows DEF LinkOfOpening, Opening
      <4> QED
        BY <1>0, <3>1, <4>1, PlacesDiffer
    <3>2. CASE On(p) # c
      BY <1>0, <3>2, PlacesDiffer
    <3> QED
      BY <3>1, <3>2
  <2> QED
    BY <2>1, <2>2
<1> QED
  BY <1>1, <1>2, <1>3 DEF Next, Create, CallStep, vars

\* The row goes when nothing but the files is left to do, and nobody makes a
\* file again.
LEMMA RemovedStep ==
  ASSUME IInv, FInv, [Next]_vars
  PROVE  Removed'
<1> SUFFICES ASSUME NEW c \in Chronicles, c \notin raced' \cup stuck', row'[c] = "gone",
                    ~\E p \in Callers : pc'[p] = "remove" /\ On(p)' = c
             PROVE  db'[Home(c)] = "absent"
  BY DEF Removed, Home
<1>0. c \notin raced \cup stuck /\ Home(c) \in Places
  BY HistoryGrows, PlacesDiffer
<1>1. CASE row[c] = "gone"
  <2>1. ASSUME UNCHANGED <<pc, call>>, UNCHANGED db \/ \E d \in Linked : MoveFile(d) \/ PutFile(d)
        PROVE  db'[Home(c)] = "absent"
    <3>1. db[Home(c)] = "absent"
      BY <1>0, <1>1, <2>1 DEF FInv, Removed, On
    <3> QED
      BY <1>0, <2>1, <3>1, PlacesDiffer, CallerTypes, StoreAssumption DEF MoveFile, PutFile
  <2>2. ASSUME NEW p \in Callers, CallStep(p) PROVE db'[Home(c)] = "absent"
    <3>1. CASE RemoveDirectory(p)
      <4>1. CASE On(p) = c
        BY <1>0, <3>1, <4>1, CallerTypes DEF RemoveDirectory
      <4>2. CASE On(p) # c
        <5>1. \A q \in Callers \ {p} : Keeps(q)
          BY <2>2, OthersStay
        <5>2. db[Home(c)] = "absent"
          BY <1>0, <1>1, <4>2, <5>1 DEF FInv, Removed, Keeps, On
        <5>3. On(p) \in Chronicles
          BY <3>1, OnType DEF RemoveDirectory, IInv
        <5> QED
          BY <1>0, <3>1, <4>2, <5>2, <5>3, PlacesDiffer, CallerTypes DEF RemoveDirectory
      <4> QED
        BY <4>1, <4>2
    <3>2. CASE ~RemoveDirectory(p)
      <4>1. \A q \in Callers : pc[q] = "remove" => pc'[q] = "remove" /\ call'[q] = call[q]
        <5>1. pc[p] # "remove"
          BY <2>2, <3>2
             DEF CallStep, CallerStep, Begin, Check, ReadPath, Open, Locked, Migrated, MigrationFails,
                 Cancel, Use, ReadRow, CloseProject, DeleteRow, FInv, DeletesKnown
        <5> QED
          BY <2>2, <5>1, OthersStay DEF Keeps
      <4>2. db[Home(c)] = "absent"
        BY <1>0, <1>1, <4>1 DEF FInv, Removed, On
      <4>3. ASSUME NEW x \in Places, x[1] = On(p), On(p) \in Chronicles,
                   \/ pc[p] = "migrate" /\ x = path[p]
                   \/ pc[p] = "use" /\ x = Link(On(p))
            PROVE  x # Home(c)
        <5>1. CASE On(p) = c
          BY <1>0, <1>1, <4>3, <5>1, PlacesDiffer DEF FInv, RowOfOpening, Opening
        <5>2. CASE On(p) # c
          BY <4>3, <5>2, PlacesDiffer
        <5> QED
          BY <5>1, <5>2
      <4>4. db \in [Places -> {"absent", "owner", "late"} \cup Ops]
        BY CallerTypes
      <4> QED
        BY <1>0, <2>2, <3>2, <4>2, <4>3, <4>4, FilesMade
    <3> QED
      BY <3>1, <3>2
  <2>3. ASSUME NEW d \in Linked, MoveFile(d) \/ PutFile(d) PROVE UNCHANGED <<pc, call>>
    BY <2>3 DEF MoveFile, PutFile, callers
  <2>4. ASSUME NEW d \in Chronicles, Create(d) PROVE UNCHANGED <<pc, call, db>>
    BY <2>4 DEF Create, callers
  <2> QED
    BY <2>1, <2>2, <2>3, <2>4 DEF Next, CallStep, vars, callers
<1>2. CASE row[c] # "gone"
  <2>1. PICK p \in Callers : DeleteRow(p) /\ On(p) = c
    <3>1. \A d \in Chronicles : Create(d) => row'[c] = row[c] \/ row'[c] = "there"
      BY CallerTypes DEF Create
    <3>2. \A d \in Linked : MoveFile(d) \/ PutFile(d) => row' = row
      BY DEF MoveFile, PutFile
    <3>3. \A p \in Callers : CallStep(p) => row' = row \/ DeleteRow(p)
      BY DEF CallStep, CallerStep, Begin, Check, ReadPath, Open, Locked, Migrated, MigrationFails,
             Cancel, Use, ReadRow, CloseProject, RemoveDirectory
    <3>4. \A p \in Callers : DeleteRow(p) /\ On(p) # c => row'[c] = row[c]
      BY CallerTypes DEF DeleteRow
    <3> QED
      BY <1>2, <3>1, <3>2, <3>3, <3>4 DEF Next, CallStep, vars
  <2>2. pc'[p] = "remove" => On(p)' = c
    BY <2>1, CallerTypes, Returned DEF DeleteRow, On
  <2>3. path[p] = Link(c) /\ c \in Linked
    BY <2>1, <2>2, CallerTypes DEF DeleteRow, Goto, FInv, DeletesKnown
  <2> QED
    BY <1>0, <2>1, <2>3 DEF DeleteRow, FInv, LinkedHasNoHome
<1> QED
  BY <1>1, <1>2

\* Whose file was moved is known until its next call.
LEMMA MovedStay ==
  ASSUME [Next]_vars
  PROVE  /\ \A p : CallStep(p) => moved \ {p} \subseteq moved'
         /\ \A p : CallStep(p) /\ (\A c \in Chronicles, op \in Ops : ~Begin(p, c, op)) => moved' = moved
         /\ \A c : Create(c) \/ PutFile(c) \/ MoveFile(c) => moved \subseteq moved'
  BY DEF CallStep, CallerStep, Begin, Check, ReadPath, Open, Locked, Migrated, MigrationFails,
         Cancel, Use, ReadRow, CloseProject, DeleteRow, RemoveDirectory, history,
         Create, PutFile, MoveFile

\* A linked file that was there at the check stays, or it was moved since.
LEMMA ThereStep ==
  ASSUME IInv, FileIsThere, [Next]_vars
  PROVE  FileIsThere'
<1>1. ASSUME UNCHANGED <<pc, call, db>>, moved \subseteq moved' PROVE FileIsThere'
  BY <1>1 DEF FileIsThere, On, Link
<1>2. ASSUME NEW c \in Chronicles, Create(c) PROVE FileIsThere'
  BY <1>1, <1>2, MovedStay DEF Create, callers
<1>3. ASSUME NEW c \in Linked, MoveFile(c) PROVE FileIsThere'
  <2> SUFFICES ASSUME NEW q \in Callers, pc[q] \in Opening \cup {"use"}, call[q].op \in Checks,
                      On(q) \in Linked, q \notin moved'
               PROVE  db'[Link(On(q))] # "absent"
    BY <1>3 DEF FileIsThere, MoveFile, callers, On, Link
  <2>1. q \in InSteps(On(q), Opening \cup {"use"})
    BY Counted DEF Opening
  <2>2. On(q) # c /\ q \notin moved
    BY <1>3, <2>1 DEF MoveFile
  <2>3. db[Link(On(q))] # "absent"
    BY <2>2 DEF FileIsThere
  <2> QED
    BY <1>3, <2>2, <2>3, PlacesDiffer, CallerTypes, StoreAssumption DEF MoveFile
<1>4. ASSUME NEW c \in Linked, PutFile(c) PROVE FileIsThere'
  BY <1>4, CallerTypes, StoreAssumption DEF PutFile, callers, history, FileIsThere, On, Link
<1> SUFFICES ASSUME NEW p \in Callers, CallStep(p) PROVE FileIsThere'
  BY <1>1, <1>2, <1>3, <1>4 DEF Next, vars, callers, history, CallStep
<1>5. \A q \in Callers \ {p} : Keeps(q) /\ (q \notin moved' => q \notin moved)
  BY OthersStay, MovedStay
<1>6. \A c \in Linked : db[Link(c)] # "absent" => db'[Link(c)] # "absent"
  <2>1. CASE RemoveDirectory(p)
    <3>1. On(p) \in Chronicles
      BY <2>1, OnType DEF RemoveDirectory, IInv
    <3> QED
      BY <2>1, <3>1, PlacesDiffer, CallerTypes, StoreAssumption DEF RemoveDirectory
  <2>2. CASE ~RemoveDirectory(p)
    <3>1. Maker(p) # "absent" \/ UNCHANGED db
      BY FilesMade, <2>2, CallerTypes DEF Maker, Calls, Ops, Opening
    <3> QED
      BY <2>2, <3>1, FilesMade, CallerTypes, PlacesDiffer, StoreAssumption
  <2> QED
    BY <2>1, <2>2
<1> SUFFICES ASSUME pc'[p] \in Opening \cup {"use"}, call'[p].op \in Checks,
                    On(p)' \in Linked, p \notin moved'
             PROVE  db[Link(On(p)')] # "absent"
  BY <1>5, <1>6 DEF FileIsThere, Keeps, On, Link
<1>7. CASE Check(p)
  BY <1>7, CallerTypes, Returned DEF Check, Available, Checks, Opening, Goto, On, Link
<1>8. CASE ReadPath(p) \/ Open(p) \/ Locked(p) \/ Migrated(p)
  <2>1. pc[p] \in Opening /\ call'[p] = call[p] /\ moved' = moved
    BY <1>8 DEF ReadPath, Open, Locked, Migrated, Opening, history
  <2> QED
    BY <2>1 DEF FileIsThere, On
<1>9. ReadPath(p) \/ Open(p) \/ Locked(p) \/ Migrated(p) \/ Check(p)
  <2>1. CASE \E c \in Chronicles, op \in Ops : Begin(p, c, op)
    BY <2>1, CallerTypes DEF Begin, Goto, Opening, Checks
  <2> QED
    BY <2>1, CallerTypes, Returned
       DEF CallStep, CallerStep, MigrationFails, Cancel, Use, ReadRow, CloseProject,
           DeleteRow, RemoveDirectory, Goto, Opening
<1> QED
  BY <1>7, <1>8, <1>9

LEMMA LinkKeptStep ==
  ASSUME IInv, FInv, [Next]_vars
  PROVE  LookKeepsTheLink'
<1> SUFFICES ASSUME NEW c \in Linked PROVE db'[Link(c)] \notin Checks
  BY DEF LookKeepsTheLink, Link, Checks
<1>0. /\ c \in Chronicles /\ db[Link(c)] \notin Checks /\ Link(c) \in Places
      /\ db \in [Places -> {"absent", "owner", "late"} \cup Ops]
  BY PlacesDiffer, CallerTypes, StoreAssumption DEF FInv, LookKeepsTheLink, Checks
<1>1. CASE UNCHANGED db
  BY <1>0, <1>1
<1>2. ASSUME NEW d \in Linked, MoveFile(d) \/ PutFile(d) PROVE db'[Link(c)] \notin Checks
  BY <1>0, <1>2 DEF MoveFile, PutFile, Checks
<1>3. ASSUME NEW p \in Callers, CallStep(p) PROVE db'[Link(c)] \notin Checks
  <2>1. CASE RemoveDirectory(p)
    BY <1>0, <2>1 DEF RemoveDirectory, Checks
  <2>2. CASE ~RemoveDirectory(p)
    <3> SUFFICES ASSUME NEW x \in Places, x[1] = On(p), On(p) \in Chronicles, db[x] = "absent",
                        pc[p] \in Opening \cup {"use"}, x = Link(c)
                 PROVE  Maker(p) \notin Checks
      BY <1>0, <1>3, <2>2, FilesMade DEF Opening
    <3>1. On(p) = c
      BY <1>0, PlacesDiffer
    <3>2. p \notin moved => call[p].op \notin Checks
      BY <3>1 DEF FInv, FileIsThere
    <3> QED
      BY <3>2 DEF Maker, Checks
  <2> QED
    BY <2>1, <2>2
<1> QED
  BY <1>1, <1>2, <1>3 DEF Next, Create, CallStep, vars
-----------------------------------------------------------------------------
(* The theorems *)

LEMMA FilesInductive == Spec => [](IInv /\ FInv)
<1>1. Init => IInv /\ FInv
  BY InitHolds, FilesInit
<1>2. IInv /\ FInv /\ [Next]_vars => IInv' /\ FInv'
  <2> SUFFICES ASSUME IInv, FInv, [Next]_vars PROVE IInv' /\ FInv'
    OBVIOUS
  <2>1. IInv'
    BY TypeStep, LockStep, PathStep, EngineStep DEF IInv, EnginesFit
  <2>2. DeletesKnown' /\ RowOfOpening' /\ LinkOfOpening' /\ LinkedHasNoHome' /\ FileIsThere'
    BY DeletesStep, RowStep, LinkStep, NoHomeStep, ThereStep DEF FInv
  <2>3. Removed' /\ LookKeepsTheLink'
    BY RemovedStep, LinkKeptStep
  <2> QED
    BY <2>1, <2>2, <2>3 DEF FInv
<1> QED
  BY <1>1, <1>2, PTL DEF Spec

\* A deletion (delete_chronicle) leaves no database in the workspace, unless a
\* caller was opening the chronicle when its row went, or a file stayed open.
THEOREM DeletionsAreComplete == Spec => []DeletedIsGone
<1>1. IInv /\ FInv => DeletedIsGone
  <2> SUFFICES ASSUME IInv, FInv, NEW c \in Chronicles \ (raced \cup stuck),
                      row[c] = "gone", ~Deleting(c)
               PROVE  db[Home(c)] = "absent"
    BY DEF DeletedIsGone
  <2>1. ASSUME NEW p \in Callers, pc[p] = "remove", On(p) = c PROVE Deleting(c)
    BY <2>1, CallerTypes DEF FInv, DeletesKnown, Deleting, Calls, On
  <2> QED
    BY <2>1 DEF FInv, Removed
<1> QED
  BY <1>1, FilesInductive, PTL

\* What is made at a link is made by an export or a copy, which do not look, or by a caller
\* whose file was moved after it had looked (ensure_project_available), and by nobody later.
THEOREM LinksAreKept == Spec => []LookKeepsTheLink
<1>1. FInv => LookKeepsTheLink
  BY DEF FInv
<1> QED
  BY <1>1, FilesInductive, PTL
=============================================================================

--------------------------- MODULE RecorderProofs ---------------------------
(***************************************************************************)
(* Proofs about Recorder, for any number of recordings, blocks and saves:  *)
(* each recorder implements TakeFile, and what is stored of a take that    *)
(* stopped in time is the whole of its file.                               *)
(***************************************************************************)
EXTENDS Recorder, SequenceTheorems, TLAPS

USE DEF recorders, files, history
-----------------------------------------------------------------------------
(* The inductive invariant *)

Kept(r) == IF wav[r] = None THEN <<>> ELSE wav[r]

\* What the writer has taken from the queue.
Taken(r) == Len(Kept(r)) + (IF block[r] = None THEN 0 ELSE 1)

\* A recorder nobody started has nothing.
Blank(r) ==
    /\ ~running[r] /\ ~error[r]
    /\ writer[r] = "none" /\ ended[r] = "no"
    /\ queue[r] = <<>> /\ heard[r] = <<>>
    /\ block[r] = None /\ wav[r] = None
    /\ due[r] = 0

\* Where the writer is says what it has; when it ends without an error nothing that was
\* delivered before the stop is missing.
WriterPlace(r) ==
    /\ stream[r] = "none" => Blank(r)
    /\ running[r] => stream[r] # "none" /\ ended[r] = "no"
    /\ error[r] => writer[r] = "done"
    /\ ended[r] = "whole" => writer[r] = "done"
    /\ writer[r] \in {"none", "open"} => wav[r] = None
    /\ writer[r] \in {"test", "get", "write"} => wav[r] # None
    /\ block[r] # None <=> writer[r] = "write"
    /\ writer[r] = "done" /\ ~error[r] => ~running[r] /\ due[r] <= Len(Kept(r))

\* What was delivered is in the file, in the writer's hand or in the queue, in this order.
InOrder(r) ==
    /\ due[r] <= Len(heard[r]) /\ Len(heard[r]) <= MaxBlocks[r]
    /\ \A i \in 1..Len(heard[r]) : heard[r][i] = i
    /\ Len(Kept(r)) <= Len(heard[r])
    /\ writer[r] # "done" =>
        /\ Taken(r) + Len(queue[r]) = Len(heard[r])
        /\ \A i \in 1..Len(queue[r]) : queue[r][i] = Taken(r) + i
        /\ block[r] # None => block[r] = Len(Kept(r)) + 1

Recorded(r) == WriterPlace(r) /\ InOrder(r)

\* The dialog stops the recorder it has, and has not stopped the one that records.
LoopPlace ==
    /\ \A r \in Takes : r > take => stream[r] = "none"
    /\ loop # "free" => /\ take # 0 /\ ~running[take]
                        /\ ended[take] = "no" /\ stream[take] # "none"
    /\ take # 0 /\ stream[take] # "none" /\ ended[take] = "no" => running[take] \/ loop # "free"

\* A file is saved after its recorder was stopped, and is whole if the stop was.
SavesStopped ==
    \A s \in Saves :
        /\ saving[s] \in {"stage", "add"} =>
            path[s] \in Takes /\ ended[path[s]] # "no" /\ wav[path[s]] # None
        /\ saving[s] = "add" /\ ended[path[s]] = "whole" => staged[s] = wav[path[s]]

StoredStopped ==
    \A x \in stored :
        /\ ended[x.take] # "no"
        /\ ended[x.take] = "whole" => x.blocks = wav[x.take]

Inv ==
    /\ TypeOK
    /\ \A r \in Takes : Recorded(r)
    /\ LoopPlace
    /\ SavesStopped
    /\ StoredStopped
-----------------------------------------------------------------------------
(* A recorder that a step leaves alone *)

At(r) == <<running[r], stream[r], queue[r], writer[r], block[r], wav[r], error[r],
           heard[r], due[r], ended[r]>>

LEMMA TypesAt ==
    ASSUME TypeOK, NEW r \in Takes
    PROVE  /\ running[r] \in BOOLEAN /\ stream[r] \in {"none", "open", "closed"}
           /\ queue[r] \in Seq(Blocks) /\ heard[r] \in Seq(Blocks)
           /\ writer[r] \in {"none", "open", "test", "get", "write", "done"}
           /\ block[r] \in Blocks \cup {None} /\ wav[r] \in Seq(Blocks) \cup {None}
           /\ error[r] \in BOOLEAN /\ due[r] \in Nat
           /\ ended[r] \in {"no", "whole", "raised", "late"}
           /\ Kept(r) \in Seq(Blocks) /\ MaxBlocks[r] \in Nat
BY RecorderAssumption DEF TypeOK, File, Kept

LEMMA SameRecorded ==
    ASSUME NEW r \in Takes, Recorded(r), At(r)' = At(r)
    PROVE  Recorded(r)'
BY DEF At, Recorded, WriterPlace, InOrder, Kept, Taken, Blank

LEMMA SameTake ==
    ASSUME NEW r \in Takes, At(r)' = At(r)
    PROVE  UNCHANGED Take(r)!take
BY DEF At, Take!take, State

\* A thread moves its own recorder only.
LEMMA ThreadsApart ==
    ASSUME TypeOK, NEW r \in Takes, NEW q \in Takes, Threads(q), q # r
    PROVE  At(r)' = At(r)
<1>1. CASE OnAudio(q)
  BY <1>1 DEF OnAudio, At, TypeOK
<1>2. CASE WriterOpen(q)
  BY <1>2 DEF WriterOpen, At, TypeOK
<1>3. CASE WriterTest(q)
  BY <1>3 DEF WriterTest, At, TypeOK
<1>4. CASE WriterGet(q)
  BY <1>4 DEF WriterGet, At, TypeOK
<1>5. CASE WriterWrite(q)
  BY <1>5 DEF WriterWrite, At, TypeOK
<1>. QED
  BY <1>1, <1>2, <1>3, <1>4, <1>5 DEF Threads
-----------------------------------------------------------------------------
(* What a thread does to its recorder *)

LEMMA Delivers ==
    ASSUME Inv, NEW r \in Takes, OnAudio(r)
    PROVE  Recorded(r)' /\ Take(r)!TNext
<1>1. /\ stream[r] = "open" /\ Len(heard[r]) < MaxBlocks[r]
      /\ heard'[r] = Append(heard[r], Len(heard[r]) + 1)
      /\ queue'[r] = Append(queue[r], Len(heard[r]) + 1)
      /\ running'[r] = running[r] /\ stream'[r] = stream[r] /\ writer'[r] = writer[r]
      /\ block'[r] = block[r] /\ wav'[r] = wav[r] /\ error'[r] = error[r]
      /\ due'[r] = due[r] /\ ended'[r] = ended[r]
  BY DEF OnAudio, Inv, TypeOK
<1>2. Recorded(r) /\ TypeOK
  BY DEF Inv
<1>3. Kept(r)' = Kept(r) /\ Taken(r)' = Taken(r) /\ Taken(r) \in Nat
  <2>1. Kept(r)' = Kept(r) /\ Taken(r)' = Taken(r)
    BY <1>1 DEF Kept, Taken
  <2>2. Len(Kept(r)) \in Nat
    BY <1>2, TypesAt
  <2>. QED
    BY <2>1, <2>2 DEF Taken
<1>4. WriterPlace(r)'
  BY <1>1, <1>2, <1>3 DEF Recorded, WriterPlace
<1>5. /\ Len(heard'[r]) = Len(heard[r]) + 1
      /\ \A i \in 1..Len(heard'[r]) : heard'[r][i] = i
  <2>1. heard[r] \in Seq(Blocks) /\ (\A i \in 1..Len(heard[r]) : heard[r][i] = i)
    BY <1>2, TypesAt DEF Recorded, InOrder
  <2>2. Len(heard[r]) + 1 \in Blocks
    BY <2>1 DEF Blocks
  <2>. QED
    BY <1>1, <2>1, <2>2, AppendProperties
<1>6. ASSUME writer[r] # "done"
      PROVE  /\ Taken(r) + Len(queue'[r]) = Len(heard'[r])
             /\ \A i \in 1..Len(queue'[r]) : queue'[r][i] = Taken(r) + i
  <2>1. /\ queue[r] \in Seq(Blocks) /\ Len(heard[r]) \in Nat
        /\ Taken(r) + Len(queue[r]) = Len(heard[r])
        /\ \A i \in 1..Len(queue[r]) : queue[r][i] = Taken(r) + i
    BY <1>2, <1>6, TypesAt DEF Recorded, InOrder
  <2>2. Len(heard[r]) + 1 \in Blocks
    BY <2>1 DEF Blocks
  <2>3. /\ Len(queue'[r]) = Len(queue[r]) + 1 /\ queue'[r][Len(queue[r]) + 1] = Len(heard[r]) + 1
        /\ \A i \in 1..Len(queue[r]) : queue'[r][i] = queue[r][i]
    BY <1>1, <2>1, <2>2, AppendProperties
  <2>4. Len(queue[r]) \in Nat
    BY <2>1
  <2>5. \A x, y, z \in Nat : x + y = z => x + (y + 1) = z + 1
    OBVIOUS
  <2>6. Taken(r) + Len(queue'[r]) = Len(heard'[r])
    <3>1. /\ Len(heard'[r]) = Len(heard[r]) + 1 /\ Len(queue'[r]) = Len(queue[r]) + 1
          /\ Taken(r) + Len(queue[r]) = Len(heard[r]) /\ Taken(r) \in Nat
          /\ Len(heard[r]) \in Nat
      BY <1>3, <1>5, <2>1, <2>3
    <3>. QED
      BY <2>4, <2>5, <3>1
  <2>7. \A i \in 1..(Len(queue[r]) + 1) : i \in 1..Len(queue[r]) \/ i = Len(queue[r]) + 1
    BY <2>4
  <2>8. queue'[r][Len(queue[r]) + 1] = Taken(r) + (Len(queue[r]) + 1)
    BY <1>3, <2>1, <2>3, <2>4, <2>5
  <2>. QED
    BY <2>1, <2>3, <2>6, <2>7, <2>8
<1>7. InOrder(r)'
  <2>1. due[r] <= Len(heard[r]) /\ Len(Kept(r)) <= Len(heard[r])
        /\ (writer[r] # "done" /\ block[r] # None => block[r] = Len(Kept(r)) + 1)
    BY <1>2 DEF Recorded, InOrder
  <2>2. due[r] \in Nat /\ Len(Kept(r)) \in Nat /\ Len(heard[r]) \in Nat /\ MaxBlocks[r] \in Nat
    BY <1>2, TypesAt
  <2>3. due'[r] <= Len(heard'[r]) /\ Len(heard'[r]) <= MaxBlocks[r] /\ Len(Kept(r)') <= Len(heard'[r])
    BY <1>1, <1>3, <1>5, <2>1, <2>2
  <2>4. writer'[r] # "done" => /\ Taken(r)' + Len(queue'[r]) = Len(heard'[r])
                               /\ \A i \in 1..Len(queue'[r]) : queue'[r][i] = Taken(r)' + i
                               /\ block'[r] # None => block'[r] = Len(Kept(r)') + 1
    BY <1>1, <1>3, <1>6, <2>1
  <2>. QED
    BY <1>5, <2>3, <2>4 DEF InOrder
<1>8. Take(r)!Hear
  <2>1. Len(heard[r]) + 1 \in 1..MaxBlocks[r]
    BY <1>1, <1>2, TypesAt
  <2>2. State(r) # "new" /\ State(r)' = State(r)
    BY <1>1, <1>2, TypesAt DEF State
  <2>. QED
    BY <1>1, <2>1, <2>2 DEF Take!Hear
<1>. QED
  BY <1>4, <1>7, <1>8 DEF Recorded, Take!TNext

LEMMA Writes ==
    ASSUME Inv, NEW r \in Takes, WriterWrite(r)
    PROVE  Recorded(r)' /\ [Take(r)!TNext]_(Take(r)!take)
<1>1. /\ writer[r] = "write" /\ block'[r] = None
      /\ \/ wav'[r] = Append(wav[r], block[r]) /\ writer'[r] = "test" /\ error'[r] = error[r]
         \/ wav'[r] = wav[r] /\ writer'[r] = "done" /\ error'[r]
      /\ running'[r] = running[r] /\ stream'[r] = stream[r] /\ queue'[r] = queue[r]
      /\ heard'[r] = heard[r] /\ due'[r] = due[r] /\ ended'[r] = ended[r]
  BY DEF WriterWrite, Inv, TypeOK
<1>2. Recorded(r) /\ TypeOK
  BY DEF Inv
<1>3. /\ wav[r] \in Seq(Blocks) /\ wav[r] # None /\ block[r] \in Blocks /\ block[r] # None
      /\ Kept(r) = wav[r] /\ Len(wav[r]) \in Nat /\ Len(heard[r]) \in Nat /\ Len(queue[r]) \in Nat
  BY <1>1, <1>2, TypesAt DEF Recorded, WriterPlace, Kept
<1>4. /\ Taken(r) = Len(wav[r]) + 1 /\ block[r] = Len(wav[r]) + 1
      /\ Taken(r) + Len(queue[r]) = Len(heard[r])
      /\ \A i \in 1..Len(queue[r]) : queue[r][i] = Taken(r) + i
  BY <1>1, <1>2, <1>3 DEF Recorded, InOrder, Taken
<1>5. Len(wav[r]) + 1 <= Len(heard[r])
  <2>1. (Len(wav[r]) + 1) + Len(queue[r]) = Len(heard[r])
    BY <1>4
  <2>2. Len(wav[r]) \in Nat /\ Len(heard[r]) \in Nat /\ Len(queue[r]) \in Nat
    BY <1>3
  <2>3. \A x, y, z \in Nat : (x + 1) + y = z => x + 1 <= z
    OBVIOUS
  <2>. QED
    BY <2>1, <2>2, <2>3
<1>6. stream[r] # "none" /\ ended[r] # "whole"
  BY <1>1, <1>2 DEF Recorded, WriterPlace, Blank
<1>7. State(r)' = State(r) /\ State(r) \notin {"new", "whole"}
  BY <1>1, <1>2, <1>6, TypesAt DEF State
<1>8. CASE wav'[r] = Append(wav[r], block[r]) /\ writer'[r] = "test" /\ error'[r] = error[r]
  <2>1. wav'[r] \in Seq(Blocks) /\ wav'[r] # None /\ Len(wav'[r]) = Len(wav[r]) + 1
    <3>1. wav'[r] \in Seq(Blocks) /\ Len(wav'[r]) = Len(wav[r]) + 1
      BY <1>3, <1>8
    <3>2. block[r] \in Nat /\ wav'[r][Len(wav[r]) + 1] = block[r]
      BY <1>3, <1>8 DEF Blocks
    <3>. QED
      BY <3>1, RecorderAssumption DEF File
  <2>2. Kept(r)' = wav'[r] /\ Taken(r)' = Taken(r)
    <3>1. Kept(r)' = wav'[r]
      BY <2>1 DEF Kept
    <3>2. Taken(r)' = Len(Kept(r)')
      BY <1>1, <2>1, <3>1 DEF Taken
    <3>. QED
      BY <1>4, <2>1, <3>1, <3>2
  <2>3. WriterPlace(r)'
    BY <1>1, <1>2, <1>6, <1>8, <2>1 DEF Recorded, WriterPlace
  <2>4. InOrder(r)'
    <3>1. /\ due[r] <= Len(heard[r]) /\ Len(heard[r]) <= MaxBlocks[r]
          /\ \A i \in 1..Len(heard[r]) : heard[r][i] = i
      BY <1>2 DEF Recorded, InOrder
    <3>2. Len(wav'[r]) <= Len(heard[r])
      BY <1>5, <2>1
    <3>3. writer'[r] # "done" => /\ Taken(r)' + Len(queue'[r]) = Len(heard'[r])
                                 /\ \A i \in 1..Len(queue'[r]) : queue'[r][i] = Taken(r)' + i
                                 /\ block'[r] = None
      BY <1>1, <1>4, <2>2
    <3>. QED
      BY <1>1, <2>2, <3>1, <3>2, <3>3 DEF InOrder
  <2>5. Take(r)!Keep
    <3>1. Len(wav[r]) < Len(heard[r]) /\ heard[r][Len(wav[r]) + 1] = block[r]
      <4>1. \A i \in 1..Len(heard[r]) : heard[r][i] = i
        BY <1>2 DEF Recorded, InOrder
      <4>2. Len(wav[r]) + 1 \in 1..Len(heard[r])
        BY <1>3, <1>5
      <4>. QED
        BY <1>3, <1>4, <4>1, <4>2
    <3>. QED
      BY <1>1, <1>3, <1>7, <1>8, <2>1, <3>1 DEF Take!Keep
  <2>. QED
    BY <2>3, <2>4, <2>5 DEF Recorded, Take!TNext
<1>9. CASE wav'[r] = wav[r] /\ writer'[r] = "done" /\ error'[r]
  <2>1. Kept(r)' = Kept(r)
    BY <1>9 DEF Kept
  <2>2. WriterPlace(r)'
    BY <1>1, <1>2, <1>3, <1>6, <1>9 DEF Recorded, WriterPlace
  <2>3. InOrder(r)'
    BY <1>1, <1>2, <1>9, <2>1 DEF Recorded, InOrder
  <2>4. UNCHANGED Take(r)!take
    BY <1>1, <1>7, <1>9 DEF Take!take
  <2>. QED
    BY <2>2, <2>3, <2>4 DEF Recorded
<1>. QED
  BY <1>1, <1>8, <1>9
LEMMA Opens ==
    ASSUME Inv, NEW r \in Takes, WriterOpen(r)
    PROVE  Recorded(r)' /\ UNCHANGED Take(r)!take
<1>1. /\ writer[r] = "open"
      /\ \/ wav'[r] = <<>> /\ writer'[r] = "test" /\ error'[r] = error[r]
         \/ wav'[r] = wav[r] /\ writer'[r] = "done" /\ error'[r]
      /\ running'[r] = running[r] /\ stream'[r] = stream[r] /\ queue'[r] = queue[r]
      /\ block'[r] = block[r]
      /\ heard'[r] = heard[r] /\ due'[r] = due[r] /\ ended'[r] = ended[r]
  BY DEF WriterOpen, Inv, TypeOK
<1>2. Recorded(r) /\ TypeOK
  BY DEF Inv
<1>3. wav[r] = None /\ block[r] = None /\ ~error[r] /\ stream[r] # "none" /\ ended[r] # "whole"
  BY <1>1, <1>2 DEF Recorded, WriterPlace, Blank
<1>4. <<>> # None
  BY RecorderAssumption, EmptySeq DEF File
<1>5. Kept(r) = <<>> /\ Kept(r)' = <<>>
  BY <1>1, <1>3 DEF Kept
<1>6. Taken(r)' = Taken(r)
  BY <1>1, <1>5 DEF Taken
<1>7. WriterPlace(r)'
  BY <1>1, <1>2, <1>3, <1>4 DEF Recorded, WriterPlace
<1>8. InOrder(r)'
  BY <1>1, <1>2, <1>5, <1>6 DEF Recorded, InOrder
<1>9. State(r)' = State(r)
  BY <1>1 DEF State
<1>. QED
  BY <1>1, <1>5, <1>7, <1>8, <1>9 DEF Recorded, Take!take, Kept

LEMMA Tests ==
    ASSUME Inv, NEW r \in Takes, WriterTest(r)
    PROVE  Recorded(r)' /\ UNCHANGED Take(r)!take
<1>1. /\ writer[r] = "test"
      /\ writer'[r] = IF running[r] \/ queue[r] # <<>> THEN "get" ELSE "done"
      /\ running'[r] = running[r] /\ stream'[r] = stream[r] /\ queue'[r] = queue[r]
      /\ block'[r] = block[r] /\ wav'[r] = wav[r] /\ error'[r] = error[r]
      /\ heard'[r] = heard[r] /\ due'[r] = due[r] /\ ended'[r] = ended[r]
  BY DEF WriterTest, GoesOn, Inv, TypeOK
<1>2. Recorded(r) /\ TypeOK
  BY DEF Inv
<1>3. /\ wav[r] # None /\ block[r] = None /\ ~error[r]
      /\ stream[r] # "none" /\ ended[r] # "whole"
  BY <1>1, <1>2 DEF Recorded, WriterPlace, Blank
<1>4. Kept(r)' = Kept(r) /\ Taken(r)' = Taken(r) /\ Taken(r) = Len(Kept(r))
  <2>1. Len(Kept(r)) \in Nat
    BY <1>2, TypesAt
  <2>. QED
    BY <1>1, <1>3, <2>1 DEF Kept, Taken
<1>5. writer'[r] = "done" => ~running[r] /\ due[r] <= Len(Kept(r))
  <2>1. SUFFICES ASSUME writer'[r] = "done"
                 PROVE  due[r] <= Len(Kept(r))
    BY <1>1, <1>2, TypesAt
  <2>2. queue[r] = <<>>
    BY <1>1, <2>1
  <2>3. /\ due[r] <= Len(heard[r]) /\ Len(Kept(r)) \in Nat
        /\ Len(Kept(r)) + Len(queue[r]) = Len(heard[r])
    BY <1>1, <1>2, <1>4, TypesAt DEF Recorded, InOrder
  <2>. QED
    BY <2>2, <2>3
<1>6. WriterPlace(r)'
  BY <1>1, <1>2, <1>3, <1>4, <1>5 DEF Recorded, WriterPlace
<1>7. InOrder(r)'
  BY <1>1, <1>2, <1>4 DEF Recorded, InOrder
<1>8. State(r)' = State(r)
  BY <1>1 DEF State
<1>. QED
  BY <1>1, <1>6, <1>7, <1>8 DEF Recorded, Take!take

LEMMA Gets ==
    ASSUME Inv, NEW r \in Takes, WriterGet(r)
    PROVE  Recorded(r)' /\ UNCHANGED Take(r)!take
<1>1. /\ writer[r] = "get"
      /\ \/ queue[r] = <<>> /\ writer'[r] = "test" /\ queue'[r] = queue[r] /\ block'[r] = block[r]
         \/ /\ queue[r] # <<>> /\ writer'[r] = "write"
            /\ block'[r] = Head(queue[r]) /\ queue'[r] = Tail(queue[r])
      /\ running'[r] = running[r] /\ stream'[r] = stream[r]
      /\ wav'[r] = wav[r] /\ error'[r] = error[r]
      /\ heard'[r] = heard[r] /\ due'[r] = due[r] /\ ended'[r] = ended[r]
  BY DEF WriterGet, Inv, TypeOK
<1>2. Recorded(r) /\ TypeOK
  BY DEF Inv
<1>3. /\ wav[r] # None /\ block[r] = None /\ ~error[r]
      /\ stream[r] # "none" /\ ended[r] # "whole"
  BY <1>1, <1>2 DEF Recorded, WriterPlace, Blank
<1>4. Kept(r)' = Kept(r) /\ Taken(r) = Len(Kept(r)) /\ Len(Kept(r)) \in Nat
  <2>1. Len(Kept(r)) \in Nat
    BY <1>2, TypesAt
  <2>. QED
    BY <1>1, <1>3, <2>1 DEF Kept, Taken
<1>5. State(r)' = State(r)
  BY <1>1 DEF State
<1>6. CASE queue[r] = <<>> /\ writer'[r] = "test" /\ queue'[r] = queue[r] /\ block'[r] = block[r]
  <2>1. Taken(r)' = Taken(r)
    BY <1>4, <1>6 DEF Taken
  <2>2. WriterPlace(r)'
    BY <1>1, <1>2, <1>3, <1>6 DEF Recorded, WriterPlace
  <2>3. InOrder(r)'
    BY <1>1, <1>2, <1>4, <1>6, <2>1 DEF Recorded, InOrder
  <2>. QED
    BY <1>1, <1>5, <2>2, <2>3 DEF Recorded, Take!take
<1>7. CASE /\ queue[r] # <<>> /\ writer'[r] = "write"
           /\ block'[r] = Head(queue[r]) /\ queue'[r] = Tail(queue[r])
  <2>1. /\ queue[r] \in Seq(Blocks) /\ Len(queue[r]) \in Nat \ {0} /\ block'[r] = queue[r][1]
        /\ Len(queue'[r]) = Len(queue[r]) - 1
        /\ \A i \in 1..Len(queue'[r]) : queue'[r][i] = queue[r][i + 1]
    BY <1>2, <1>7, TypesAt, HeadTailProperties
  <2>2. block'[r] \in Blocks /\ block'[r] # None
    BY <1>7, <2>1, RecorderAssumption, HeadTailProperties
  <2>3. Taken(r)' = Len(Kept(r)) + 1
    BY <1>4, <2>2 DEF Taken
  <2>4. /\ Len(Kept(r)) + Len(queue[r]) = Len(heard[r])
        /\ \A i \in 1..Len(queue[r]) : queue[r][i] = Len(Kept(r)) + i
    BY <1>1, <1>2, <1>4 DEF Recorded, InOrder
  <2>5. WriterPlace(r)'
    BY <1>1, <1>2, <1>3, <1>7, <2>2 DEF Recorded, WriterPlace
  <2>6. /\ Taken(r)' + Len(queue'[r]) = Len(heard[r])
        /\ \A i \in 1..Len(queue'[r]) : queue'[r][i] = Taken(r)' + i
        /\ block'[r] = Len(Kept(r)) + 1
    <3>1. \A x \in Nat, y \in Nat \ {0} : (x + 1) + (y - 1) = x + y
      OBVIOUS
    <3>2. Taken(r)' + Len(queue'[r]) = Len(heard[r])
      BY <1>4, <2>1, <2>3, <2>4, <3>1
    <3>3. ASSUME NEW i \in 1..Len(queue'[r])
          PROVE  queue'[r][i] = Taken(r)' + i
      <4>1. i \in Nat /\ i + 1 \in 1..Len(queue[r])
        BY <2>1
      <4>2. queue'[r][i] = Len(Kept(r)) + (i + 1)
        BY <2>1, <2>4, <4>1
      <4>. QED
        BY <1>4, <2>3, <4>1, <4>2
    <3>4. 1 \in 1..Len(queue[r])
      BY <2>1
    <3>. QED
      BY <2>1, <2>4, <3>2, <3>3, <3>4
  <2>7. InOrder(r)'
    BY <1>1, <1>2, <1>4, <1>7, <2>6 DEF Recorded, InOrder
  <2>. QED
    BY <1>1, <1>5, <2>5, <2>7 DEF Recorded, Take!take
<1>. QED
  BY <1>1, <1>6, <1>7
LEMMA ThreadsRecord ==
    ASSUME Inv, NEW q \in Takes, Threads(q)
    PROVE  \A r \in Takes : Recorded(r)' /\ [Take(r)!TNext]_(Take(r)!take)
<1>1. Recorded(q)' /\ [Take(q)!TNext]_(Take(q)!take)
  BY Delivers, Opens, Tests, Gets, Writes DEF Threads
<1>2. ASSUME NEW r \in Takes, r # q
      PROVE  Recorded(r)' /\ UNCHANGED Take(r)!take
  <2>1. At(r)' = At(r)
    BY <1>2, ThreadsApart DEF Inv
  <2>. QED
    BY <2>1, SameRecorded, SameTake DEF Inv
<1>. QED
  BY <1>1, <1>2
-----------------------------------------------------------------------------
(* What the dialog does to the recorders *)

LEMMA LeavesAlone ==
    ASSUME Inv, UNCHANGED <<recorders, history>>
    PROVE  \A r \in Takes : Recorded(r)' /\ [Take(r)!TNext]_(Take(r)!take)
<1>1. \A r \in Takes : At(r)' = At(r)
  BY DEF At
<1>. QED
  BY <1>1, SameRecorded, SameTake DEF Inv

LEMMA Starts ==
    ASSUME Inv, StartClicked
    PROVE  \A r \in Takes : Recorded(r)' /\ [Take(r)!TNext]_(Take(r)!take)
<1>1. CASE UNCHANGED <<running, stream, writer>>
  BY <1>1, LeavesAlone DEF StartClicked
<1>2. CASE Started(take + 1)
  <2>1. take + 1 \in Takes /\ stream[take + 1] = "none"
    BY RecorderAssumption DEF StartClicked, Inv, TypeOK, LoopPlace, Takes
  <2>2. ASSUME NEW r \in Takes, r # take + 1
        PROVE  Recorded(r)' /\ UNCHANGED Take(r)!take
    <3>1. At(r)' = At(r)
      BY <1>2, <2>2 DEF StartClicked, Started, At, Inv, TypeOK
    <3>. QED
      BY <3>1, SameRecorded, SameTake DEF Inv
  <2>3. ASSUME NEW r \in Takes, r = take + 1
        PROVE  Recorded(r)' /\ Take(r)!Begin
    <3>1. /\ running'[r] /\ stream'[r] = "open" /\ writer'[r] = "open"
          /\ queue'[r] = queue[r] /\ block'[r] = block[r] /\ wav'[r] = wav[r] /\ error'[r] = error[r]
          /\ heard'[r] = heard[r] /\ due'[r] = due[r] /\ ended'[r] = ended[r]
      BY <1>2, <2>3 DEF StartClicked, Started, Inv, TypeOK
    <3>2. Blank(r) /\ Recorded(r) /\ stream[r] = "none"
      BY <2>1, <2>3 DEF Inv, Recorded, WriterPlace
    <3>3. Kept(r)' = Kept(r) /\ Taken(r)' = Taken(r)
      BY <3>1 DEF Kept, Taken
    <3>4. Recorded(r)'
      BY <3>1, <3>2, <3>3 DEF Recorded, WriterPlace, InOrder, Blank
    <3>5. State(r) = "new" /\ State(r)' = "on"
      BY <3>1, <3>2 DEF State, Blank
    <3>. QED
      BY <3>1, <3>4, <3>5 DEF Take!Begin
  <2>. QED
    BY <2>2, <2>3 DEF Take!TNext
<1>. QED
  BY <1>1, <1>2 DEF StartClicked

LEMMA Asks ==
    ASSUME Inv, NEW who, IsRecording, AskStop(who)
    PROVE  \A r \in Takes : Recorded(r)' /\ [Take(r)!TNext]_(Take(r)!take)
<1>1. take \in Takes /\ running[take]
  BY RecorderAssumption DEF IsRecording, Inv, TypeOK, Takes
<1>2. ASSUME NEW r \in Takes, r # take
      PROVE  Recorded(r)' /\ UNCHANGED Take(r)!take
  <2>1. At(r)' = At(r)
    BY <1>2 DEF AskStop, At, Inv, TypeOK
  <2>. QED
    BY <2>1, SameRecorded, SameTake DEF Inv
<1>3. ASSUME NEW r \in Takes, r = take
      PROVE  Recorded(r)' /\ Take(r)!AskStop
  <2>1. /\ ~running'[r] /\ due'[r] = Len(heard[r])
        /\ stream'[r] = stream[r] /\ queue'[r] = queue[r] /\ writer'[r] = writer[r]
        /\ block'[r] = block[r] /\ wav'[r] = wav[r] /\ error'[r] = error[r]
        /\ heard'[r] = heard[r] /\ ended'[r] = ended[r]
    BY <1>3 DEF AskStop, Inv, TypeOK
  <2>2. Recorded(r) /\ running[r] /\ Len(heard[r]) \in Nat
    BY <1>1, <1>3, TypesAt DEF Inv
  <2>3. stream[r] # "none" /\ ended[r] = "no" /\ (writer[r] = "done" => error[r])
    BY <2>2 DEF Recorded, WriterPlace
  <2>4. Kept(r)' = Kept(r) /\ Taken(r)' = Taken(r)
    BY <2>1 DEF Kept, Taken
  <2>5. WriterPlace(r)'
    BY <2>1, <2>2, <2>3, <2>4 DEF Recorded, WriterPlace
  <2>6. InOrder(r)'
    BY <2>1, <2>2, <2>4 DEF Recorded, InOrder
  <2>7. State(r) = "on" /\ State(r)' = "stopping"
    BY <2>1, <2>2, <2>3 DEF State
  <2>. QED
    BY <2>1, <2>5, <2>6, <2>7 DEF Recorded, Take!AskStop
<1>. QED
  BY <1>2, <1>3 DEF Take!TNext

\* A stop that ends, or that has closed the stream.
LEMMA Ends ==
    ASSUME Inv, NEW how \in {"whole", "raised", "late"}, StopEnds(how),
           UNCHANGED <<recorders, heard, due>>, loop # "free",
           how = "whole" => writer[take] = "done" /\ ~error[take]
    PROVE  \A r \in Takes : Recorded(r)' /\ [Take(r)!TNext]_(Take(r)!take)
<1>1. take \in Takes /\ ~running[take] /\ ended[take] = "no" /\ stream[take] # "none"
  BY RecorderAssumption DEF LoopPlace, Inv, TypeOK, Takes
<1>2. ASSUME NEW r \in Takes, r # take
      PROVE  Recorded(r)' /\ UNCHANGED Take(r)!take
  <2>1. At(r)' = At(r)
    BY <1>2 DEF StopEnds, At, Inv, TypeOK
  <2>. QED
    BY <2>1, SameRecorded, SameTake DEF Inv
<1>3. ASSUME NEW r \in Takes, r = take
      PROVE  Recorded(r)' /\ (Take(r)!HandOver \/ Take(r)!GiveUp)
  <2>1. /\ ended'[r] = how /\ heard'[r] = heard[r] /\ due'[r] = due[r]
        /\ running'[r] = running[r] /\ stream'[r] = stream[r] /\ queue'[r] = queue[r]
        /\ writer'[r] = writer[r] /\ block'[r] = block[r] /\ wav'[r] = wav[r] /\ error'[r] = error[r]
    BY <1>3 DEF StopEnds, Inv, TypeOK
  <2>2. Recorded(r)
    BY DEF Inv
  <2>3. Kept(r)' = Kept(r) /\ Taken(r)' = Taken(r)
    BY <2>1 DEF Kept, Taken
  <2>4. WriterPlace(r)'
    BY <1>1, <1>3, <2>1, <2>2, <2>3 DEF Recorded, WriterPlace
  <2>5. InOrder(r)'
    BY <2>1, <2>2, <2>3 DEF Recorded, InOrder
  <2>6. State(r) = "stopping" /\ State(r)' = how
    BY <1>1, <1>3, <2>1 DEF State
  <2>7. how = "whole" => due[r] <= Len(Kept(r))
    BY <1>3, <2>2 DEF Recorded, WriterPlace
  <2>8. Len(Kept(r)) \in Nat /\ due[r] \in Nat
    BY TypesAt DEF Inv
  <2>9. Take(r)!HandOver \/ Take(r)!GiveUp
    BY <2>1, <2>6, <2>7, <2>8 DEF Take!HandOver, Take!GiveUp, Kept
  <2>. QED
    BY <2>4, <2>5, <2>9 DEF Recorded
<1>. QED
  BY <1>2, <1>3 DEF Take!TNext

LEMMA ClosesStream ==
    ASSUME Inv, loop # "free", stream' = [stream EXCEPT ![take] = "closed"],
           UNCHANGED <<running, queue, writer, block, wav, error, history>>
    PROVE  \A r \in Takes : Recorded(r)' /\ [Take(r)!TNext]_(Take(r)!take)
<1>1. take \in Takes /\ stream[take] # "none"
  BY RecorderAssumption DEF LoopPlace, Inv, TypeOK, Takes
<1>2. ASSUME NEW r \in Takes
      PROVE  Recorded(r)' /\ UNCHANGED Take(r)!take
  <2>1. /\ ended'[r] = ended[r] /\ heard'[r] = heard[r] /\ due'[r] = due[r]
        /\ running'[r] = running[r] /\ queue'[r] = queue[r]
        /\ writer'[r] = writer[r] /\ block'[r] = block[r] /\ wav'[r] = wav[r] /\ error'[r] = error[r]
        /\ stream'[r] = "none" <=> stream[r] = "none"
    BY <1>1 DEF Inv, TypeOK
  <2>2. Kept(r)' = Kept(r) /\ Taken(r)' = Taken(r) /\ State(r)' = State(r)
    BY <2>1 DEF Kept, Taken, State
  <2>. QED
    BY <2>1, <2>2 DEF Inv, Recorded, WriterPlace, InOrder, Blank, Take!take, Kept
<1>. QED
  BY <1>2

LEMMA StepRecorded ==
    ASSUME Inv, [Next]_vars
    PROVE  \A r \in Takes : Recorded(r)' /\ [Take(r)!TNext]_(Take(r)!take)
<1>1. CASE Open \/ CloseClicked \/ UNCHANGED vars
  BY <1>1, LeavesAlone DEF Open, CloseClicked, vars
<1>2. CASE StartClicked
  BY <1>2, Starts
<1>3. CASE StopClicked
  BY <1>3, Asks DEF StopClicked
<1>4. CASE Closed
  BY <1>4, Asks, LeavesAlone DEF Closed
<1>5. CASE StopStream
  BY <1>5, Ends, ClosesStream DEF StopStream
<1>6. CASE Join
  <2>1. PICK how \in {"whole", "raised", "late"} :
            StopEnds(how) /\ (how = "whole" => writer[take] = "done" /\ ~error[take])
    BY <1>6 DEF Join
  <2>. QED
    BY <1>6, <2>1, Ends DEF Join
<1>7. ASSUME NEW s \in Saves, SaveClicked(s) \/ Stage(s) \/ Add(s)
      PROVE  \A r \in Takes : Recorded(r)' /\ [Take(r)!TNext]_(Take(r)!take)
  BY <1>7, Asks, LeavesAlone DEF SaveClicked, Stage, Add
<1>8. ASSUME NEW r \in Takes, Threads(r)
      PROVE  \A q \in Takes : Recorded(q)' /\ [Take(q)!TNext]_(Take(q)!take)
  BY <1>8, ThreadsRecord
<1>. QED
  BY <1>1, <1>2, <1>3, <1>4, <1>5, <1>6, <1>7, <1>8 DEF Next-----------------------------------------------------------------------------
(* Types *)

LEMMA ThreadTypes ==
    ASSUME Inv, NEW r \in Takes, Threads(r)
    PROVE  TypeOK'
<1>. USE DEF Inv
<1>0. /\ heard[r] \in File /\ queue[r] \in File /\ block[r] \in Blocks \cup {None}
      /\ wav[r] \in File \cup {None}
  BY DEF TypeOK
<1>1. CASE OnAudio(r)
  <2>1. Len(heard[r]) + 1 \in Blocks
    BY <1>0 DEF File, Blocks
  <2>2. Append(heard[r], Len(heard[r]) + 1) \in File /\ Append(queue[r], Len(heard[r]) + 1) \in File
    BY <1>0, <2>1, AppendProperties DEF File
  <2>3. heard' \in [Takes -> File] /\ queue' \in [Takes -> File]
    BY <1>1, <2>2 DEF OnAudio, TypeOK
  <2>. QED
    BY <1>1, <2>3 DEF OnAudio, TypeOK
<1>2. CASE WriterOpen(r)
  <2>1. <<>> \in File
    BY EmptySeq DEF File
  <2>. QED
    BY <1>2, <2>1 DEF WriterOpen, TypeOK
<1>3. CASE WriterTest(r)
  BY <1>3 DEF WriterTest, TypeOK
<1>4. CASE WriterGet(r)
  <2>1. queue[r] # <<>> => Head(queue[r]) \in Blocks /\ Tail(queue[r]) \in File
    BY <1>0, HeadTailProperties DEF File
  <2>2. queue' \in [Takes -> File] /\ block' \in [Takes -> Blocks \cup {None}]
    BY <1>4, <2>1 DEF WriterGet, TypeOK
  <2>. QED
    BY <1>4, <2>2 DEF WriterGet, TypeOK
<1>5. CASE WriterWrite(r)
  <2>1. writer[r] = "write" /\ Recorded(r)
    BY <1>5 DEF WriterWrite
  <2>2. Append(wav[r], block[r]) \in File
    BY <1>0, <2>1, AppendProperties DEF File, Recorded, WriterPlace
  <2>3. wav' \in [Takes -> File \cup {None}]
    BY <1>5, <2>2 DEF WriterWrite, TypeOK
  <2>. QED
    BY <1>5, <2>3 DEF WriterWrite, TypeOK
<1>. QED
  BY <1>1, <1>2, <1>3, <1>4, <1>5 DEF Threads

LEMMA StepTypes ==
    ASSUME Inv, [Next]_vars
    PROVE  TypeOK'
<1>. USE DEF Inv
<1>1. CASE Open \/ CloseClicked \/ UNCHANGED vars
  BY <1>1 DEF Open, CloseClicked, vars, TypeOK
<1>2. CASE StartClicked
  <2>1. take + 1 \in Takes
    BY <1>2, RecorderAssumption DEF StartClicked, TypeOK, Takes
  <2>2. take' \in 0..MaxTakes
    BY <1>2, <2>1 DEF StartClicked, Takes
  <2>3. CASE UNCHANGED <<running, stream, writer>>
    BY <1>2, <2>2, <2>3 DEF StartClicked, TypeOK
  <2>4. CASE Started(take + 1)
    BY <1>2, <2>1, <2>2, <2>4 DEF StartClicked, Started, TypeOK
  <2>. QED
    BY <1>2, <2>3, <2>4 DEF StartClicked
<1>3. ASSUME NEW who \in Saves \cup {None}, IsRecording, AskStop(who), UNCHANGED <<take, staged, stored, path>>,
             dialog' \in {"new", "open", "closing", "closed"},
             saving' \in [Saves -> {"none", "stopping", "stage", "add", "over"}]
      PROVE  TypeOK'
  <2>1. take \in Takes /\ Len(heard[take]) \in Nat
    BY <1>3, RecorderAssumption, TypesAt DEF IsRecording, TypeOK, Takes
  <2>. QED
    BY <1>3, <2>1 DEF AskStop, TypeOK
<1>4. CASE StopClicked
  BY <1>3, <1>4 DEF StopClicked, TypeOK
<1>5. CASE Closed
  BY <1>3, <1>5 DEF Closed, TypeOK
<1>6. ASSUME NEW s \in Saves, FileChosen(s)
      PROVE  /\ saving' \in [Saves -> {"none", "stopping", "stage", "add", "over"}]
             /\ path' \in [Saves -> 0..MaxTakes]
  BY <1>6 DEF FileChosen, TypeOK
<1>7. ASSUME NEW how \in {"whole", "raised", "late"}, StopEnds(how), loop # "free",
             UNCHANGED <<dialog, take, recorders, staged, stored, heard, due>>
      PROVE  TypeOK'
  <2>1. /\ saving' \in [Saves -> {"none", "stopping", "stage", "add", "over"}]
        /\ path' \in [Saves -> 0..MaxTakes]
        /\ asker' \in Saves \cup {None}
    BY <1>6, <1>7 DEF StopEnds, TypeOK
  <2>. QED
    BY <1>7, <2>1 DEF StopEnds, TypeOK
<1>8. CASE StopStream
  <2>1. CASE stream' = [stream EXCEPT ![take] = "closed"] /\ UNCHANGED <<asker, saving, path, ended>> /\ loop' = "join"
    BY <1>8, <2>1 DEF StopStream, TypeOK
  <2>. QED
    BY <1>7, <1>8, <2>1 DEF StopStream
<1>9. CASE Join
  <2>1. PICK how \in {"whole", "raised", "late"} : StopEnds(how)
    BY <1>9 DEF Join
  <2>. QED
    BY <1>7, <1>9, <2>1 DEF Join
<1>10. ASSUME NEW s \in Saves, SaveClicked(s)
       PROVE  TypeOK'
  <2>1. CASE IsRecording
    BY <1>3, <1>10, <2>1 DEF SaveClicked, TypeOK
  <2>2. CASE ~IsRecording
    BY <1>6, <1>10, <2>2 DEF SaveClicked, TypeOK
  <2>. QED
    BY <2>1, <2>2
<1>11. ASSUME NEW s \in Saves, Stage(s)
       PROVE  TypeOK'
  <2>1. wav[path[s]] \in File
    BY <1>11 DEF Stage, SavesStopped, TypeOK
  <2>. QED
    BY <1>11, <2>1, RecorderAssumption DEF Stage, TypeOK
<1>12. ASSUME NEW s \in Saves, Add(s)
       PROVE  TypeOK'
  <2>1. path[s] \in Takes /\ staged[s] \in File
    BY <1>12 DEF Add, SavesStopped, TypeOK
  <2>2. <<>> \in File
    BY EmptySeq DEF File
  <2>3. stored' \subseteq [take : Takes, blocks : File]
    BY <1>12, <2>1 DEF Add, TypeOK
  <2>4. staged' \in [Saves -> File]
    BY <1>12, <2>2 DEF Add, TypeOK
  <2>5. path' \in [Saves -> 0..MaxTakes]
    BY <1>12, RecorderAssumption DEF Add, TypeOK
  <2>6. saving \in [Saves -> {"none", "stopping", "stage", "add", "over"}]
    BY DEF TypeOK
  <2>7. saving' = [saving EXCEPT ![s] = "over"]
    BY <1>12 DEF Add
  <2>8. saving' \in [Saves -> {"none", "stopping", "stage", "add", "over"}]
    BY <2>6, <2>7
  <2>. QED
    BY <1>12, <2>3, <2>4, <2>5, <2>8 DEF Add, TypeOK
<1>13. ASSUME NEW r \in Takes, Threads(r)
       PROVE  TypeOK'
  BY <1>13, ThreadTypes
<1>. QED
  BY <1>1, <1>2, <1>4, <1>5, <1>8, <1>9, <1>10, <1>11, <1>12, <1>13 DEF Next
-----------------------------------------------------------------------------
(* The dialog, and what it saves *)

LEMMA StepLoop ==
    ASSUME Inv, [Next]_vars
    PROVE  LoopPlace'
<1>. USE DEF Inv, LoopPlace
<1>0. /\ take \in 0..MaxTakes /\ MaxTakes \in Nat /\ running \in [Takes -> BOOLEAN]
      /\ stream \in [Takes -> {"none", "open", "closed"}]
      /\ ended \in [Takes -> {"no", "whole", "raised", "late"}]
  BY RecorderAssumption DEF TypeOK
<1>1. ASSUME UNCHANGED <<take, loop, running, stream, ended>>
      PROVE  LoopPlace'
  BY <1>1
<1>2. CASE StartClicked
  <2>1. take + 1 \in Takes
    BY <1>0, <1>2 DEF StartClicked, Takes
  <2>2. take' = take + 1 /\ loop = "free" /\ loop' = "free" /\ ended' = ended
    BY <1>2 DEF StartClicked
  <2>3. CASE UNCHANGED <<running, stream, writer>>
    BY <1>0, <2>1, <2>2, <2>3 DEF Takes
  <2>4. CASE Started(take + 1)
    BY <1>0, <2>1, <2>2, <2>4 DEF Started, Takes
  <2>. QED
    BY <1>2, <2>3, <2>4 DEF StartClicked
<1>3. ASSUME NEW who, IsRecording, AskStop(who), take' = take
      PROVE  LoopPlace'
  <2>1. take \in Takes /\ ended[take] = "no" /\ stream[take] # "none"
    BY <1>0, <1>3 DEF IsRecording, Takes, Recorded, WriterPlace
  <2>2. /\ running' = [running EXCEPT ![take] = FALSE] /\ loop' = "stream"
        /\ UNCHANGED <<take, stream, ended>>
    BY <1>3 DEF AskStop
  <2>3. ~running'[take] /\ take # 0
    BY <1>0, <2>1, <2>2 DEF Takes
  <2>. QED
    BY <2>1, <2>2, <2>3
<1>4. ASSUME NEW how \in {"whole", "raised", "late"}, StopEnds(how), loop # "free",
             UNCHANGED <<take, running, stream>>
      PROVE  LoopPlace'
  <2>1. take \in Takes
    BY <1>0, <1>4 DEF Takes
  <2>. QED
    BY <1>0, <1>4, <2>1 DEF StopEnds
<1>5. CASE StopStream
  <2>1. CASE stream' = [stream EXCEPT ![take] = "closed"] /\ UNCHANGED <<asker, saving, path, ended>> /\ loop' = "join"
    <3>1. loop # "free" /\ take \in Takes /\ UNCHANGED <<take, running>>
      BY <1>0, <1>5 DEF StopStream, Takes
    <3>2. take # 0 /\ ~running[take] /\ ended[take] = "no" /\ stream[take] # "none"
      BY <3>1
    <3>. QED
      BY <1>0, <2>1, <3>1, <3>2
  <2>. QED
    BY <1>4, <1>5, <2>1 DEF StopStream
<1>6. CASE Join
  <2>1. PICK how \in {"whole", "raised", "late"} : StopEnds(how)
    BY <1>6 DEF Join
  <2>. QED
    BY <1>4, <1>6, <2>1 DEF Join
<1>7. CASE Open \/ CloseClicked \/ UNCHANGED vars
  BY <1>1, <1>7 DEF Open, CloseClicked, vars
<1>8. CASE StopClicked \/ Closed
  BY <1>1, <1>3, <1>8 DEF StopClicked, Closed
<1>9. ASSUME NEW s \in Saves, SaveClicked(s) \/ Stage(s) \/ Add(s)
      PROVE  LoopPlace'
  BY <1>1, <1>3, <1>9 DEF SaveClicked, Stage, Add
<1>10. ASSUME NEW r \in Takes, Threads(r)
       PROVE  LoopPlace'
  BY <1>1, <1>10 DEF Threads, OnAudio, WriterOpen, WriterTest, WriterGet, WriterWrite
<1>. QED
  BY <1>2, <1>5, <1>6, <1>7, <1>8, <1>9, <1>10 DEF Next

\* Once a stop has ended its result stays, and so does a file that is whole.
Settled ==
    \A r \in Takes : ended[r] # "no" =>
        /\ ended'[r] = ended[r]
        /\ wav[r] # None => wav'[r] # None
        /\ ended[r] = "whole" => wav'[r] = wav[r]

LEMMA StepSettled ==
    ASSUME Inv, [Next]_vars
    PROVE  Settled
<1>. USE DEF Inv
<1>0. /\ wav \in [Takes -> File \cup {None}] /\ ended \in [Takes -> {"no", "whole", "raised", "late"}]
      /\ take \in 0..MaxTakes /\ MaxTakes \in Nat
  BY RecorderAssumption DEF TypeOK
<1>1. ASSUME UNCHANGED <<wav, ended>>
      PROVE  Settled
  BY <1>1 DEF Settled
<1>2. ASSUME NEW how, StopEnds(how), loop # "free", UNCHANGED wav
      PROVE  Settled
  <2>1. ended[take] = "no"
    BY <1>2 DEF LoopPlace
  <2>. QED
    BY <1>0, <1>2, <2>1 DEF StopEnds, Settled
<1>3. CASE StopStream \/ Join
  BY <1>1, <1>2, <1>3 DEF StopStream, Join
<1>4. ASSUME NEW r \in Takes, Threads(r)
      PROVE  Settled
  <2>1. CASE OnAudio(r) \/ WriterTest(r) \/ WriterGet(r)
    BY <1>1, <2>1 DEF OnAudio, WriterTest, WriterGet
  <2>2. ASSUME UNCHANGED ended, NEW new \in File, wav' = [wav EXCEPT ![r] = new], writer[r] # "done"
        PROVE  Settled
    <3>1. new # None /\ ended[r] # "whole"
      BY <2>2, RecorderAssumption DEF Recorded, WriterPlace
    <3>. QED
      BY <1>0, <2>2, <3>1 DEF Settled
  <2>3. CASE WriterOpen(r)
    <3>1. <<>> \in File
      BY EmptySeq DEF File
    <3>. QED
      BY <1>1, <2>2, <2>3, <3>1 DEF WriterOpen
  <2>4. CASE WriterWrite(r)
    <3>1. wav[r] \in File /\ block[r] \in Blocks
      BY <2>4, TypesAt DEF WriterWrite, Recorded, WriterPlace, File
    <3>2. Append(wav[r], block[r]) \in File
      BY <3>1, AppendProperties DEF File
    <3>. QED
      BY <1>1, <2>2, <2>4, <3>2 DEF WriterWrite
  <2>. QED
    BY <1>4, <2>1, <2>3, <2>4 DEF Threads
<1>5. ASSUME NEW s \in Saves, SaveClicked(s) \/ Stage(s) \/ Add(s)
      PROVE  Settled
  BY <1>1, <1>5 DEF SaveClicked, Stage, Add, AskStop
<1>6. CASE Open \/ StartClicked \/ StopClicked \/ CloseClicked \/ Closed \/ UNCHANGED vars
  BY <1>1, <1>6 DEF Open, StartClicked, StopClicked, CloseClicked, Closed, AskStop, vars
<1>. QED
  BY <1>3, <1>4, <1>5, <1>6 DEF Next
\* What FileChosen picks was stopped before.
LEMMA ChosenIsStopped ==
    ASSUME Inv, Settled, NEW s \in Saves, FileChosen(s), UNCHANGED <<take, staged>>,
           take # 0 /\ stream[take] # "none" => ended'[take] # "no",
           UNCHANGED wav
    PROVE  SavesStopped'
<1>. USE DEF Inv
<1>0. /\ saving \in [Saves -> {"none", "stopping", "stage", "add", "over"}]
      /\ path \in [Saves -> 0..MaxTakes] /\ take \in 0..MaxTakes /\ MaxTakes \in Nat
  BY RecorderAssumption DEF TypeOK
<1>1. ASSUME NEW t \in Saves, t # s
      PROVE  saving'[t] = saving[t] /\ path'[t] = path[t]
  BY <1>0, <1>1 DEF FileChosen
<1>2. CASE take # 0 /\ wav[take] # None
  <2>1. take \in Takes /\ stream[take] # "none"
    <3>1. take \in Takes
      BY <1>0, <1>2 DEF Takes
    <3>. QED
      BY <1>2, <3>1 DEF Recorded, WriterPlace, Blank
  <2>2. saving'[s] = "stage" /\ path'[s] = take
    BY <1>0, <1>2 DEF FileChosen
  <2>. QED
    BY <1>1, <1>2, <2>1, <2>2 DEF SavesStopped, Settled
<1>3. CASE ~(take # 0 /\ wav[take] # None)
  <2>1. saving'[s] = "over"
    BY <1>0, <1>3 DEF FileChosen
  <2>. QED
    BY <1>1, <2>1 DEF SavesStopped, Settled
<1>. QED
  BY <1>2, <1>3

LEMMA StepSaves ==
    ASSUME Inv, [Next]_vars
    PROVE  SavesStopped'
<1>. USE DEF Inv
<1>0. /\ saving \in [Saves -> {"none", "stopping", "stage", "add", "over"}]
      /\ path \in [Saves -> 0..MaxTakes] /\ staged \in [Saves -> File]
      /\ take \in 0..MaxTakes /\ MaxTakes \in Nat
      /\ ended \in [Takes -> {"no", "whole", "raised", "late"}]
  BY RecorderAssumption DEF TypeOK
<1>s. Settled
  BY StepSettled
<1>1. ASSUME UNCHANGED <<saving, path, staged>>
      PROVE  SavesStopped'
  BY <1>1, <1>s DEF SavesStopped, Settled
<1>2. ASSUME NEW how \in {"whole", "raised", "late"}, StopEnds(how), loop # "free",
             UNCHANGED <<take, staged, wav>>
      PROVE  SavesStopped'
  <2>1. take \in Takes /\ ended'[take] = how
    BY <1>0, <1>2 DEF StopEnds, LoopPlace, Takes
  <2>2. CASE asker = None
    BY <1>1, <1>2, <2>2 DEF StopEnds
  <2>3. CASE asker # None /\ how = "raised"
    <3>1. asker \in Saves /\ saving' = [saving EXCEPT ![asker] = "over"] /\ UNCHANGED <<path, staged>>
      BY <1>2, <2>3 DEF StopEnds, TypeOK
    <3>. QED
      BY <1>0, <1>s, <3>1 DEF SavesStopped, Settled
  <2>4. CASE asker # None /\ how # "raised"
    BY <1>2, <1>s, <2>1, <2>4, ChosenIsStopped DEF StopEnds, TypeOK
  <2>. QED
    BY <2>2, <2>3, <2>4
<1>3. CASE StopStream
  BY <1>1, <1>2, <1>3 DEF StopStream
<1>4. CASE Join
  <2>1. PICK how \in {"whole", "raised", "late"} : StopEnds(how)
    BY <1>4 DEF Join
  <2>. QED
    BY <1>2, <1>4, <2>1 DEF Join
<1>5. ASSUME NEW s \in Saves, SaveClicked(s)
      PROVE  SavesStopped'
  <2>1. CASE IsRecording
    <3>1. saving' = [saving EXCEPT ![s] = "stopping"] /\ UNCHANGED <<path, staged>>
      BY <1>5, <2>1 DEF SaveClicked
    <3>. QED
      BY <1>0, <1>s, <3>1 DEF SavesStopped, Settled
  <2>2. CASE ~IsRecording
    <3>1. FileChosen(s) /\ UNCHANGED <<take, staged, wav, ended>> /\ loop = "free"
      BY <1>5, <2>2 DEF SaveClicked
    <3>2. take # 0 /\ stream[take] # "none" => ended'[take] # "no"
      BY <2>2, <3>1 DEF LoopPlace, IsRecording
    <3>. QED
      BY <1>s, <3>1, <3>2, ChosenIsStopped
  <2>. QED
    BY <2>1, <2>2
<1>6. ASSUME NEW s \in Saves, Stage(s)
      PROVE  SavesStopped'
  <2>1. CASE /\ staged' = [staged EXCEPT ![s] = wav[path[s]]]
             /\ saving' = [saving EXCEPT ![s] = "add"] /\ UNCHANGED path
    <3>1. saving[s] = "stage" /\ UNCHANGED <<wav, ended>>
      BY <1>6 DEF Stage
    <3>. QED
      BY <1>0, <2>1, <3>1 DEF SavesStopped
  <2>2. CASE saving' = [saving EXCEPT ![s] = "over"] /\ path' = [path EXCEPT ![s] = 0] /\ UNCHANGED staged
    BY <1>0, <1>s, <2>2 DEF SavesStopped, Settled
  <2>. QED
    BY <1>6, <2>1, <2>2 DEF Stage
<1>7. ASSUME NEW s \in Saves, Add(s)
      PROVE  SavesStopped'
  <2>1. /\ saving' = [saving EXCEPT ![s] = "over"]
        /\ path' = [path EXCEPT ![s] = 0] /\ staged' = [staged EXCEPT ![s] = <<>>]
    BY <1>7 DEF Add
  <2>. QED
    BY <1>0, <1>s, <2>1 DEF SavesStopped, Settled
<1>8. ASSUME NEW r \in Takes, Threads(r)
      PROVE  SavesStopped'
  BY <1>1, <1>8 DEF Threads, OnAudio, WriterOpen, WriterTest, WriterGet, WriterWrite
<1>9. CASE Open \/ StartClicked \/ StopClicked \/ CloseClicked \/ Closed \/ UNCHANGED vars
  BY <1>1, <1>9 DEF Open, StartClicked, StopClicked, CloseClicked, Closed, AskStop, vars
<1>. QED
  BY <1>3, <1>4, <1>5, <1>6, <1>7, <1>8, <1>9 DEF Next

LEMMA StepStored ==
    ASSUME Inv, [Next]_vars
    PROVE  StoredStopped'
<1>. USE DEF Inv
<1>s. Settled
  BY StepSettled
<1>0. \A x \in stored : x.take \in Takes
  BY DEF TypeOK
<1>1. ASSUME UNCHANGED stored
      PROVE  StoredStopped'
  BY <1>0, <1>1, <1>s DEF StoredStopped, Settled
<1>2. ASSUME NEW s \in Saves, Add(s)
      PROVE  StoredStopped'
  <2>1. /\ path[s] \in Takes /\ ended[path[s]] # "no" /\ UNCHANGED <<wav, ended>>
        /\ ended[path[s]] = "whole" => staged[s] = wav[path[s]]
        /\ stored' \subseteq stored \cup {[take |-> path[s], blocks |-> staged[s]]}
    BY <1>2 DEF Add, SavesStopped
  <2>. QED
    BY <2>1 DEF StoredStopped
<1>3. CASE StopStream \/ Join
  BY <1>1, <1>3 DEF StopStream, Join
<1>4. ASSUME NEW s \in Saves, SaveClicked(s) \/ Stage(s)
      PROVE  StoredStopped'
  BY <1>1, <1>4 DEF SaveClicked, Stage
<1>5. ASSUME NEW r \in Takes, Threads(r)
      PROVE  StoredStopped'
  BY <1>1, <1>5 DEF Threads, OnAudio, WriterOpen, WriterTest, WriterGet, WriterWrite
<1>6. CASE Open \/ StartClicked \/ StopClicked \/ CloseClicked \/ Closed \/ UNCHANGED vars
  BY <1>1, <1>6 DEF Open, StartClicked, StopClicked, CloseClicked, Closed, vars
<1>. QED
  BY <1>2, <1>3, <1>4, <1>5, <1>6 DEF Next
-----------------------------------------------------------------------------
(* The theorems *)

LEMMA InitInv == Init => Inv
<1>. SUFFICES ASSUME Init
              PROVE  Inv
  OBVIOUS
<1>1. <<>> \in File
  BY EmptySeq DEF File
<1>2. TypeOK
  <2>1. 0 \in 0..MaxTakes /\ 0 \in Nat
    BY RecorderAssumption
  <2>. QED
    BY <1>1, <2>1 DEF Init, TypeOK
<1>3. ASSUME NEW r \in Takes
      PROVE  Recorded(r)
  <2>1. /\ stream[r] = "none" /\ Blank(r)
    BY DEF Init, Blank
  <2>2. Kept(r) = <<>> /\ Taken(r) = 0 /\ MaxBlocks[r] \in Nat
    BY <2>1, RecorderAssumption DEF Kept, Taken, Blank
  <2>. QED
    BY <2>1, <2>2 DEF Recorded, WriterPlace, InOrder, Blank
<1>4. LoopPlace /\ SavesStopped /\ StoredStopped
  BY DEF Init, LoopPlace, SavesStopped, StoredStopped
<1>. QED
  BY <1>2, <1>3, <1>4 DEF Inv

\* The inductive invariant holds throughout: where the writer, the queue and the file are
\* with each block, and that nothing is saved of a recorder that was not stopped.
THEOREM RecorderInvariant == Spec => []Inv
<1>1. Inv /\ [Next]_vars => Inv'
  BY StepTypes, StepRecorded, StepLoop, StepSaves, StepStored DEF Inv
<1>. QED
  BY InitInv, <1>1, PTL DEF Spec

\* Every variable of the dialog and of the recorders keeps its type.
THEOREM RecorderTypes == Spec => []TypeOK
BY RecorderInvariant, PTL DEF Inv

\* Each recorder implements TakeFile: its file is what the microphone delivered, in order
\* and without a gap, and a stop that returned in time hands over all that was delivered
\* before it was asked for, for any number of recordings and blocks.
THEOREM TakesAreKept == Spec => TakeIsKept
<1>1. Init => \A r \in Takes : Take(r)!TInit
  BY DEF Init, Take!TInit, State
<1>2. Inv /\ [Next]_vars => \A r \in Takes : [Take(r)!TNext]_(Take(r)!take)
  BY StepRecorded
<1>. QED
  BY <1>1, <1>2, RecorderInvariant, PTL DEF Spec, TakeIsKept

\* What is stored of a take that stopped in time is the whole of its file, for any number
\* of clicks on Save, Stop and Start.
THEOREM SavedAsRecorded == Spec => []SavedIsTheTake
<1>1. Inv => SavedIsTheTake
  BY DEF Inv, StoredStopped, SavedIsTheTake
<1>. QED
  BY <1>1, RecorderInvariant, PTL
=============================================================================

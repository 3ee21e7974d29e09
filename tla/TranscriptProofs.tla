--------------------------- MODULE TranscriptProofs ---------------------------
(***************************************************************************)
(* Proofs about TranscriptText and TranscriptEdits.                        *)
(*                                                                         *)
(* TranscriptText, for any texts, settings, files and windows: an import   *)
(* and a clean leave every line that was written or said but by a rule,    *)
(* and the chunks of a summary fit.  The lemmas follow each fold of the    *)
(* model one element at a time, by induction over the natural numbers.     *)
(*                                                                         *)
(* TranscriptEdits, for any tasks, files, editors and bounds: the          *)
(* snapshots keep the transcript as it was before any clean and the lines  *)
(* a clean replaces, summaries have numbers of their own, and an           *)
(* overwriting import leaves each line of its file once.                   *)
(***************************************************************************)
EXTENDS TranscriptText, TranscriptEdits, FiniteSetTheorems, SequenceTheorems,
    WellFoundedInduction, TLAPS

(* Folds, one element at a time *)

\* A set of numbers has a least one: the induction of this module rests on it.
LEMMA LeastExists ==
  ASSUME NEW T, T \subseteq Nat, T # {}
  PROVE \E x \in T : \A y \in T : x <= y
<1>. DEFINE R == {ss \in Nat \X Nat : ss[1] < ss[2]}
<1>1. IsWellFoundedOn(R, Nat)
  BY NatLessThanWellFounded, Zenon DEF OpToRel
<1>2. PICK x \in T : \A y \in T : ~ (<<y, x>> \in R)
  <2>. HIDE DEF R
  <2>. QED BY <1>1, WFMin, Zenon
<1>3. \A y \in T : <<y,x>> \in Nat \X Nat /\ ~(y < x)
  BY <1>2, SMT
<1>4. x \in Nat /\ \A y \in T : y \in Nat /\ ~(y < x)
  BY <1>3
<1>. HIDE DEF R
<1>5. \A y \in T : x <= y
  BY <1>4
<1> QED BY <1>5

\* Induction, for a set of numbers.
LEMMA Induct ==
  ASSUME NEW S, 0 \in S, \A n \in Nat : n \in S => n + 1 \in S
  PROVE \A n \in Nat : n \in S
<1>. DEFINE T == Nat \ S
<1>1. SUFFICES ASSUME T # {} PROVE FALSE
  OBVIOUS
<1>2. PICK x \in T : \A y \in T : x <= y
  <2> HIDE DEF T
  <2>1. T \subseteq Nat BY DEF T
  <2> QED BY <1>1, <2>1, LeastExists
<1>3. x # 0 /\ x - 1 \in Nat
  BY <1>2
<1>4. x - 1 \in S
  BY <1>2, <1>3
<1>5. (x - 1) + 1 \in S
  BY <1>3, <1>4
<1> QED BY <1>2, <1>3, <1>5

\* Max of some numbers from 1..k is the greatest of them.
LEMMA MaxIn ==
  ASSUME NEW k \in Nat, NEW S \in SUBSET (1..k), S # {}
  PROVE  Max(S) \in S /\ \A i \in S : i <= Max(S)
<1>. DEFINE T == {k - i : i \in S}
<1>1. T \subseteq Nat /\ T # {}
  <2>1. \A i \in S : i \in Nat /\ k - i \in Nat
    OBVIOUS
  <2>. QED BY <2>1
<1>2. PICK t \in T : \A u \in T : t <= u
  <2> HIDE DEF T
  <2> QED BY <1>1, LeastExists
<1>3. PICK m \in S : t = k - m
  BY <1>2
<1>4. \A i \in S : m >= i
  <2>1. \A i \in S : t <= k - i /\ i \in 1..k
    BY <1>2
  <2>. QED BY <2>1, <1>3
<1>5. Max(S) \in S /\ \A i \in S : Max(S) >= i
  BY <1>4 DEF Max
<1>. QED BY <1>5


\* What a fold over the elements numbered 1..k is, if it adds the one with the greatest number last.
IsFold(g, k, Val, base, F) ==
    /\ g \in [SUBSET (1..k) -> Val]
    /\ \A S \in SUBSET (1..k) : S # {} => g[S] = F[Max(S)][g[S \ {Max(S)}]]
    /\ g[{}] = base

\* Such a fold, with one element more.
LEMMA FoldGrows ==
  ASSUME NEW n \in Nat, NEW Val, NEW base \in Val, NEW F \in [1..n -> [Val -> Val]],
         NEW k \in Nat, k < n, NEW g, IsFold(g, k, Val, base, F)
  PROVE  \E h : IsFold(h, k + 1, Val, base, F)
<1>. DEFINE h == [S \in SUBSET (1..k+1) |-> IF k+1 \in S THEN F[k+1][g[S \ {k+1}]] ELSE g[S]]
<1>1. k + 1 \in 1..n /\ k + 1 \notin 1..k
  OBVIOUS
<1>2. ASSUME NEW S \in SUBSET (1..k+1)
      PROVE  /\ k+1 \notin S => S \in SUBSET (1..k)
             /\ S \ {k+1} \in SUBSET (1..k)
             /\ k+1 \in S => Max(S) = k+1
             /\ S # {} => Max(S) \in S
  <2>1. \A i \in S : i \in Nat /\ i <= k + 1 /\ (i = k + 1 \/ i \in 1..k)
    OBVIOUS
  <2>2. k+1 \in S => Max(S) = k+1
    <3>. SUFFICES ASSUME k + 1 \in S PROVE Max(S) = k + 1
      OBVIOUS
    <3>1. \A y \in S : k + 1 >= y
      BY <2>1
    <3>2. \A x \in S : (\A y \in S : x >= y) => x = k + 1
      BY <2>1
    <3>. QED BY <3>1, <3>2 DEF Max
  <2>3. S # {} => Max(S) \in S
    <3>1. k + 1 \in Nat
      OBVIOUS
    <3>. QED BY <3>1, MaxIn
  <2>. QED BY <2>1, <2>2, <2>3
<1>3. h \in [SUBSET (1..k+1) -> Val]
  <2>1. ASSUME NEW S \in SUBSET (1..k+1)
        PROVE  (IF k+1 \in S THEN F[k+1][g[S \ {k+1}]] ELSE g[S]) \in Val
    <3>1. g[S \ {k+1}] \in Val /\ (k+1 \notin S => g[S] \in Val)
      BY <1>2 DEF IsFold
    <3>. QED BY <3>1, <1>1
  <2>. QED BY <2>1
<1>4. h[{}] = base
  BY <1>1 DEF IsFold
<1>5. ASSUME NEW S \in SUBSET (1..k+1), S # {}
      PROVE  h[S] = F[Max(S)][h[S \ {Max(S)}]]
  <2>1. CASE k + 1 \in S
    <3>1. h[S] = F[k+1][g[S \ {k+1}]]
      BY <2>1
    <3>2. h[S \ {k+1}] = g[S \ {k+1}]
      BY <2>1
    <3>. QED BY <3>1, <3>2, <1>2, <2>1
  <2>2. CASE k + 1 \notin S
    <3>. DEFINE T == S \ {Max(S)}
    <3>1. T \in SUBSET (1..k+1) /\ k+1 \notin T
      BY <2>2
    <3>2. h[S] = g[S] /\ h[T] = g[T]
      BY <2>2, <3>1
    <3>. QED BY <3>2, <1>2, <1>5, <2>2 DEF IsFold
  <2>. QED BY <2>1, <2>2
<1>6. IsFold(h, k + 1, Val, base, F)
  <2>. HIDE DEF h
  <2>. QED BY <1>3, <1>4, <1>5 DEF IsFold
<1>. QED BY <1>6

\* There is such a fold for every number of elements.
LEMMA FoldExists ==
  ASSUME NEW n \in Nat, NEW Val, NEW base \in Val, NEW F \in [1..n -> [Val -> Val]]
  PROVE \E g : IsFold(g, n, Val, base, F)
<1>. DEFINE N == {k \in Nat : k <= n => \E g : IsFold(g, k, Val, base, F)}
<1>1. 0 \in N
  <2>1. SUBSET (1..0) = {{}} BY SMT
  <2>2. IsFold([S \in {{}} |-> base], 0, Val, base, F)
    BY <2>1 DEF IsFold
  <2> QED BY <2>2
<1>2. ASSUME NEW k \in Nat, k \in N PROVE k + 1 \in N
  <2>1. CASE k < n
    <3>1. PICK g : IsFold(g, k, Val, base, F)
      BY <1>2, <2>1
    <3>2. \E h : IsFold(h, k + 1, Val, base, F)
      BY <3>1, <2>1, FoldGrows
    <3>. QED BY <3>2
  <2>2. CASE ~(k < n)
    BY <2>2
  <2>. QED BY <2>1, <2>2
<1>3. n \in N
  <2> HIDE DEF N
  <2> QED BY <1>1, <1>2, Induct
<1>. QED BY <1>3



\* A function that adds the greatest element last, and the walk through 1..n that it makes.
Follows(it, n, Val, base, F) ==
    /\ it[{}] = base
    /\ \A S \in SUBSET (1..n) : S # {} /\ it[S \ {Max(S)}] \in Val =>
          it[S] = F[Max(S)][it[S \ {Max(S)}]]
Walks(P, n, Val, base, F) ==
    /\ P \in [0..n -> Val]
    /\ P[0] = base
    /\ \A k \in 0..n-1 : P[k+1] = F[k+1][P[k]]

\* The function of the whole of 1..n is where the walk through 1..n ends.
LEMMA FoldWalk ==
  ASSUME NEW n \in Nat, NEW Val, NEW base \in Val, NEW F \in [1..n -> [Val -> Val]],
         NEW it, Follows(it, n, Val, base, F)
  PROVE  \E P : Walks(P, n, Val, base, F) /\ P[n] = it[1..n]
<1>. DEFINE P == [k \in 0..n |-> it[1..k]]
            N == {k \in Nat : k <= n => it[1..k] \in Val}
<1>1. ASSUME NEW k \in 0..n-1, it[1..k] \in Val
      PROVE  it[1..k+1] = F[k+1][it[1..k]] /\ it[1..k+1] \in Val
  <2>1. /\ 1..k+1 \in SUBSET (1..n) /\ k + 1 \in 1..k+1 /\ k + 1 \in 1..n
        /\ (1..k+1) \ {k+1} = 1..k
    <3>1. \A i \in Int : i \in 1..k+1 <=> i \in 1..k \/ i = k + 1
      OBVIOUS
    <3>. QED BY <3>1
  <2>2. Max(1..k+1) = k+1
    <3>1. k + 1 \in 1..k+1 /\ \A y \in 1..k+1 : k + 1 >= y
      OBVIOUS
    <3>2. \A x \in 1..k+1 : (\A y \in 1..k+1 : x >= y) => x = k + 1
      OBVIOUS
    <3>. QED BY <3>1, <3>2 DEF Max
  <2>3. 1..k+1 # {} /\ it[(1..k+1) \ {Max(1..k+1)}] \in Val
    BY <1>1, <2>1, <2>2
  <2>4. it[1..k+1] = F[Max(1..k+1)][it[(1..k+1) \ {Max(1..k+1)}]]
    BY <2>1, <2>3 DEF Follows
  <2>5. it[1..k+1] = F[k+1][it[1..k]]
    BY <2>1, <2>2, <2>4
  <2>. QED BY <2>1, <2>5, <1>1
<1>2. 1..0 = {}
  OBVIOUS
<1>3. 0 \in N
  BY <1>2 DEF Follows
<1>4. ASSUME NEW k \in Nat, k \in N PROVE k + 1 \in N
  <2>1. CASE k + 1 <= n
    <3>1. k \in 0..n-1 /\ it[1..k] \in Val
      BY <1>4, <2>1
    <3>2. it[1..k+1] \in Val
      BY <1>1, <3>1
    <3>. QED BY <3>2
  <2>2. CASE ~(k + 1 <= n)
    BY <2>2
  <2>. QED BY <2>1, <2>2
<1>5. \A k \in Nat : k \in N
  <2>. HIDE DEF N
  <2>. QED BY <1>3, <1>4, Induct
<1>6. \A k \in 0..n : it[1..k] \in Val
  BY <1>5
<1>7. P \in [0..n -> Val] /\ P[0] = base /\ P[n] = it[1..n]
  BY <1>6, <1>2 DEF Follows
<1>8. \A k \in 0..n-1 : P[k+1] = F[k+1][P[k]]
  BY <1>1, <1>6
<1>. QED BY <1>7, <1>8 DEF Walks

\* The greatest of some places of a sequence is one of them.
LEMMA MaxOf ==
  ASSUME NEW L, NEW s \in Seq(L), NEW S \in SUBSET DOMAIN s, S # {}
  PROVE  Max(S) \in 1..Len(s) /\ Max(S) \in S /\ S \ {Max(S)} \in SUBSET (1..Len(s))
<1>1. Len(s) \in Nat /\ DOMAIN s = 1..Len(s)
  OBVIOUS
<1>2. Max(S) \in S
  BY <1>1, MaxIn
<1>. QED BY <1>1, <1>2

\* A walk through s that keeps the elements numbered K.
Keeps(P, K, s, L) ==
    /\ P \in [0..Len(s) -> Seq(L)]
    /\ P[0] = <<>>
    /\ K \in SUBSET (1..Len(s))
    /\ \A k \in 0..Len(s)-1 : P[k+1] = IF k+1 \in K THEN Append(P[k], s[k+1]) ELSE P[k]

\* The function that FoldLeft makes of such a walk, where T says what stays.
KeepsFrom(g, T, s, L) ==
    /\ g[{}] = <<>>
    /\ \A S \in SUBSET DOMAIN s : S # {} /\ g[S \ {Max(S)}] \in Seq(L) =>
          g[S] = IF T[Max(S)][g[S \ {Max(S)}]] THEN Append(g[S \ {Max(S)}], s[Max(S)])
                 ELSE g[S \ {Max(S)}]

\* A function that keeps what T says exists,
LEMMA KeptExists ==
  ASSUME NEW L, NEW s \in Seq(L), NEW T
  PROVE  \E g \in [SUBSET DOMAIN s -> Seq(L)] : KeepsFrom(g, T, s, L)
<1>. DEFINE n == Len(s)
            F == [k \in 1..n |-> [v \in Seq(L) |-> IF T[k][v] THEN Append(v, s[k]) ELSE v]]
<1>1. n \in Nat /\ DOMAIN s = 1..n /\ <<>> \in Seq(L) /\ F \in [1..n -> [Seq(L) -> Seq(L)]]
  OBVIOUS
<1>2. PICK g : IsFold(g, n, Seq(L), <<>>, F)
  <2>. HIDE DEF F, n
  <2>. QED BY <1>1, FoldExists
<1>3. ASSUME NEW S \in SUBSET DOMAIN s, S # {}
      PROVE  g[S] = IF T[Max(S)][g[S \ {Max(S)}]] THEN Append(g[S \ {Max(S)}], s[Max(S)])
                    ELSE g[S \ {Max(S)}]
  <2>1. Max(S) \in 1..n /\ S \ {Max(S)} \in SUBSET (1..n)
    BY <1>3, MaxOf
  <2>2. g[S \ {Max(S)}] \in Seq(L) /\ g[S] = F[Max(S)][g[S \ {Max(S)}]]
    <3>. HIDE DEF F, n
    <3>. QED BY <1>1, <1>2, <1>3, <2>1 DEF IsFold
  <2>. QED BY <2>1, <2>2
<1>4. g \in [SUBSET DOMAIN s -> Seq(L)] /\ g[{}] = <<>>
  BY <1>1, <1>2 DEF IsFold
<1>. HIDE DEF F, n
<1>. QED BY <1>3, <1>4 DEF KeepsFrom

\* and is a walk that keeps those elements.
LEMMA KeptWalk ==
  ASSUME NEW L, NEW s \in Seq(L), NEW T \in [1..Len(s) -> [Seq(L) -> BOOLEAN]], NEW it,
         KeepsFrom(it, T, s, L)
  PROVE  \E P, K : /\ Keeps(P, K, s, L) /\ P[Len(s)] = it[DOMAIN s]
                   /\ \A k \in 1..Len(s) : P[k-1] \in Seq(L) /\ (k \in K <=> T[k][P[k-1]])
<1>. DEFINE n == Len(s)
            V == Seq(L)
            F == [k \in 1..n |-> [v \in V |-> IF T[k][v] THEN Append(v, s[k]) ELSE v]]
<1>1. n \in Nat /\ DOMAIN s = 1..n /\ <<>> \in V /\ F \in [1..n -> [V -> V]]
  OBVIOUS
<1>2. Follows(it, n, V, <<>>, F)
  <2>1. ASSUME NEW S \in SUBSET (1..n), S # {}, it[S \ {Max(S)}] \in V
        PROVE  it[S] = F[Max(S)][it[S \ {Max(S)}]]
    <3>1. Max(S) \in 1..n
      BY <2>1, <1>1, MaxOf
    <3>2. it[S] = IF T[Max(S)][it[S \ {Max(S)}]] THEN Append(it[S \ {Max(S)}], s[Max(S)])
                  ELSE it[S \ {Max(S)}]
      BY <2>1, <1>1 DEF KeepsFrom
    <3>. QED BY <3>1, <3>2, <2>1
  <2>2. it[{}] = <<>>
    BY DEF KeepsFrom
  <2>. HIDE DEF F, V, n
  <2>. QED BY <2>1, <2>2 DEF Follows
<1>3. PICK P : Walks(P, n, V, <<>>, F) /\ P[n] = it[1..n]
  <2>. HIDE DEF F, V, n
  <2>. QED BY <1>1, <1>2, FoldWalk
<1>. DEFINE K == {k \in 1..n : T[k][P[k-1]]}
<1>4. P \in [0..n -> V] /\ P[0] = <<>>
  BY <1>3 DEF Walks
<1>5. ASSUME NEW k \in 0..n-1
      PROVE  P[k+1] = IF k+1 \in K THEN Append(P[k], s[k+1]) ELSE P[k]
  <2>1. k + 1 \in 1..n /\ P[k] \in V /\ (k + 1) - 1 = k
    BY <1>4
  <2>2. P[k+1] = F[k+1][P[k]]
    <3>. HIDE DEF F, V, n
    <3>. QED BY <1>3 DEF Walks
  <2>3. F[k+1][P[k]] = IF T[k+1][P[k]] THEN Append(P[k], s[k+1]) ELSE P[k]
    BY <2>1
  <2>. QED BY <2>1, <2>2, <2>3
<1>6. Keeps(P, K, s, L)
  BY <1>4, <1>5 DEF Keeps
<1>7. \A k \in 1..n : P[k-1] \in V /\ (k \in K <=> T[k][P[k-1]])
  BY <1>1, <1>4
<1>. QED BY <1>1, <1>3, <1>6, <1>7

\* Each rule that drops elements is such a walk, with its own reason to keep one: strip_patterns,
LEMMA NoiseKeeps ==
  ASSUME NEW L, NEW s \in Seq(L)
  PROVE  \E P, K : /\ Keeps(P, K, s, L) /\ P[Len(s)] = WithoutNoise(s)
                   /\ \A k \in 1..Len(s) : P[k-1] \in Seq(L) /\ (k \in K <=> s[k] \notin Noise)
<1>. DEFINE T == [k \in 1..Len(s) |-> [v \in Seq(L) |-> s[k] \notin Noise]]
            Is(g) == g = [S \in SUBSET DOMAIN s |->
                            IF S = {} THEN <<>>
                            ELSE IF s[Max(S)] \notin Noise
                                 THEN Append(g[S \ {Max(S)}], s[Max(S)])
                                 ELSE g[S \ {Max(S)}]]
            it == CHOOSE g : Is(g)
<1>1. WithoutNoise(s) = it[DOMAIN s]
  BY DEF WithoutNoise, Kept, FoldLeft, MapThenFoldSet
<1>2. T \in [1..Len(s) -> [Seq(L) -> BOOLEAN]]
  OBVIOUS
<1>3. PICK g \in [SUBSET DOMAIN s -> Seq(L)] : KeepsFrom(g, T, s, L)
  <2>. HIDE DEF T
  <2>. QED BY KeptExists
<1>4. ASSUME NEW S \in SUBSET DOMAIN s, S # {}, NEW v \in Seq(L)
      PROVE  T[Max(S)][v] = (s[Max(S)] \notin Noise)
  BY <1>4, MaxOf
<1>5. Is(g)
  <2>. HIDE DEF T
  <2>1. ASSUME NEW S \in SUBSET DOMAIN s, S # {}
        PROVE  g[S] = IF s[Max(S)] \notin Noise
                      THEN Append(g[S \ {Max(S)}], s[Max(S)]) ELSE g[S \ {Max(S)}]
    <3>1. g[S \ {Max(S)}] \in Seq(L)
      BY <1>3
    <3>2. g[S] = IF T[Max(S)][g[S \ {Max(S)}]] THEN Append(g[S \ {Max(S)}], s[Max(S)])
                 ELSE g[S \ {Max(S)}]
      BY <1>3, <2>1, <3>1 DEF KeepsFrom
    <3>3. T[Max(S)][g[S \ {Max(S)}]] = (s[Max(S)] \notin Noise)
      BY <1>4, <2>1, <3>1
    <3>. QED BY <3>2, <3>3
  <2>2. g[{}] = <<>>
    BY <1>3 DEF KeepsFrom
  <2>. QED BY <1>3, <2>1, <2>2
<1>6. Is(it)
  <2>. HIDE DEF Is
  <2>. QED BY <1>5
<1>7. KeepsFrom(it, T, s, L)
  <2>. HIDE DEF T, it
  <2>. QED BY <1>4, <1>6 DEF KeepsFrom
<1>8. PICK P, K :
                /\ Keeps(P, K, s, L) /\ P[Len(s)] = it[DOMAIN s]
                /\ \A k \in 1..Len(s) : P[k-1] \in Seq(L) /\ (k \in K <=> T[k][P[k-1]])
  <2>. HIDE DEF T, it
  <2>. QED BY <1>2, <1>7, KeptWalk
<1>9. ASSUME NEW k \in 1..Len(s)
      PROVE  P[k-1] \in Seq(L) /\ (k \in K <=> s[k] \notin Noise)
  <2>1. ASSUME NEW v \in Seq(L) PROVE T[k][v] <=> s[k] \notin Noise
    OBVIOUS
  <2>. HIDE DEF T, it, Is
  <2>2. P[k-1] \in Seq(L) /\ (k \in K <=> T[k][P[k-1]])
    BY <1>8
  <2>3. T[k][P[k-1]] <=> s[k] \notin Noise
    BY <2>1, <2>2
  <2>. QED BY <2>2, <2>3
<1>. HIDE DEF T, it, Is
<1>. QED BY <1>1, <1>8, <1>9

\* DropEmpty,
LEMMA EmptyKeeps ==
  ASSUME NEW L, NEW s \in Seq(L)
  PROVE  \E P, K : /\ Keeps(P, K, s, L) /\ P[Len(s)] = DropEmpty(s)
                   /\ \A k \in 1..Len(s) : P[k-1] \in Seq(L) /\ (k \in K <=> s[k].text # <<>>)
<1>. DEFINE T == [k \in 1..Len(s) |-> [v \in Seq(L) |-> s[k].text # <<>>]]
            Is(g) == g = [S \in SUBSET DOMAIN s |->
                            IF S = {} THEN <<>>
                            ELSE IF s[Max(S)].text # <<>>
                                 THEN Append(g[S \ {Max(S)}], s[Max(S)])
                                 ELSE g[S \ {Max(S)}]]
            it == CHOOSE g : Is(g)
<1>1. DropEmpty(s) = it[DOMAIN s]
  BY DEF DropEmpty, Kept, FoldLeft, MapThenFoldSet
<1>2. T \in [1..Len(s) -> [Seq(L) -> BOOLEAN]]
  OBVIOUS
<1>3. PICK g \in [SUBSET DOMAIN s -> Seq(L)] : KeepsFrom(g, T, s, L)
  <2>. HIDE DEF T
  <2>. QED BY KeptExists
<1>4. ASSUME NEW S \in SUBSET DOMAIN s, S # {}, NEW v \in Seq(L)
      PROVE  T[Max(S)][v] = (s[Max(S)].text # <<>>)
  BY <1>4, MaxOf
<1>5. Is(g)
  <2>. HIDE DEF T
  <2>1. ASSUME NEW S \in SUBSET DOMAIN s, S # {}
        PROVE  g[S] = IF s[Max(S)].text # <<>>
                      THEN Append(g[S \ {Max(S)}], s[Max(S)]) ELSE g[S \ {Max(S)}]
    <3>1. g[S \ {Max(S)}] \in Seq(L)
      BY <1>3
    <3>2. g[S] = IF T[Max(S)][g[S \ {Max(S)}]] THEN Append(g[S \ {Max(S)}], s[Max(S)])
                 ELSE g[S \ {Max(S)}]
      BY <1>3, <2>1, <3>1 DEF KeepsFrom
    <3>3. T[Max(S)][g[S \ {Max(S)}]] = (s[Max(S)].text # <<>>)
      BY <1>4, <2>1, <3>1
    <3>. QED BY <3>2, <3>3
  <2>2. g[{}] = <<>>
    BY <1>3 DEF KeepsFrom
  <2>. QED BY <1>3, <2>1, <2>2
<1>6. Is(it)
  <2>. HIDE DEF Is
  <2>. QED BY <1>5
<1>7. KeepsFrom(it, T, s, L)
  <2>. HIDE DEF T, it
  <2>. QED BY <1>4, <1>6 DEF KeepsFrom
<1>8. PICK P, K :
                /\ Keeps(P, K, s, L) /\ P[Len(s)] = it[DOMAIN s]
                /\ \A k \in 1..Len(s) : P[k-1] \in Seq(L) /\ (k \in K <=> T[k][P[k-1]])
  <2>. HIDE DEF T, it
  <2>. QED BY <1>2, <1>7, KeptWalk
<1>9. ASSUME NEW k \in 1..Len(s)
      PROVE  P[k-1] \in Seq(L) /\ (k \in K <=> s[k].text # <<>>)
  <2>1. ASSUME NEW v \in Seq(L) PROVE T[k][v] <=> s[k].text # <<>>
    OBVIOUS
  <2>. HIDE DEF T, it, Is
  <2>2. P[k-1] \in Seq(L) /\ (k \in K <=> T[k][P[k-1]])
    BY <1>8
  <2>3. T[k][P[k-1]] <=> s[k].text # <<>>
    BY <2>1, <2>2
  <2>. QED BY <2>2, <2>3
<1>. HIDE DEF T, it, Is
<1>. QED BY <1>1, <1>8, <1>9

\* DropHallucinations,
LEMMA HallucinationsKeeps ==
  ASSUME NEW L, NEW s \in Seq(L), NEW set
  PROVE  \E P, K : /\ Keeps(P, K, s, L) /\ P[Len(s)] = DropHallucinations(set, s)
                   /\ \A k \in 1..Len(s) : P[k-1] \in Seq(L) /\ (k \in K <=> (set.hallucinations => ~IsHallucination(set.match, s[k].text)))
<1>. DEFINE T == [k \in 1..Len(s) |-> [v \in Seq(L) |-> set.hallucinations => ~IsHallucination(set.match, s[k].text)]]
            Is(g) == g = [S \in SUBSET DOMAIN s |->
                            IF S = {} THEN <<>>
                            ELSE IF set.hallucinations => ~IsHallucination(set.match, s[Max(S)].text)
                                 THEN Append(g[S \ {Max(S)}], s[Max(S)])
                                 ELSE g[S \ {Max(S)}]]
            it == CHOOSE g : Is(g)
<1>1. DropHallucinations(set, s) = it[DOMAIN s]
  BY DEF DropHallucinations, Kept, FoldLeft, MapThenFoldSet
<1>2. T \in [1..Len(s) -> [Seq(L) -> BOOLEAN]]
  OBVIOUS
<1>3. PICK g \in [SUBSET DOMAIN s -> Seq(L)] : KeepsFrom(g, T, s, L)
  <2>. HIDE DEF T
  <2>. QED BY KeptExists
<1>4. ASSUME NEW S \in SUBSET DOMAIN s, S # {}, NEW v \in Seq(L)
      PROVE  T[Max(S)][v] = (set.hallucinations => ~IsHallucination(set.match, s[Max(S)].text))
  BY <1>4, MaxOf
<1>5. Is(g)
  <2>. HIDE DEF T
  <2>1. ASSUME NEW S \in SUBSET DOMAIN s, S # {}
        PROVE  g[S] = IF set.hallucinations => ~IsHallucination(set.match, s[Max(S)].text)
                      THEN Append(g[S \ {Max(S)}], s[Max(S)]) ELSE g[S \ {Max(S)}]
    <3>1. g[S \ {Max(S)}] \in Seq(L)
      BY <1>3
    <3>2. g[S] = IF T[Max(S)][g[S \ {Max(S)}]] THEN Append(g[S \ {Max(S)}], s[Max(S)])
                 ELSE g[S \ {Max(S)}]
      BY <1>3, <2>1, <3>1 DEF KeepsFrom
    <3>3. T[Max(S)][g[S \ {Max(S)}]] = (set.hallucinations => ~IsHallucination(set.match, s[Max(S)].text))
      BY <1>4, <2>1, <3>1
    <3>. QED BY <3>2, <3>3
  <2>2. g[{}] = <<>>
    BY <1>3 DEF KeepsFrom
  <2>. QED BY <1>3, <2>1, <2>2
<1>6. Is(it)
  <2>. HIDE DEF Is
  <2>. QED BY <1>5
<1>7. KeepsFrom(it, T, s, L)
  <2>. HIDE DEF T, it
  <2>. QED BY <1>4, <1>6 DEF KeepsFrom
<1>8. PICK P, K :
                /\ Keeps(P, K, s, L) /\ P[Len(s)] = it[DOMAIN s]
                /\ \A k \in 1..Len(s) : P[k-1] \in Seq(L) /\ (k \in K <=> T[k][P[k-1]])
  <2>. HIDE DEF T, it
  <2>. QED BY <1>2, <1>7, KeptWalk
<1>9. ASSUME NEW k \in 1..Len(s)
      PROVE  P[k-1] \in Seq(L) /\ (k \in K <=> (set.hallucinations => ~IsHallucination(set.match, s[k].text)))
  <2>1. ASSUME NEW v \in Seq(L) PROVE T[k][v] <=> (set.hallucinations => ~IsHallucination(set.match, s[k].text))
    OBVIOUS
  <2>. HIDE DEF T, it, Is
  <2>2. P[k-1] \in Seq(L) /\ (k \in K <=> T[k][P[k-1]])
    BY <1>8
  <2>3. T[k][P[k-1]] <=> (set.hallucinations => ~IsHallucination(set.match, s[k].text))
    BY <2>1, <2>2
  <2>. QED BY <2>2, <2>3
<1>. HIDE DEF T, it, Is
<1>. QED BY <1>1, <1>8, <1>9

\* DropShortLines,
LEMMA ShortKeeps ==
  ASSUME NEW L, NEW s \in Seq(L), NEW set
  PROVE  \E P, K : /\ Keeps(P, K, s, L) /\ P[Len(s)] = DropShortLines(set, s)
                   /\ \A k \in 1..Len(s) : P[k-1] \in Seq(L) /\ (k \in K <=> Len(s[k].text) >= set.min)
<1>. DEFINE T == [k \in 1..Len(s) |-> [v \in Seq(L) |-> Len(s[k].text) >= set.min]]
            Is(g) == g = [S \in SUBSET DOMAIN s |->
                            IF S = {} THEN <<>>
                            ELSE IF Len(s[Max(S)].text) >= set.min
                                 THEN Append(g[S \ {Max(S)}], s[Max(S)])
                                 ELSE g[S \ {Max(S)}]]
            it == CHOOSE g : Is(g)
<1>1. DropShortLines(set, s) = it[DOMAIN s]
  BY DEF DropShortLines, Kept, FoldLeft, MapThenFoldSet
<1>2. T \in [1..Len(s) -> [Seq(L) -> BOOLEAN]]
  OBVIOUS
<1>3. PICK g \in [SUBSET DOMAIN s -> Seq(L)] : KeepsFrom(g, T, s, L)
  <2>. HIDE DEF T
  <2>. QED BY KeptExists
<1>4. ASSUME NEW S \in SUBSET DOMAIN s, S # {}, NEW v \in Seq(L)
      PROVE  T[Max(S)][v] = (Len(s[Max(S)].text) >= set.min)
  BY <1>4, MaxOf
<1>5. Is(g)
  <2>. HIDE DEF T
  <2>1. ASSUME NEW S \in SUBSET DOMAIN s, S # {}
        PROVE  g[S] = IF Len(s[Max(S)].text) >= set.min
                      THEN Append(g[S \ {Max(S)}], s[Max(S)]) ELSE g[S \ {Max(S)}]
    <3>1. g[S \ {Max(S)}] \in Seq(L)
      BY <1>3
    <3>2. g[S] = IF T[Max(S)][g[S \ {Max(S)}]] THEN Append(g[S \ {Max(S)}], s[Max(S)])
                 ELSE g[S \ {Max(S)}]
      BY <1>3, <2>1, <3>1 DEF KeepsFrom
    <3>3. T[Max(S)][g[S \ {Max(S)}]] = (Len(s[Max(S)].text) >= set.min)
      BY <1>4, <2>1, <3>1
    <3>. QED BY <3>2, <3>3
  <2>2. g[{}] = <<>>
    BY <1>3 DEF KeepsFrom
  <2>. QED BY <1>3, <2>1, <2>2
<1>6. Is(it)
  <2>. HIDE DEF Is
  <2>. QED BY <1>5
<1>7. KeepsFrom(it, T, s, L)
  <2>. HIDE DEF T, it
  <2>. QED BY <1>4, <1>6 DEF KeepsFrom
<1>8. PICK P, K :
                /\ Keeps(P, K, s, L) /\ P[Len(s)] = it[DOMAIN s]
                /\ \A k \in 1..Len(s) : P[k-1] \in Seq(L) /\ (k \in K <=> T[k][P[k-1]])
  <2>. HIDE DEF T, it
  <2>. QED BY <1>2, <1>7, KeptWalk
<1>9. ASSUME NEW k \in 1..Len(s)
      PROVE  P[k-1] \in Seq(L) /\ (k \in K <=> Len(s[k].text) >= set.min)
  <2>1. ASSUME NEW v \in Seq(L) PROVE T[k][v] <=> Len(s[k].text) >= set.min
    OBVIOUS
  <2>. HIDE DEF T, it, Is
  <2>2. P[k-1] \in Seq(L) /\ (k \in K <=> T[k][P[k-1]])
    BY <1>8
  <2>3. T[k][P[k-1]] <=> Len(s[k].text) >= set.min
    BY <2>1, <2>2
  <2>. QED BY <2>2, <2>3
<1>. HIDE DEF T, it, Is
<1>. QED BY <1>1, <1>8, <1>9

\* DropDuplicateSegments, by what was kept so far,
LEMMA DuplicatesKeeps ==
  ASSUME NEW L, NEW s \in Seq(L), NEW set
  PROVE  \E P, K : /\ Keeps(P, K, s, L) /\ P[Len(s)] = DropDuplicateSegments(set, s)
                   /\ \A k \in 1..Len(s) : P[k-1] \in Seq(L) /\ (k \in K <=> (set.duplicates => \A i \in DOMAIN P[k-1] : ~SameSegment(P[k-1][i], s[k])))
<1>. DEFINE T == [k \in 1..Len(s) |-> [v \in Seq(L) |-> set.duplicates => \A i \in DOMAIN v : ~SameSegment(v[i], s[k])]]
            Is(g) == g = [S \in SUBSET DOMAIN s |->
                            IF S = {} THEN <<>>
                            ELSE IF set.duplicates => \A i \in DOMAIN g[S \ {Max(S)}] : ~SameSegment(g[S \ {Max(S)}][i], s[Max(S)])
                                 THEN Append(g[S \ {Max(S)}], s[Max(S)])
                                 ELSE g[S \ {Max(S)}]]
            it == CHOOSE g : Is(g)
<1>1. DropDuplicateSegments(set, s) = it[DOMAIN s]
  BY DEF DropDuplicateSegments, Kept, FoldLeft, MapThenFoldSet
<1>2. T \in [1..Len(s) -> [Seq(L) -> BOOLEAN]]
  OBVIOUS
<1>3. PICK g \in [SUBSET DOMAIN s -> Seq(L)] : KeepsFrom(g, T, s, L)
  <2>. HIDE DEF T
  <2>. QED BY KeptExists
<1>4. ASSUME NEW S \in SUBSET DOMAIN s, S # {}, NEW v \in Seq(L)
      PROVE  T[Max(S)][v] = (set.duplicates => \A i \in DOMAIN v : ~SameSegment(v[i], s[Max(S)]))
  BY <1>4, MaxOf
<1>5. Is(g)
  <2>. HIDE DEF T
  <2>1. ASSUME NEW S \in SUBSET DOMAIN s, S # {}
        PROVE  g[S] = IF set.duplicates => \A i \in DOMAIN g[S \ {Max(S)}] : ~SameSegment(g[S \ {Max(S)}][i], s[Max(S)])
                      THEN Append(g[S \ {Max(S)}], s[Max(S)]) ELSE g[S \ {Max(S)}]
    <3>1. g[S \ {Max(S)}] \in Seq(L)
      BY <1>3
    <3>2. g[S] = IF T[Max(S)][g[S \ {Max(S)}]] THEN Append(g[S \ {Max(S)}], s[Max(S)])
                 ELSE g[S \ {Max(S)}]
      BY <1>3, <2>1, <3>1 DEF KeepsFrom
    <3>3. T[Max(S)][g[S \ {Max(S)}]] = (set.duplicates => \A i \in DOMAIN g[S \ {Max(S)}] : ~SameSegment(g[S \ {Max(S)}][i], s[Max(S)]))
      BY <1>4, <2>1, <3>1
    <3>. QED BY <3>2, <3>3
  <2>2. g[{}] = <<>>
    BY <1>3 DEF KeepsFrom
  <2>. QED BY <1>3, <2>1, <2>2
<1>6. Is(it)
  <2>. HIDE DEF Is
  <2>. QED BY <1>5
<1>7. KeepsFrom(it, T, s, L)
  <2>. HIDE DEF T, it
  <2>. QED BY <1>4, <1>6 DEF KeepsFrom
<1>8. PICK P, K :
                /\ Keeps(P, K, s, L) /\ P[Len(s)] = it[DOMAIN s]
                /\ \A k \in 1..Len(s) : P[k-1] \in Seq(L) /\ (k \in K <=> T[k][P[k-1]])
  <2>. HIDE DEF T, it
  <2>. QED BY <1>2, <1>7, KeptWalk
<1>9. ASSUME NEW k \in 1..Len(s)
      PROVE  P[k-1] \in Seq(L) /\ (k \in K <=> (set.duplicates => \A i \in DOMAIN P[k-1] : ~SameSegment(P[k-1][i], s[k])))
  <2>1. ASSUME NEW v \in Seq(L) PROVE T[k][v] <=> (set.duplicates => \A i \in DOMAIN v : ~SameSegment(v[i], s[k]))
    OBVIOUS
  <2>. HIDE DEF T, it, Is
  <2>2. P[k-1] \in Seq(L) /\ (k \in K <=> T[k][P[k-1]])
    BY <1>8
  <2>3. T[k][P[k-1]] <=> (set.duplicates => \A i \in DOMAIN P[k-1] : ~SameSegment(P[k-1][i], s[k]))
    BY <2>1, <2>2
  <2>. QED BY <2>2, <2>3
<1>. HIDE DEF T, it, Is
<1>. QED BY <1>1, <1>8, <1>9

\* and DropRepeats, by what was kept so far.
LEMMA RepeatsKeeps ==
  ASSUME NEW L, NEW s \in Seq(L), NEW set
  PROVE  \E P, K : /\ Keeps(P, K, s, L) /\ P[Len(s)] = DropRepeats(set, s)
                   /\ \A k \in 1..Len(s) : P[k-1] \in Seq(L) /\ (k \in K <=> (set.window > 0 /\ Said(P[k-1], s[k]) # {} => ~Within(set.window, P[k-1][Max(Said(P[k-1], s[k]))], s[k])))
<1>. DEFINE T == [k \in 1..Len(s) |-> [v \in Seq(L) |-> set.window > 0 /\ Said(v, s[k]) # {} => ~Within(set.window, v[Max(Said(v, s[k]))], s[k])]]
            Is(g) == g = [S \in SUBSET DOMAIN s |->
                            IF S = {} THEN <<>>
                            ELSE IF set.window > 0 /\ Said(g[S \ {Max(S)}], s[Max(S)]) # {} => ~Within(set.window, g[S \ {Max(S)}][Max(Said(g[S \ {Max(S)}], s[Max(S)]))], s[Max(S)])
                                 THEN Append(g[S \ {Max(S)}], s[Max(S)])
                                 ELSE g[S \ {Max(S)}]]
            it == CHOOSE g : Is(g)
<1>1. DropRepeats(set, s) = it[DOMAIN s]
  BY DEF DropRepeats, Kept, FoldLeft, MapThenFoldSet
<1>2. T \in [1..Len(s) -> [Seq(L) -> BOOLEAN]]
  OBVIOUS
<1>3. PICK g \in [SUBSET DOMAIN s -> Seq(L)] : KeepsFrom(g, T, s, L)
  <2>. HIDE DEF T
  <2>. QED BY KeptExists
<1>4. ASSUME NEW S \in SUBSET DOMAIN s, S # {}, NEW v \in Seq(L)
      PROVE  T[Max(S)][v] = (set.window > 0 /\ Said(v, s[Max(S)]) # {} => ~Within(set.window, v[Max(Said(v, s[Max(S)]))], s[Max(S)]))
  BY <1>4, MaxOf
<1>5. Is(g)
  <2>. HIDE DEF T
  <2>1. ASSUME NEW S \in SUBSET DOMAIN s, S # {}
        PROVE  g[S] = IF set.window > 0 /\ Said(g[S \ {Max(S)}], s[Max(S)]) # {} => ~Within(set.window, g[S \ {Max(S)}][Max(Said(g[S \ {Max(S)}], s[Max(S)]))], s[Max(S)])
                      THEN Append(g[S \ {Max(S)}], s[Max(S)]) ELSE g[S \ {Max(S)}]
    <3>1. g[S \ {Max(S)}] \in Seq(L)
      BY <1>3
    <3>2. g[S] = IF T[Max(S)][g[S \ {Max(S)}]] THEN Append(g[S \ {Max(S)}], s[Max(S)])
                 ELSE g[S \ {Max(S)}]
      BY <1>3, <2>1, <3>1 DEF KeepsFrom
    <3>3. T[Max(S)][g[S \ {Max(S)}]] = (set.window > 0 /\ Said(g[S \ {Max(S)}], s[Max(S)]) # {} => ~Within(set.window, g[S \ {Max(S)}][Max(Said(g[S \ {Max(S)}], s[Max(S)]))], s[Max(S)]))
      BY <1>4, <2>1, <3>1
    <3>. QED BY <3>2, <3>3
  <2>2. g[{}] = <<>>
    BY <1>3 DEF KeepsFrom
  <2>. QED BY <1>3, <2>1, <2>2
<1>6. Is(it)
  <2>. HIDE DEF Is
  <2>. QED BY <1>5
<1>7. KeepsFrom(it, T, s, L)
  <2>. HIDE DEF T, it
  <2>. QED BY <1>4, <1>6 DEF KeepsFrom
<1>8. PICK P, K :
                /\ Keeps(P, K, s, L) /\ P[Len(s)] = it[DOMAIN s]
                /\ \A k \in 1..Len(s) : P[k-1] \in Seq(L) /\ (k \in K <=> T[k][P[k-1]])
  <2>. HIDE DEF T, it
  <2>. QED BY <1>2, <1>7, KeptWalk
<1>9. ASSUME NEW k \in 1..Len(s)
      PROVE  P[k-1] \in Seq(L) /\ (k \in K <=> (set.window > 0 /\ Said(P[k-1], s[k]) # {} => ~Within(set.window, P[k-1][Max(Said(P[k-1], s[k]))], s[k])))
  <2>1. ASSUME NEW v \in Seq(L) PROVE T[k][v] <=> (set.window > 0 /\ Said(v, s[k]) # {} => ~Within(set.window, v[Max(Said(v, s[k]))], s[k]))
    OBVIOUS
  <2>. HIDE DEF T, it, Is
  <2>2. P[k-1] \in Seq(L) /\ (k \in K <=> T[k][P[k-1]])
    BY <1>8
  <2>3. T[k][P[k-1]] <=> (set.window > 0 /\ Said(P[k-1], s[k]) # {} => ~Within(set.window, P[k-1][Max(Said(P[k-1], s[k]))], s[k]))
    BY <2>1, <2>2
  <2>. QED BY <2>2, <2>3
<1>. HIDE DEF T, it, Is
<1>. QED BY <1>1, <1>8, <1>9
-----------------------------------------------------------------------------
(* What is left of a sequence, and where each element was *)

Picks(ix, t, s, K) ==
    /\ ix \in [1..Len(t) -> K]
    /\ \A a, b \in 1..Len(t) : a < b => ix[a] < ix[b]
    /\ \A i \in K : \E a \in 1..Len(t) : ix[a] = i
    /\ \A a \in 1..Len(t) : t[a] = s[ix[a]]

\* What is left, with one element more that is kept.
LEMMA PicksNext ==
  ASSUME NEW L, NEW s \in Seq(L), NEW k \in 0..Len(s)-1, NEW t \in Seq(L), NEW ix,
         NEW K \in SUBSET (1..k), Picks(ix, t, s, K)
  PROVE  \E jx : Picks(jx, Append(t, s[k+1]), s, K \cup {k+1})
<1>. DEFINE u == Append(t, s[k+1])
            m == Len(t)
            jx == [a \in 1..m+1 |-> IF a = m + 1 THEN k + 1 ELSE ix[a]]
<1>1. /\ m \in Nat /\ Len(u) = m + 1 /\ u[m + 1] = s[k+1] /\ \A a \in 1..m : u[a] = t[a]
      /\ k \in Nat
  OBVIOUS
<1>2. \A a \in 1..m+1 : a # m + 1 => a \in 1..m
  BY <1>1
<1>3. ix \in [1..m -> K] /\ \A a \in 1..m : ix[a] \in 1..k
  BY DEF Picks
<1>. HIDE DEF m, u
<1>4. jx \in [1..Len(u) -> K \cup {k+1}]
  BY <1>1, <1>2, <1>3
<1>5. \A a, b \in 1..Len(u) : a < b => jx[a] < jx[b]
  <2>1. ASSUME NEW a \in 1..m+1, NEW b \in 1..m+1, a < b
        PROVE  jx[a] < jx[b]
    <3>1. a \in 1..m
      BY <2>1, <1>1
    <3>2. CASE b = m + 1
      BY <3>1, <3>2, <1>1, <1>3
    <3>3. CASE b # m + 1
      <4>1. b \in 1..m
        BY <3>3, <1>2
      <4>. QED BY <2>1, <3>1, <4>1, <3>3, <1>1 DEF Picks, m
    <3>. QED BY <3>2, <3>3
  <2>. QED BY <2>1, <1>1
<1>6. \A i \in K \cup {k+1} : \E a \in 1..Len(u) : jx[a] = i
  <2>1. ASSUME NEW i \in K PROVE \E a \in 1..Len(u) : jx[a] = i
    <3>1. PICK a \in 1..m : ix[a] = i
      BY DEF Picks, m
    <3>2. a \in 1..m+1 /\ a # m + 1
      BY <1>1, <3>1
    <3>. QED BY <3>1, <3>2, <1>1
  <2>2. m + 1 \in 1..Len(u) /\ jx[m + 1] = k + 1
    BY <1>1
  <2>. QED BY <2>1, <2>2
<1>7. \A a \in 1..Len(u) : u[a] = s[jx[a]]
  <2>1. \A a \in 1..m : t[a] = s[ix[a]]
    BY DEF Picks, m
  <2>. QED BY <2>1, <1>1, <1>2
<1>8. Picks(jx, u, s, K \cup {k+1})
  <2>. HIDE DEF jx
  <2>. QED BY <1>4, <1>5, <1>6, <1>7 DEF Picks
<1>. QED BY <1>8 DEF u

\* After k elements a walk has picked those of K up to k.
LEMMA KeepsPicks ==
  ASSUME NEW L, NEW s \in Seq(L), NEW P, NEW K, Keeps(P, K, s, L)
  PROVE  \A k \in 0..Len(s) : \E ix : Picks(ix, P[k], s, K \cap (1..k))
<1>. DEFINE Ok(k) == k <= Len(s) => \E ix : Picks(ix, P[k], s, K \cap (1..k))
            N == {k \in Nat : Ok(k)}
<1>1. Ok(0)
  <2>1. Len(P[0]) = 0 /\ K \cap (1..0) = {} /\ 1..0 = {}
    BY DEF Keeps
  <2>2. Picks([a \in {} |-> 0], P[0], s, K \cap (1..0))
    BY <2>1 DEF Picks
  <2>. QED BY <2>2
<1>2. ASSUME NEW k \in Nat, Ok(k) PROVE Ok(k + 1)
  <2>. SUFFICES ASSUME k + 1 <= Len(s) PROVE \E ix : Picks(ix, P[k+1], s, K \cap (1..k+1))
    OBVIOUS
  <2>2. k \in 0..Len(s)-1 /\ k <= Len(s) /\ P[k] \in Seq(L)
    BY DEF Keeps
  <2>3. PICK ix : Picks(ix, P[k], s, K \cap (1..k))
    BY <1>2, <2>2
  <2>4. P[k+1] = IF k+1 \in K THEN Append(P[k], s[k+1]) ELSE P[k]
    BY <2>2 DEF Keeps
  <2>5. CASE k + 1 \in K
    <3>1. K \cap (1..k+1) = (K \cap (1..k)) \cup {k+1}
      BY <2>5
    <3>2. \E jx : Picks(jx, Append(P[k], s[k+1]), s, (K \cap (1..k)) \cup {k+1})
      BY <2>2, <2>3, PicksNext
    <3>. QED BY <3>1, <3>2, <2>4, <2>5
  <2>6. CASE k + 1 \notin K
    <3>1. K \cap (1..k+1) = K \cap (1..k)
      BY <2>6
    <3>. QED BY <3>1, <2>3, <2>4, <2>6
  <2>. QED BY <2>5, <2>6
<1>. HIDE DEF Ok
<1>3. 0 \in N /\ \A n \in Nat : n \in N => n + 1 \in N
  BY <1>1, <1>2
<1>4. \A k \in Nat : Ok(k)
  <2>1. \A k \in Nat : k \in N
    <3>. HIDE DEF N
    <3>. QED BY <1>3, Induct
  <2>. QED BY <2>1
<1>5. ASSUME NEW k \in 0..Len(s) PROVE \E ix : Picks(ix, P[k], s, K \cap (1..k))
  <2>1. k \in Nat /\ k <= Len(s)
    OBVIOUS
  <2>. QED BY <2>1, <1>4 DEF Ok
<1>. QED BY <1>5

\* What is left at the end.
LEMMA KeepsAll ==
  ASSUME NEW L, NEW s \in Seq(L), NEW P, NEW K, Keeps(P, K, s, L)
  PROVE  P[Len(s)] \in Seq(L) /\ \E ix : Picks(ix, P[Len(s)], s, K)
<1>0. Len(s) \in Nat /\ Len(s) \in 0..Len(s)
  OBVIOUS
<1>1. P[Len(s)] \in Seq(L)
  BY <1>0 DEF Keeps
<1>2. K \cap (1..Len(s)) = K
  <2>1. K \subseteq 1..Len(s)
    BY DEF Keeps
  <2>. QED BY <2>1
<1>3. \E ix : Picks(ix, P[Len(s)], s, K \cap (1..Len(s)))
  BY <1>0, KeepsPicks
<1>. QED BY <1>1, <1>2, <1>3

\* What is left of what was left.
LEMMA PicksOfPicks ==
  ASSUME NEW s, NEW t, NEW u, NEW ix, NEW jx, NEW K, NEW J, K \subseteq Int,
         J \subseteq 1..Len(t), Len(t) \in Nat, Len(u) \in Nat,
         Picks(ix, t, s, K), Picks(jx, u, t, J), NEW I, I = {ix[a] : a \in J}
  PROVE  \E kx : Picks(kx, u, s, I)
<1>. DEFINE kx == [a \in 1..Len(u) |-> ix[jx[a]]]
<1>1. \A a \in 1..Len(u) : jx[a] \in J /\ jx[a] \in 1..Len(t) /\ u[a] = t[jx[a]]
                           /\ t[jx[a]] = s[ix[jx[a]]]
  BY DEF Picks
<1>2. \A a, b \in 1..Len(u) : a < b => kx[a] < kx[b]
  BY <1>1 DEF Picks
<1>3. \A a \in J : \E b \in 1..Len(u) : jx[b] = a
  BY DEF Picks
<1>4. \A i \in {ix[a] : a \in J} : \E b \in 1..Len(u) : kx[b] = i
  <2>1. ASSUME NEW a \in J PROVE \E b \in 1..Len(u) : kx[b] = ix[a]
    <3>1. PICK b \in 1..Len(u) : jx[b] = a
      BY <1>3
    <3>2. kx[b] = ix[a]
      BY <3>1
    <3>. QED BY <3>2
  <2>. QED BY <2>1
<1>5. kx \in [1..Len(u) -> {ix[a] : a \in J}]
  BY <1>1
<1>6. \A a \in 1..Len(u) : u[a] = s[kx[a]]
  BY <1>1
<1>. HIDE DEF kx
<1>7. Picks(kx, u, s, {ix[a] : a \in J})
  BY <1>2, <1>4, <1>5, <1>6 DEF Picks
<1>. QED BY <1>7
-----------------------------------------------------------------------------
(* The rules that drop lines *)

SpokenLine == [who : People, track : Tracks \cup {Absent}, text : Seq(Words), from : Nat, to : Nat]

\* A text without noise is a text.
LEMMA NoiseGone ==
  ASSUME NEW text \in Seq(Words)
  PROVE  WithoutNoise(text) \in Seq(Words)
BY NoiseKeeps, KeepsAll

\* StripPatterns leaves lines.
LEMMA StrippedLines ==
  ASSUME NEW all \in Seq(SpokenLine)
  PROVE  /\ StripPatterns(all) \in Seq(SpokenLine)
         /\ Len(StripPatterns(all)) = Len(all)
         /\ \A i \in 1..Len(all) :
               /\ StripPatterns(all)[i] = [all[i] EXCEPT !.text = WithoutNoise(@)]
               /\ StripPatterns(all)[i].from = all[i].from
<1>1. Len(all) \in Nat /\ DOMAIN all = 1..Len(all) /\ \A i \in 1..Len(all) : all[i] \in SpokenLine
  OBVIOUS
<1>2. ASSUME NEW i \in 1..Len(all)
      PROVE  /\ [all[i] EXCEPT !.text = WithoutNoise(@)] \in SpokenLine
             /\ [all[i] EXCEPT !.text = WithoutNoise(@)].from = all[i].from
  BY <1>1, NoiseGone DEF SpokenLine
<1>3. StripPatterns(all) \in [1..Len(all) -> SpokenLine]
  BY <1>1, <1>2 DEF StripPatterns
<1>4. \A i \in 1..Len(all) : StripPatterns(all)[i] = [all[i] EXCEPT !.text = WithoutNoise(@)]
  BY <1>1 DEF StripPatterns
<1>5. StripPatterns(all) \in Seq(SpokenLine) /\ Len(StripPatterns(all)) = Len(all)
  BY <1>1, <1>3
<1>. QED BY <1>2, <1>4, <1>5

Sound(set, s) ==
    {i \in 1..Len(s) : /\ s[i].text # <<>> /\ Len(s[i].text) >= set.min
                       /\ set.hallucinations => ~IsHallucination(set.match, s[i].text)}

\* DropEmpty, DropHallucinations and DropShortLines leave the sound lines, in their order.
LEMMA SoundPicks ==
  ASSUME NEW set, NEW s \in Seq(SpokenLine)
  PROVE  LET told == DropShortLines(set, DropHallucinations(set, DropEmpty(s)))
         IN  told \in Seq(SpokenLine) /\ \E ix : Picks(ix, told, s, Sound(set, s))
<1>. DEFINE t == DropEmpty(s)
            u == DropHallucinations(set, t)
            v == DropShortLines(set, u)
<1>1. /\ t \in Seq(SpokenLine)
      /\ \E K, ix : /\ Picks(ix, t, s, K) /\ K \subseteq 1..Len(s)
                    /\ \A k \in 1..Len(s) : k \in K <=> s[k].text # <<>>
  <2>1. PICK P, K : /\ Keeps(P, K, s, SpokenLine) /\ P[Len(s)] = t
                    /\ \A k \in 1..Len(s) : k \in K <=> s[k].text # <<>>
    BY EmptyKeeps
  <2>2. t \in Seq(SpokenLine) /\ \E ix : Picks(ix, t, s, K)
    BY <2>1, KeepsAll
  <2>3. K \subseteq 1..Len(s)
    BY <2>1 DEF Keeps
  <2>. HIDE DEF t
  <2>. QED BY <2>1, <2>2, <2>3
<1>. HIDE DEF t
<1>2. /\ u \in Seq(SpokenLine)
      /\ \E K, ix : /\ Picks(ix, u, t, K) /\ K \subseteq 1..Len(t)
                    /\ \A k \in 1..Len(t) : k \in K <=>
                          (set.hallucinations => ~IsHallucination(set.match, t[k].text))
  <2>1. PICK P, K : /\ Keeps(P, K, t, SpokenLine) /\ P[Len(t)] = u
                    /\ \A k \in 1..Len(t) : k \in K <=> (set.hallucinations => ~IsHallucination(set.match, t[k].text))
    BY <1>1, HallucinationsKeeps
  <2>2. u \in Seq(SpokenLine) /\ \E ix : Picks(ix, u, t, K)
    BY <1>1, <2>1, KeepsAll
  <2>3. K \subseteq 1..Len(t)
    BY <2>1 DEF Keeps
  <2>. HIDE DEF u
  <2>. QED BY <2>1, <2>2, <2>3
<1>. HIDE DEF u
<1>3. /\ v \in Seq(SpokenLine)
      /\ \E K, ix : /\ Picks(ix, v, u, K) /\ K \subseteq 1..Len(u)
                    /\ \A k \in 1..Len(u) : k \in K <=> Len(u[k].text) >= set.min
  <2>1. PICK P, K : /\ Keeps(P, K, u, SpokenLine) /\ P[Len(u)] = v
                    /\ \A k \in 1..Len(u) : k \in K <=> Len(u[k].text) >= set.min
    BY <1>2, ShortKeeps
  <2>2. v \in Seq(SpokenLine) /\ \E ix : Picks(ix, v, u, K)
    BY <1>2, <2>1, KeepsAll
  <2>3. K \subseteq 1..Len(u)
    BY <2>1 DEF Keeps
  <2>. HIDE DEF v
  <2>. QED BY <2>1, <2>2, <2>3
<1>. HIDE DEF v
<1>. DEFINE Full == {i \in 1..Len(s) : s[i].text # <<>>}
            True == {i \in Full : set.hallucinations => ~IsHallucination(set.match, s[i].text)}
<1>4. PICK ix : Picks(ix, t, s, Full)
  <2>1. PICK K, ix : Picks(ix, t, s, K) /\ K \subseteq 1..Len(s)
                     /\ \A k \in 1..Len(s) : k \in K <=> s[k].text # <<>>
    BY <1>1
  <2>2. K = Full
    BY <2>1
  <2>. QED BY <2>1, <2>2
<1>5. PICK jx : Picks(jx, u, s, True)
  <2>1. PICK K, kx : /\ Picks(kx, u, t, K) /\ K \subseteq 1..Len(t)
                     /\ \A k \in 1..Len(t) : k \in K <=>
                           (set.hallucinations => ~IsHallucination(set.match, t[k].text))
    BY <1>2
  <2>2. {ix[a] : a \in K} = True
    <3>1. \A a \in 1..Len(t) : ix[a] \in Full /\ t[a] = s[ix[a]]
      BY <1>4 DEF Picks
    <3>2. \A i \in Full : \E a \in 1..Len(t) : ix[a] = i
      BY <1>4 DEF Picks
    <3>. HIDE DEF Full
    <3>. QED BY <2>1, <3>1, <3>2
  <2>3. Full \subseteq Int /\ Len(t) \in Nat /\ Len(u) \in Nat
    BY <1>1, <1>2
  <2>. HIDE DEF Full, True
  <2>. QED BY <1>4, <2>1, <2>2, <2>3, PicksOfPicks
<1>6. PICK kx : Picks(kx, v, s, Sound(set, s))
  <2>1. PICK K, lx : /\ Picks(lx, v, u, K) /\ K \subseteq 1..Len(u)
                     /\ \A k \in 1..Len(u) : k \in K <=> Len(u[k].text) >= set.min
    BY <1>3
  <2>2. {jx[a] : a \in K} = {i \in True : Len(s[i].text) >= set.min}
    <3>1. \A a \in 1..Len(u) : jx[a] \in True /\ u[a] = s[jx[a]]
      BY <1>5 DEF Picks
    <3>2. \A i \in True : \E a \in 1..Len(u) : jx[a] = i
      BY <1>5 DEF Picks
    <3>. HIDE DEF True
    <3>. QED BY <2>1, <3>1, <3>2
  <2>3. {i \in True : Len(s[i].text) >= set.min} = Sound(set, s)
    BY DEF Sound
  <2>4. True \subseteq Int /\ Len(u) \in Nat /\ Len(v) \in Nat
    BY <1>2, <1>3
  <2>5. Sound(set, s) = {jx[a] : a \in K}
    BY <2>2, <2>3
  <2>. HIDE DEF True, Full
  <2>6. ASSUME NEW I, I = {jx[a] : a \in K} PROVE \E kx : Picks(kx, v, s, I)
    <3>1. Picks(lx, v, u, K) /\ K \subseteq 1..Len(u)
      BY <2>1
    <3>2. Picks(jx, u, s, True)
      BY <1>5
    <3>. QED BY <2>4, <2>6, <3>1, <3>2, PicksOfPicks
  <2>. QED BY <2>5, <2>6
<1>. QED BY <1>3, <1>6 DEF t, u, v
-----------------------------------------------------------------------------
(* The rules that drop what was said before *)

First(set, s) ==
    {i \in 1..Len(s) : set.duplicates => \A j \in 1..Len(s) : j < i => ~SameSegment(s[j], s[i])}

\* To be the same segment passes on from line to line.
LEMMA SameIsSame ==
  ASSUME NEW a, NEW b, NEW c, SameSegment(a, c)
  PROVE  SameSegment(b, a) => SameSegment(b, c)
BY DEF SameSegment, SameWords

\* The least that is the same as k is kept.
LEMMA DuplicatesPicks ==
  ASSUME NEW set, NEW s \in Seq(SpokenLine)
  PROVE  /\ DropDuplicateSegments(set, s) \in Seq(SpokenLine)
         /\ \E ix : Picks(ix, DropDuplicateSegments(set, s), s, First(set, s))
<1>. DEFINE v == DropDuplicateSegments(set, s)
            n == Len(s)
            Same(j, k) == SameSegment(s[j], s[k])
<1>1. PICK P, K : /\ Keeps(P, K, s, SpokenLine) /\ P[n] = v
                  /\ \A k \in 1..n :
                        k \in K <=> (set.duplicates =>
                                       \A i \in DOMAIN P[k-1] : ~SameSegment(P[k-1][i], s[k]))
  BY DuplicatesKeeps
<1>2. n \in Nat /\ K \subseteq 1..n
  BY <1>1 DEF Keeps
<1>3. ASSUME NEW k \in 1..n
      PROVE  k \in K <=> (set.duplicates => \A j \in K : j < k => ~Same(j, k))
  <2>1. k - 1 \in 0..n /\ P[k-1] \in Seq(SpokenLine)
    <3>1. k - 1 \in 0..n
      BY <1>2
    <3>. QED BY <1>1, <3>1 DEF Keeps
  <2>2. PICK ix : Picks(ix, P[k-1], s, K \cap (1..k-1))
    BY <1>1, <2>1, KeepsPicks
  <2>3. DOMAIN P[k-1] = 1..Len(P[k-1])
    BY <2>1
  <2>4. \A a \in DOMAIN P[k-1] : ix[a] \in K /\ ix[a] < k /\ P[k-1][a] = s[ix[a]]
    <3>1. \A a \in DOMAIN P[k-1] : ix[a] \in K \cap (1..k-1) /\ P[k-1][a] = s[ix[a]]
      BY <2>2, <2>3 DEF Picks
    <3>. QED BY <3>1
  <2>5. \A j \in K : j < k => \E a \in DOMAIN P[k-1] : ix[a] = j
    <3>1. \A j \in K : j < k => j \in K \cap (1..k-1)
      BY <1>2
    <3>. QED BY <3>1, <2>2, <2>3 DEF Picks
  <2>6. (\A i \in DOMAIN P[k-1] : ~SameSegment(P[k-1][i], s[k]))
           <=> \A j \in K : j < k => ~Same(j, k)
    BY <2>4, <2>5
  <2>. QED BY <1>1, <2>6
<1>4. ASSUME NEW k \in K, set.duplicates, NEW j \in 1..n, j < k
      PROVE  ~Same(j, k)
  <2>. SUFFICES ASSUME Same(j, k) PROVE FALSE
    OBVIOUS
  <2>. DEFINE T == {i \in 1..n : i < k /\ Same(i, k)}
  <2>1. T \subseteq Nat /\ T # {}
    BY <1>2, <1>4
  <2>2. PICK x \in T : \A y \in T : x <= y
    <3>. HIDE DEF T
    <3>. QED BY <2>1, LeastExists
  <2>3. x \in 1..n /\ x < k /\ Same(x, k) /\ k \in 1..n /\ n \in Nat
    BY <1>2, <1>4
  <2>4. ASSUME NEW i \in K, i < x PROVE ~Same(i, x)
    <3>1. Same(i, x) => Same(i, k)
      BY <2>3, SameIsSame
    <3>2. i \in 1..n /\ i < k
      BY <1>2, <2>3, <2>4
    <3>3. i \notin T
      BY <2>2, <2>3, <2>4, <3>2
    <3>. QED BY <3>1, <3>2, <3>3
  <2>5. x \in K
    BY <1>3, <2>3, <2>4
  <2>. HIDE DEF T, Same
  <2>. QED BY <1>3, <1>4, <2>3, <2>5
<1>5. K = First(set, s)
  <2>1. ASSUME NEW k \in 1..n
        PROVE  k \in K <=> (set.duplicates => \A j \in 1..n : j < k => ~Same(j, k))
    <3>. HIDE DEF Same
    <3>. QED BY <1>2, <1>3, <1>4
  <2>. QED BY <1>2, <2>1 DEF First
<1>. HIDE DEF v
<1>. QED BY <1>1, <1>5, KeepsAll DEF v

\* The lines of a window that were kept: of those that say the same, the last is the nearest.
Again(set, s, j, k) == j < k /\ SameWords(s[j], s[k]) /\ s[k].from - s[j].from <= set.window

LEMMA RepeatsPicks ==
  ASSUME NEW set, NEW s \in Seq(SpokenLine), set.window \in Nat,
         \A i, j \in 1..Len(s) : i < j => s[i].from <= s[j].from
  PROVE  /\ DropRepeats(set, s) \in Seq(SpokenLine)
         /\ \E ix, J : /\ Picks(ix, DropRepeats(set, s), s, J) /\ J \subseteq 1..Len(s)
                       /\ \A k \in 1..Len(s) :
                             k \in J <=> (set.window > 0 => \A j \in J : ~Again(set, s, j, k))
<1>. DEFINE v == DropRepeats(set, s)
            n == Len(s)
<1>1. PICK P, K : /\ Keeps(P, K, s, SpokenLine) /\ P[n] = v
                  /\ \A k \in 1..n :
                        k \in K <=> (set.window > 0 /\ Said(P[k-1], s[k]) # {} =>
                                       ~Within(set.window, P[k-1][Max(Said(P[k-1], s[k]))], s[k]))
  BY RepeatsKeeps
<1>2. n \in Nat /\ K \subseteq 1..n /\ \A i \in 1..n : s[i].from \in Nat
  <2>1. \A i \in 1..n : s[i] \in SpokenLine
    OBVIOUS
  <2>. QED BY <1>1, <2>1 DEF Keeps, SpokenLine
<1>3. ASSUME NEW k \in 1..n
      PROVE  k \in K <=> (set.window > 0 => \A j \in K : ~Again(set, s, j, k))
  <2>. DEFINE said == Said(P[k-1], s[k])
  <2>1. k - 1 \in 0..n /\ P[k-1] \in Seq(SpokenLine)
    <3>1. k - 1 \in 0..n
      BY <1>2
    <3>. QED BY <1>1, <3>1 DEF Keeps
  <2>2. PICK ix : Picks(ix, P[k-1], s, K \cap (1..k-1))
    BY <1>1, <2>1, KeepsPicks
  <2>3. DOMAIN P[k-1] = 1..Len(P[k-1]) /\ Len(P[k-1]) \in Nat
    BY <2>1
  <2>4. \A a \in DOMAIN P[k-1] : ix[a] \in K /\ ix[a] \in 1..n /\ ix[a] < k /\ P[k-1][a] = s[ix[a]]
    <3>1. \A a \in DOMAIN P[k-1] : ix[a] \in K \cap (1..k-1) /\ P[k-1][a] = s[ix[a]]
      BY <2>2, <2>3 DEF Picks
    <3>. QED BY <1>2, <3>1
  <2>5. \A j \in K : j < k => \E a \in DOMAIN P[k-1] : ix[a] = j
    <3>1. \A j \in K : j < k => j \in K \cap (1..k-1)
      BY <1>2
    <3>. QED BY <3>1, <2>2, <2>3 DEF Picks
  <2>6. said = {a \in DOMAIN P[k-1] : SameWords(s[ix[a]], s[k])}
    BY <2>4 DEF Said
  <2>7. said # {} => Max(said) \in said /\ \A a \in said : a <= Max(said)
    <3>1. said \in SUBSET (1..Len(P[k-1]))
      BY <2>3, <2>6
    <3>. HIDE DEF said
    <3>. QED BY <2>3, <3>1, MaxIn
  <2>. HIDE DEF said
  <2>8. ASSUME said # {} PROVE P[k-1][Max(said)] = s[ix[Max(said)]] /\ Max(said) \in DOMAIN P[k-1]
    BY <2>4, <2>6, <2>7, <2>8
  <2>9. ASSUME NEW j \in K, Again(set, s, j, k)
        PROVE  said # {} /\ Within(set.window, P[k-1][Max(said)], s[k])
    <3>1. j < k /\ SameWords(s[j], s[k]) /\ s[k].from - s[j].from <= set.window /\ j \in 1..n
      BY <1>2, <2>9 DEF Again
    <3>2. PICK a \in DOMAIN P[k-1] : ix[a] = j
      BY <2>5, <3>1
    <3>3. a \in said /\ said # {} /\ a <= Max(said) /\ Max(said) \in DOMAIN P[k-1]
      BY <2>6, <2>7, <2>8, <3>1, <3>2
    <3>4. ix[a] <= ix[Max(said)]
      <4>1. a # Max(said) => a < Max(said)
        BY <3>2, <3>3, <2>3
      <4>2. a < Max(said) => ix[a] < ix[Max(said)]
        BY <2>2, <2>3, <3>2, <3>3 DEF Picks
      <4>. QED BY <4>1, <4>2, <2>4, <3>2, <3>3
    <3>5. ix[Max(said)] \in 1..n
      BY <2>4, <3>3
    <3>6. s[j].from <= s[ix[Max(said)]].from
      BY <1>2, <3>1, <3>2, <3>4, <3>5
    <3>7. s[k].from - s[ix[Max(said)]].from <= set.window
      BY <1>2, <3>1, <3>5, <3>6
    <3>. QED BY <2>8, <3>3, <3>7 DEF Within
  <2>10. ASSUME said # {}, Within(set.window, P[k-1][Max(said)], s[k])
         PROVE  ix[Max(said)] \in K /\ Again(set, s, ix[Max(said)], k)
    <3>1. Max(said) \in said /\ Max(said) \in DOMAIN P[k-1]
      BY <2>7, <2>8, <2>10
    <3>2. SameWords(s[ix[Max(said)]], s[k])
      BY <2>6, <3>1
    <3>. QED BY <2>4, <2>8, <2>10, <3>1, <3>2 DEF Within, Again
  <2>11. k \in K <=> (set.window > 0 /\ said # {} => ~Within(set.window, P[k-1][Max(said)], s[k]))
    BY <1>1 DEF said
  <2>. QED BY <2>9, <2>10, <2>11
<1>. HIDE DEF v
<1>4. v \in Seq(SpokenLine) /\ \E ix : Picks(ix, v, s, K)
  BY <1>1, KeepsAll
<1>. QED BY <1>2, <1>3, <1>4 DEF v

\* The lines that are no segment of an earlier one.
Original(set, s) ==
    {i \in Sound(set, s) :
       set.duplicates => \A j \in Sound(set, s) : j < i => ~SameSegment(s[j], s[i])}

InOrder(ix, t, s, K) ==
    \A a, b \in 1..Len(t) : /\ ix[a] \in K /\ t[a] = s[ix[a]]
                            /\ a < b <=> ix[a] < ix[b]
                            /\ a <= b <=> ix[a] <= ix[b]

\* What is left is in the order it was in.
LEMMA PicksOrder ==
  ASSUME NEW s, NEW t, NEW ix, NEW K, K \subseteq Int, Len(t) \in Nat, Picks(ix, t, s, K)
  PROVE  InOrder(ix, t, s, K)
<1>. SUFFICES ASSUME NEW a \in 1..Len(t), NEW b \in 1..Len(t)
              PROVE  /\ ix[a] \in K /\ t[a] = s[ix[a]]
                     /\ a < b <=> ix[a] < ix[b]
                     /\ a <= b <=> ix[a] <= ix[b]
  BY DEF InOrder
<1>1. ix[a] \in K /\ ix[a] \in Int /\ ix[b] \in Int /\ t[a] = s[ix[a]]
  BY DEF Picks
<1>2. (a < b => ix[a] < ix[b]) /\ (b < a => ix[b] < ix[a])
  BY DEF Picks
<1>3. a < b \/ b < a \/ a = b
  OBVIOUS
<1>. QED BY <1>1, <1>2, <1>3

\* DropDuplicateSegments and DropRepeats leave what is no segment of an earlier line and no repeat within the window.
LEMMA DistinctPicks ==
  ASSUME NEW set, NEW s \in Seq(SpokenLine), set.window \in Nat,
         \A i, j \in 1..Len(s) : i < j => s[i].from <= s[j].from
  PROVE  LET told == DropShortLines(set, DropHallucinations(set, DropEmpty(s)))
             distinct == DropRepeats(set, DropDuplicateSegments(set, told))
         IN  /\ distinct \in Seq(SpokenLine)
             /\ \E ix, J : /\ Picks(ix, distinct, s, J) /\ J \subseteq Original(set, s)
                           /\ \A i \in Original(set, s) :
                                i \in J <=> (set.window > 0 => \A j \in J : ~Again(set, s, j, i))
<1>. DEFINE told == DropShortLines(set, DropHallucinations(set, DropEmpty(s)))
            single == DropDuplicateSegments(set, told)
            distinct == DropRepeats(set, single)
            sound == Sound(set, s)
            original == Original(set, s)
<1>1. told \in Seq(SpokenLine) /\ \E ix : Picks(ix, told, s, sound)
  BY SoundPicks
<1>. HIDE DEF told
<1>2. single \in Seq(SpokenLine) /\ \E ix : Picks(ix, single, told, First(set, told))
  BY <1>1, DuplicatesPicks
<1>. HIDE DEF single
<1>3. sound \subseteq 1..Len(s) /\ original \subseteq sound /\ Len(s) \in Nat /\ sound \subseteq Int
  BY DEF Sound, Original
<1>4. Len(told) \in Nat /\ Len(single) \in Nat
  BY <1>1, <1>2
<1>5. PICK ix : Picks(ix, told, s, sound)
  BY <1>1
<1>. HIDE DEF sound
<1>6. First(set, told) \subseteq 1..Len(told)
  BY DEF First
<1>7. original = {ix[a] : a \in First(set, told)}
  <2>1. \A a, b \in 1..Len(told) : ix[a] \in sound /\ told[a] = s[ix[a]] /\ (a < b <=> ix[a] < ix[b])
    <3>. HIDE DEF original
    <3>1. InOrder(ix, told, s, sound)
      BY <1>3, <1>4, <1>5, PicksOrder
    <3>. QED BY <3>1 DEF InOrder
  <2>2. \A i \in sound : \E a \in 1..Len(told) : ix[a] = i
    BY <1>5 DEF Picks
  <2>3. ASSUME NEW a \in 1..Len(told)
        PROVE  a \in First(set, told) <=> ix[a] \in original
    <3>1. (\A j \in 1..Len(told) : j < a => ~SameSegment(told[j], told[a]))
             <=> \A j \in sound : j < ix[a] => ~SameSegment(s[j], s[ix[a]])
      <4>1. ASSUME NEW j \in 1..Len(told)
            PROVE  /\ ix[j] \in sound /\ (j < a <=> ix[j] < ix[a])
                   /\ SameSegment(told[j], told[a]) <=> SameSegment(s[ix[j]], s[ix[a]])
        BY <2>1
      <4>2. ASSUME \A j \in 1..Len(told) : j < a => ~SameSegment(told[j], told[a]),
                   NEW i \in sound, i < ix[a]
            PROVE  ~SameSegment(s[i], s[ix[a]])
        <5>1. PICK j \in 1..Len(told) : ix[j] = i
          BY <2>2
        <5>. QED BY <4>1, <4>2, <5>1
      <4>3. ASSUME \A j \in sound : j < ix[a] => ~SameSegment(s[j], s[ix[a]]),
                   NEW j \in 1..Len(told), j < a
            PROVE  ~SameSegment(told[j], told[a])
        BY <4>1, <4>3
      <4>. QED BY <4>2, <4>3
    <3>. QED BY <2>1, <3>1 DEF First, Original, sound
  <2>. HIDE DEF original
  <2>. QED BY <1>3, <1>6, <2>2, <2>3
<1>8. PICK jx : Picks(jx, single, s, original)
  <2>1. PICK kx : Picks(kx, single, told, First(set, told))
    BY <1>2
  <2>2. ASSUME NEW I, I = {ix[a] : a \in First(set, told)} PROVE \E lx : Picks(lx, single, s, I)
    BY <1>3, <1>4, <1>5, <1>6, <2>1, <2>2, PicksOfPicks
  <2>. HIDE DEF original
  <2>. QED BY <1>7, <2>2
<1>. HIDE DEF original
<1>9. \A a, b \in 1..Len(single) :
         jx[a] \in original /\ single[a] = s[jx[a]] /\ (a < b <=> jx[a] < jx[b])
  <2>1. original \subseteq Int
    BY <1>3
  <2>2. InOrder(jx, single, s, original)
    BY <1>4, <1>8, <2>1, PicksOrder
  <2>. QED BY <2>2 DEF InOrder
<1>10. \A a, b \in 1..Len(single) : a < b => single[a].from <= single[b].from
  <2>1. original \subseteq 1..Len(s)
    BY <1>3
  <2>. QED BY <1>9, <2>1
<1>11. PICK kx, J :
         /\ Picks(kx, distinct, single, J) /\ J \subseteq 1..Len(single)
         /\ \A k \in 1..Len(single) :
               k \in J <=> (set.window > 0 => \A j \in J : ~Again(set, single, j, k))
  BY <1>2, <1>10, RepeatsPicks
<1>12. distinct \in Seq(SpokenLine)
  BY <1>2, <1>10, RepeatsPicks
<1>. HIDE DEF distinct
<1>. DEFINE I == {jx[a] : a \in J}
<1>13. \E lx : Picks(lx, distinct, s, I)
  <2>1. Len(distinct) \in Nat /\ original \subseteq Int /\ J \subseteq 1..Len(single)
    BY <1>3, <1>11, <1>12
  <2>2. Picks(kx, distinct, single, J)
    BY <1>11
  <2>3. ASSUME NEW II, II = {jx[a] : a \in J} PROVE \E lx : Picks(lx, distinct, s, II)
    BY <1>4, <1>8, <2>1, <2>2, <2>3, PicksOfPicks
  <2>. QED BY <2>3
<1>14. I \subseteq original
  BY <1>9, <1>11
<1>15. ASSUME NEW i \in original
       PROVE  i \in I <=> (set.window > 0 => \A j \in I : ~Again(set, s, j, i))
  <2>1. PICK k \in 1..Len(single) : jx[k] = i
    BY <1>8 DEF Picks
  <2>2. i \in I <=> k \in J
    <3>1. ASSUME NEW a \in J, jx[a] = i PROVE a = k
      <4>1. a \in 1..Len(single)
        BY <1>11
      <4>2. jx[a] = jx[k] /\ jx[k] \in Int
        BY <1>3, <2>1, <3>1
      <4>3. ~(a < k) /\ ~(k < a)
        BY <1>9, <4>1, <4>2
      <4>. QED BY <4>1, <4>3
    <3>. QED BY <2>1, <3>1
  <2>3. \A a \in J : Again(set, single, a, k) <=> Again(set, s, jx[a], i)
    BY <1>9, <1>11, <2>1 DEF Again
  <2>4. (\A j \in J : ~Again(set, single, j, k)) <=> \A j \in I : ~Again(set, s, j, i)
    BY <2>3
  <2>. HIDE DEF I
  <2>. QED BY <1>11, <2>2, <2>4
<1>. HIDE DEF I
<1>. QED BY <1>12, <1>13, <1>14, <1>15 DEF distinct, single, told, original
-----------------------------------------------------------------------------
(* FlattenSeq *)

\* A walk that adds one element at a time exists.
LEMMA WalkExists ==
  ASSUME NEW n \in Nat, NEW Val, NEW base \in Val, NEW F \in [1..n -> [Val -> Val]]
  PROVE  \E P : Walks(P, n, Val, base, F)
<1>1. PICK g : IsFold(g, n, Val, base, F)
  BY FoldExists
<1>2. Follows(g, n, Val, base, F)
  BY <1>1 DEF IsFold, Follows
<1>. QED BY <1>2, FoldWalk

Joins(P, ss, L) ==
    /\ P \in [0..Len(ss) -> Seq(L)]
    /\ P[0] = <<>>
    /\ \A k \in 0..Len(ss)-1 : P[k+1] = P[k] \o ss[k+1]

\* There is a walk that joins sequences.
LEMMA JoinsExist ==
  ASSUME NEW L, NEW ss \in Seq(Seq(L))
  PROVE  \E P : Joins(P, ss, L)
<1>. DEFINE n == Len(ss)
            V == Seq(L)
            F == [k \in 1..n |-> [v \in V |-> v \o ss[k]]]
<1>1. n \in Nat /\ <<>> \in V /\ F \in [1..n -> [V -> V]]
  <2>1. ASSUME NEW k \in 1..n, NEW v \in V PROVE v \o ss[k] \in V
    <3>1. ss[k] \in Seq(L)
      OBVIOUS
    <3>. QED BY <3>1, ConcatProperties
  <2>. HIDE DEF V
  <2>2. \A k \in 1..n : [v \in V |-> v \o ss[k]] \in [V -> V]
    BY <2>1
  <2>. QED BY <2>2 DEF V
<1>2. PICK P : Walks(P, n, V, <<>>, F)
  <2>. HIDE DEF n, V, F
  <2>. QED BY <1>1, WalkExists
<1>3. ASSUME NEW k \in 0..n-1 PROVE P[k+1] = P[k] \o ss[k+1]
  <2>1. P[k+1] = F[k+1][P[k]] /\ P[k] \in V /\ k + 1 \in 1..n
    <3>1. k \in 0..n /\ k + 1 \in 1..n
      BY <1>1
    <3>. HIDE DEF V, F
    <3>. QED BY <1>2, <3>1 DEF Walks
  <2>. HIDE DEF V
  <2>. QED BY <2>1
<1>4. P \in [0..n -> V] /\ P[0] = <<>>
  BY <1>2 DEF Walks
<1>. QED BY <1>3, <1>4 DEF Joins

\* Two walks that join the same have come to the same.
LEMMA JoinsAgree ==
  ASSUME NEW L, NEW ss, NEW tt, NEW P, NEW Q, Joins(P, ss, L), Joins(Q, tt, L),
         NEW n \in Nat, n <= Len(ss), n <= Len(tt), Len(ss) \in Nat, Len(tt) \in Nat,
         \A k \in 1..n : ss[k] = tt[k]
  PROVE  P[n] = Q[n]
<1>. DEFINE N == {k \in Nat : k <= n => P[k] = Q[k]}
<1>1. 0 \in N
  BY DEF Joins
<1>2. ASSUME NEW k \in Nat, k \in N PROVE k + 1 \in N
  <2>. SUFFICES ASSUME k + 1 <= n PROVE P[k+1] = Q[k+1]
    OBVIOUS
  <2>1. k \in 0..Len(ss)-1 /\ k \in 0..Len(tt)-1 /\ k + 1 \in 1..n /\ k <= n
    OBVIOUS
  <2>. QED BY <1>2, <2>1 DEF Joins
<1>3. \A k \in Nat : k \in N
  <2>. HIDE DEF N
  <2>. QED BY <1>1, <1>2, Induct
<1>. QED BY <1>3

\* FlattenSeq is where that walk ends.
LEMMA FlattenJoins ==
  ASSUME NEW L, NEW ss \in Seq(Seq(L)), NEW P, Joins(P, ss, L)
  PROVE  FlattenSeq(ss) = P[Len(ss)]
<1>. DEFINE n == Len(ss)
            Is(f) == f = [i \in 1..n |-> IF i = 1 THEN ss[i] ELSE f[i-1] \o ss[i]]
            it == CHOOSE f : Is(f)
            f0 == [i \in 1..n |-> P[i]]
<1>0. n \in Nat /\ \A i \in 1..n : ss[i] \in Seq(L)
  OBVIOUS
<1>1. CASE n = 0
  <2>1. ss = <<>>
    BY <1>1
  <2>. QED BY <1>1, <2>1 DEF FlattenSeq, Joins
<1>2. CASE n # 0
  <2>1. FlattenSeq(ss) = it[n]
    BY <1>2 DEF FlattenSeq
  <2>2. Is(f0)
    <3>1. ASSUME NEW i \in 1..n
          PROVE  P[i] = IF i = 1 THEN ss[i] ELSE f0[i-1] \o ss[i]
      <4>1. i - 1 \in 0..n-1 /\ (i - 1) + 1 = i /\ (i # 1 => i - 1 \in 1..n)
        BY <1>0
      <4>2. P[i] = P[i-1] \o ss[i]
        BY <4>1 DEF Joins
      <4>3. CASE i = 1
        <5>1. P[0] = <<>> /\ ss[i] \in Seq(L) /\ i - 1 = 0
          BY <1>0, <4>3 DEF Joins
        <5>2. <<>> \o ss[i] = ss[i]
          BY <5>1, ConcatEmptySeq
        <5>. QED BY <4>2, <4>3, <5>1, <5>2
      <4>4. CASE i # 1
        BY <4>1, <4>2, <4>4
      <4>. QED BY <4>3, <4>4
    <3>. QED BY <3>1
  <2>3. Is(it)
    <3>. HIDE DEF Is, f0
    <3>. QED BY <2>2
  <2>. DEFINE N == {k \in Nat : k + 1 <= n => it[k+1] = P[k+1]}
  <2>4. \A i \in 1..n : it[i] = IF i = 1 THEN ss[i] ELSE it[i-1] \o ss[i]
    <3>. HIDE DEF it
    <3>. QED BY <2>3
  <2>5. \A i \in 1..n : f0[i] = IF i = 1 THEN ss[i] ELSE f0[i-1] \o ss[i]
    BY <2>2
  <2>. HIDE DEF it, Is
  <2>6. 0 \in N
    <3>1. 1 \in 1..n
      BY <1>0, <1>2
    <3>2. it[1] = ss[1] /\ f0[1] = ss[1]
      BY <2>4, <2>5, <3>1
    <3>3. f0[1] = P[1] /\ 0 + 1 = 1
      BY <3>1
    <3>. HIDE DEF f0
    <3>. QED BY <3>2, <3>3
  <2>7. ASSUME NEW k \in Nat, k \in N PROVE k + 1 \in N
    <3>. SUFFICES ASSUME (k + 1) + 1 <= n PROVE it[(k+1)+1] = P[(k+1)+1]
      OBVIOUS
    <3>1. k + 1 \in 1..n /\ (k + 1) + 1 \in 1..n /\ (k+1)+1 # 1 /\ ((k+1)+1)-1 = k+1 /\ k + 1 <= n
      BY <1>0
    <3>2. it[(k+1)+1] = it[k+1] \o ss[(k+1)+1]
      BY <2>4, <3>1
    <3>3. f0[(k+1)+1] = f0[k+1] \o ss[(k+1)+1]
      BY <2>5, <3>1
    <3>4. it[k+1] = P[k+1]
      BY <2>7, <3>1
    <3>. QED BY <3>1, <3>2, <3>3, <3>4
  <2>8. n - 1 \in N
    <3>1. n - 1 \in Nat
      BY <1>0, <1>2
    <3>. HIDE DEF N
    <3>. QED BY <2>6, <2>7, <3>1, Induct
  <2>9. it[n] = P[n]
    BY <1>0, <1>2, <2>8
  <2>. QED BY <2>1, <2>9
<1>. QED BY <1>1, <1>2

\* FlattenSeq, with one sequence more.
LEMMA FlattenAppend ==
  ASSUME NEW L, NEW ss \in Seq(Seq(L)), NEW x \in Seq(L)
  PROVE  /\ FlattenSeq(Append(ss, x)) = FlattenSeq(ss) \o x
         /\ FlattenSeq(ss) \in Seq(L)
<1>. DEFINE tt == Append(ss, x)
            n == Len(ss)
<1>1. /\ tt \in Seq(Seq(L)) /\ n \in Nat /\ Len(tt) = n + 1 /\ tt[n+1] = x
      /\ \A k \in 1..n : ss[k] = tt[k]
  OBVIOUS
<1>. HIDE DEF tt
<1>2. PICK P : Joins(P, ss, L)
  BY JoinsExist
<1>3. PICK Q : Joins(Q, tt, L)
  BY <1>1, JoinsExist
<1>4. FlattenSeq(ss) = P[n] /\ FlattenSeq(tt) = Q[n+1]
  <2>1. FlattenSeq(tt) = Q[Len(tt)]
    BY <1>1, <1>3, FlattenJoins
  <2>. QED BY <1>1, <1>2, <2>1, FlattenJoins
<1>5. P[n] = Q[n]
  <2>1. n <= Len(ss) /\ n <= Len(tt) /\ Len(ss) \in Nat /\ Len(tt) \in Nat
    BY <1>1
  <2>2. \A k \in 1..n : ss[k] = tt[k]
    BY <1>1
  <2>3. n \in Nat
    BY <1>1
  <2>. HIDE DEF n
  <2>. QED BY <1>2, <1>3, <2>1, <2>2, <2>3, JoinsAgree
<1>6. Q[n+1] = Q[n] \o x
  <2>1. n \in 0..Len(tt)-1
    BY <1>1
  <2>. QED BY <1>1, <1>3, <2>1 DEF Joins
<1>7. P[n] \in Seq(L)
  <2>1. n \in 0..n
    BY <1>1
  <2>. QED BY <1>2, <2>1 DEF Joins
<1>. QED BY <1>4, <1>5, <1>6, <1>7 DEF tt

\* Nothing is added where there is nothing.
LEMMA JoinsGap ==
  ASSUME NEW L, NEW ss, NEW P, Joins(P, ss, L), Len(ss) \in Nat,
         NEW a \in 0..Len(ss), NEW b \in 0..Len(ss), a <= b,
         \A k \in 1..Len(ss) : a < k /\ k <= b => ss[k] = <<>>
  PROVE  P[b] = P[a]
<1>. DEFINE N == {k \in Nat : a + k <= b => P[a+k] = P[a]}
<1>1. 0 \in N
  OBVIOUS
<1>2. ASSUME NEW k \in Nat, k \in N PROVE k + 1 \in N
  <2>. SUFFICES ASSUME a + (k + 1) <= b PROVE P[a+(k+1)] = P[a]
    OBVIOUS
  <2>1. a + k \in 0..Len(ss)-1 /\ (a + k) + 1 = a + (k + 1) /\ a + k <= b /\ a + k \in 0..Len(ss)
    OBVIOUS
  <2>2. (a + k) + 1 \in 1..Len(ss) /\ a < (a + k) + 1 /\ (a + k) + 1 <= b
    BY <2>1
  <2>3. P[(a+k)+1] = P[a+k] \o ss[(a+k)+1]
    BY <2>1 DEF Joins
  <2>4. ss[(a+k)+1] = <<>>
    BY <2>2
  <2>5. P[a+k] \in Seq(L)
    BY <2>1 DEF Joins
  <2>6. P[a+k] \o <<>> = P[a+k]
    BY <2>5, ConcatEmptySeq
  <2>. QED BY <1>2, <2>1, <2>3, <2>4, <2>6
<1>3. b - a \in N
  <2>1. b - a \in Nat
    OBVIOUS
  <2>. HIDE DEF N
  <2>. QED BY <1>1, <1>2, <2>1, Induct
<1>. QED BY <1>3
-----------------------------------------------------------------------------
(* The lines that are joined *)

\* A function that adds the greatest element last exists.
LEMMA FollowExists ==
  ASSUME NEW n \in Nat, NEW Val, NEW base \in Val, NEW F \in [1..n -> [Val -> Val]]
  PROVE  \E g \in [SUBSET (1..n) -> Val] : Follows(g, n, Val, base, F)
<1>1. PICK g : IsFold(g, n, Val, base, F)
  BY FoldExists
<1>. QED BY <1>1 DEF IsFold, Follows

MergeLine(set, merged, line) ==
    IF set.merge /\ merged # <<>> /\ SameVoice(Last(merged), line)
    THEN Append(Front(merged), [Last(merged) EXCEPT !.text = @ \o line.text, !.to = line.to])
    ELSE Append(merged, line)

Merges(P, set, s) ==
    /\ P \in [0..Len(s) -> Seq(SpokenLine)]
    /\ P[0] = <<>>
    /\ \A k \in 0..Len(s)-1 : P[k+1] = MergeLine(set, P[k], s[k+1])

\* A line that is merged leaves lines.
LEMMA MergeLineType ==
  ASSUME NEW set, NEW merged \in Seq(SpokenLine), NEW line \in SpokenLine
  PROVE  MergeLine(set, merged, line) \in Seq(SpokenLine)
<1>1. CASE set.merge /\ merged # <<>> /\ SameVoice(Last(merged), line)
  <2>1. Len(merged) \in Nat /\ Len(merged) # 0 /\ Last(merged) \in SpokenLine
    BY <1>1 DEF Last
  <2>2. Front(merged) \in Seq(SpokenLine)
    BY <2>1 DEF Front
  <2>3. Last(merged).text \o line.text \in Seq(Words)
    <3>1. Last(merged).text \in Seq(Words) /\ line.text \in Seq(Words)
      BY <2>1 DEF SpokenLine
    <3>. QED BY <3>1, ConcatProperties
  <2>4. [Last(merged) EXCEPT !.text = @ \o line.text, !.to = line.to] \in SpokenLine
    BY <2>1, <2>3 DEF SpokenLine
  <2>. QED BY <1>1, <2>2, <2>4 DEF MergeLine
<1>2. CASE ~(set.merge /\ merged # <<>> /\ SameVoice(Last(merged), line))
  <2>1. MergeLine(set, merged, line) = Append(merged, line)
    BY <1>2 DEF MergeLine
  <2>. QED BY <2>1
<1>. QED BY <1>1, <1>2

\* MergeSameSpeaker is a walk that merges one line at a time.
LEMMA MergeWalk ==
  ASSUME NEW set, NEW s \in Seq(SpokenLine)
  PROVE  \E P : Merges(P, set, s) /\ P[Len(s)] = MergeSameSpeaker(set, s)
<1>. DEFINE n == Len(s)
            V == Seq(SpokenLine)
            F == [k \in 1..n |-> [v \in V |-> MergeLine(set, v, s[k])]]
            Is(g) == g = [S \in SUBSET DOMAIN s |->
                            IF S = {} THEN <<>>
                            ELSE IF /\ set.merge /\ g[S \ {Max(S)}] # <<>>
                                    /\ SameVoice(Last(g[S \ {Max(S)}]), s[Max(S)])
                                 THEN Append(Front(g[S \ {Max(S)}]),
                                             [Last(g[S \ {Max(S)}]) EXCEPT
                                                !.text = @ \o s[Max(S)].text, !.to = s[Max(S)].to])
                                 ELSE Append(g[S \ {Max(S)}], s[Max(S)])]
            it == CHOOSE g : Is(g)
<1>1. MergeSameSpeaker(set, s) = it[DOMAIN s]
  BY DEF MergeSameSpeaker, FoldLeft, MapThenFoldSet
<1>2. n \in Nat /\ DOMAIN s = 1..n /\ <<>> \in V /\ F \in [1..n -> [V -> V]]
  <2>1. ASSUME NEW k \in 1..n, NEW v \in V PROVE MergeLine(set, v, s[k]) \in V
    <3>1. s[k] \in SpokenLine
      OBVIOUS
    <3>. QED BY <3>1, MergeLineType
  <2>. HIDE DEF V
  <2>2. \A k \in 1..n : [v \in V |-> MergeLine(set, v, s[k])] \in [V -> V]
    BY <2>1
  <2>. QED BY <2>2 DEF V
<1>3. \A k \in 1..n, v \in V : F[k][v] = MergeLine(set, v, s[k])
  <2>. HIDE DEF V
  <2>. QED OBVIOUS
<1>. HIDE DEF F, V
<1>4. PICK g \in [SUBSET (1..n) -> V] : Follows(g, n, V, <<>>, F)
  <2>. HIDE DEF n
  <2>. QED BY <1>2, FollowExists
<1>5. Is(g)
  <2>1. ASSUME NEW S \in SUBSET (1..n), S # {}
        PROVE  g[S] = MergeLine(set, g[S \ {Max(S)}], s[Max(S)])
    <3>1. Max(S) \in 1..n /\ S \ {Max(S)} \in SUBSET (1..n)
      BY <1>2, <2>1, MaxOf
    <3>2. g[S \ {Max(S)}] \in V
      BY <3>1
    <3>. QED BY <1>3, <1>4, <2>1, <3>1, <3>2 DEF Follows
  <2>2. g[{}] = <<>>
    BY <1>4 DEF Follows
  <2>. QED BY <1>2, <2>1, <2>2 DEF MergeLine
<1>6. Is(it)
  <2>. HIDE DEF Is
  <2>. QED BY <1>5
<1>7. Follows(it, n, V, <<>>, F)
  <2>. HIDE DEF it
  <2>1. ASSUME NEW S \in SUBSET (1..n), S # {}
        PROVE  it[S] = MergeLine(set, it[S \ {Max(S)}], s[Max(S)])
    BY <1>2, <1>6, <2>1 DEF MergeLine
  <2>2. it[{}] = <<>>
    BY <1>6
  <2>. HIDE DEF Is
  <2>3. ASSUME NEW S \in SUBSET (1..n), S # {}, it[S \ {Max(S)}] \in V
        PROVE  it[S] = F[Max(S)][it[S \ {Max(S)}]]
    <3>1. Max(S) \in 1..n
      BY <1>2, <2>3, MaxOf
    <3>. QED BY <1>3, <2>1, <2>3, <3>1
  <2>. QED BY <2>2, <2>3 DEF Follows
<1>. HIDE DEF it, Is
<1>8. PICK P : Walks(P, n, V, <<>>, F) /\ P[n] = it[1..n]
  <2>. HIDE DEF n
  <2>. QED BY <1>2, <1>7, FoldWalk
<1>9. \A k \in 0..n-1 : P[k+1] = MergeLine(set, P[k], s[k+1])
  <2>1. ASSUME NEW k \in 0..n-1 PROVE P[k+1] = MergeLine(set, P[k], s[k+1])
    <3>1. k \in 0..n /\ k + 1 \in 1..n
      BY <1>2
    <3>2. P[k] \in V /\ P[k+1] = F[k+1][P[k]]
      BY <1>8, <3>1 DEF Walks
    <3>. QED BY <1>3, <3>1, <3>2
  <2>. QED BY <2>1
<1>10. Merges(P, set, s)
  BY <1>8, <1>9 DEF Merges, Walks, V
<1>. QED BY <1>1, <1>2, <1>8, <1>10

\* Line k of s goes with the one before it.
Joining(set, s, k) == k > 1 /\ set.merge /\ SameVoice(s[k-1], s[k])

MergedInto(old, new, line) ==
    /\ Len(old) \in Nat \ {0} /\ Len(new) = Len(old)
    /\ \A m \in 1..Len(old) : m # Len(old) => new[m] = old[m]
    /\ new[Len(old)] = [old[Len(old)] EXCEPT !.text = @ \o line.text, !.to = line.to]
MergedAfter(old, new, line) ==
    /\ Len(old) \in Nat /\ Len(new) = Len(old) + 1
    /\ \A m \in 1..Len(old) : new[m] = old[m]
    /\ new[Len(old)+1] = line

\* A line goes on with the last one or begins one of its own.
LEMMA MergeLineResult ==
  ASSUME NEW set, NEW merged \in Seq(SpokenLine), NEW line \in SpokenLine
  PROVE  /\ set.merge /\ merged # <<>> /\ SameVoice(Last(merged), line) =>
               MergedInto(merged, MergeLine(set, merged, line), line)
         /\ ~(set.merge /\ merged # <<>> /\ SameVoice(Last(merged), line)) =>
               MergedAfter(merged, MergeLine(set, merged, line), line)
<1>. DEFINE q == Len(merged)
            joined == MergeLine(set, merged, line)
            new == [merged[q] EXCEPT !.text = @ \o line.text, !.to = line.to]
<1>1. CASE set.merge /\ merged # <<>> /\ SameVoice(Last(merged), line)
  <2>1. q \in Nat \ {0} /\ joined = Append(SubSeq(merged, 1, q - 1), new)
    BY <1>1 DEF MergeLine, Last, Front
  <2>. DEFINE front == SubSeq(merged, 1, q - 1)
  <2>2. front \in Seq(SpokenLine) /\ Len(front) = q - 1 /\ \A m \in 1..q-1 : front[m] = merged[m]
    <3>1. \A i \in 1..q-1 : merged[i] \in SpokenLine
      BY <2>1
    <3>2. 1 \in Int /\ q - 1 \in Int /\ (q-1)-1+1 = q-1 /\ \A m \in 1..q-1 : 1 + m - 1 = m
      BY <2>1
    <3>. HIDE DEF q
    <3>3. /\ front \in Seq(SpokenLine)
          /\ Len(front) = IF 1 <= q-1 THEN (q-1)-1+1 ELSE 0
          /\ \A m \in 1..(q-1)-1+1 : front[m] = merged[1+m-1]
      BY <3>1, <3>2, SubSeqProperties
    <3>. QED BY <2>1, <3>2, <3>3
  <2>. HIDE DEF front, new
  <2>3. Len(Append(front, new)) = q /\ Append(front, new)[q] = new
        /\ \A m \in 1..q-1 : Append(front, new)[m] = front[m]
    <3>1. front \in Seq(SpokenLine \cup {new}) /\ Len(front) \in Nat
      BY <2>1, <2>2
    <3>. QED BY <2>1, <2>2, <3>1
  <2>4. joined = Append(front, new)
    BY <2>1 DEF front
  <2>5. \A m \in 1..q : m # q => m \in 1..q-1
    BY <2>1
  <2>6. /\ Len(joined) = q
        /\ \A m \in 1..q : m # q => joined[m] = merged[m]
        /\ joined[q] = new
    BY <2>2, <2>3, <2>4, <2>5
  <2>. QED BY <1>1, <2>1, <2>6 DEF new, MergedInto
<1>2. CASE ~(set.merge /\ merged # <<>> /\ SameVoice(Last(merged), line))
  <2>1. joined = Append(merged, line)
    BY <1>2 DEF MergeLine
  <2>2. q \in Nat /\ Len(joined) = q + 1 /\ joined[q+1] = line
        /\ \A m \in 1..q : joined[m] = merged[m]
    BY <2>1
  <2>. QED BY <1>2, <2>2 DEF MergedAfter
<1>. QED BY <1>1, <1>2

\* The line that is written last speaks with the voice of the line that was read last.
LastVoice(P, s, k) ==
    k > 0 => Len(P[k]) > 0 /\ SameVoice(P[k][Len(P[k])], s[k])

LEMMA MergeKeepsVoice ==
  ASSUME NEW set, NEW s \in Seq(SpokenLine), NEW P, Merges(P, set, s),
         NEW k \in 0..Len(s)-1, LastVoice(P, s, k)
  PROVE  /\ Joining(set, s, k+1) => MergedInto(P[k], P[k+1], s[k+1])
         /\ ~Joining(set, s, k+1) => MergedAfter(P[k], P[k+1], s[k+1])
         /\ LastVoice(P, s, k+1)
<1>. DEFINE q == Len(P[k])
            line == s[k+1]
<1>1. /\ k \in Nat /\ k + 1 \in 1..Len(s) /\ k \in 0..Len(s) /\ (k + 1) - 1 = k
      /\ k > 0 => k \in 1..Len(s)
  OBVIOUS
<1>2. P[k] \in Seq(SpokenLine) /\ line \in SpokenLine /\ P[k+1] = MergeLine(set, P[k], line)
  BY <1>1 DEF Merges
<1>3. k > 0 => s[k] \in SpokenLine
  BY <1>1
<1>4. q \in Nat /\ (P[k] # <<>> <=> q > 0)
  BY <1>2
<1>5. (set.merge /\ P[k] # <<>> /\ SameVoice(Last(P[k]), line)) <=> Joining(set, s, k+1)
  <2>1. k = 0 => P[k] = <<>>
    BY DEF Merges
  <2>2. CASE k = 0
    BY <2>1, <2>2, <1>1 DEF Joining
  <2>3. CASE k > 0
    <3>1. q > 0 /\ SameVoice(P[k][q], s[k])
      BY <2>3 DEF LastVoice
    <3>2. SameVoice(P[k][q], line) <=> SameVoice(s[k], line)
      BY <3>1 DEF SameVoice
    <3>. QED BY <1>1, <1>4, <2>3, <3>1, <3>2 DEF Joining, Last
  <2>. QED BY <1>1, <2>2, <2>3
<1>6. CASE Joining(set, s, k+1)
  <2>1. MergedInto(P[k], P[k+1], line)
    BY <1>2, <1>5, <1>6, MergeLineResult
  <2>2. Len(P[k+1]) > 0 /\ SameVoice(P[k+1][Len(P[k+1])], s[k+1])
    <3>1. Len(P[k+1]) = q /\ q > 0 /\ P[k+1][q] = [P[k][q] EXCEPT !.text = @ \o line.text, !.to = line.to]
      BY <2>1 DEF MergedInto
    <3>2. P[k][q] \in SpokenLine
      BY <1>2, <1>4, <3>1
    <3>3. P[k+1][q].who = P[k][q].who /\ P[k+1][q].track = P[k][q].track
      BY <3>1, <3>2 DEF SpokenLine
    <3>4. SameVoice(P[k][q], line)
      BY <1>5, <1>6 DEF Last
    <3>. QED BY <3>1, <3>3, <3>4 DEF SameVoice
  <2>. QED BY <1>6, <2>1, <2>2 DEF LastVoice
<1>7. CASE ~Joining(set, s, k+1)
  <2>1. MergedAfter(P[k], P[k+1], line)
    BY <1>2, <1>5, <1>7, MergeLineResult
  <2>2. Len(P[k+1]) > 0 /\ SameVoice(P[k+1][Len(P[k+1])], s[k+1])
    BY <2>1 DEF MergedAfter, SameVoice
  <2>. QED BY <1>7, <2>1, <2>2 DEF LastVoice
<1>. QED BY <1>6, <1>7

\* A line that is merged goes on with the last one only if both speak with one voice.
LEMMA MergeSteps ==
  ASSUME NEW set, NEW s \in Seq(SpokenLine), NEW P, Merges(P, set, s)
  PROVE  \A k \in 0..Len(s)-1 :
            /\ Joining(set, s, k+1) => MergedInto(P[k], P[k+1], s[k+1])
            /\ ~Joining(set, s, k+1) => MergedAfter(P[k], P[k+1], s[k+1])
<1>. DEFINE Ok(k) == k <= Len(s) => LastVoice(P, s, k)
            N == {k \in Nat : Ok(k)}
<1>1. Ok(0)
  BY DEF LastVoice
<1>2. ASSUME NEW k \in Nat, Ok(k) PROVE Ok(k + 1)
  <2>. SUFFICES ASSUME k + 1 <= Len(s) PROVE LastVoice(P, s, k + 1)
    OBVIOUS
  <2>1. k \in 0..Len(s)-1 /\ k <= Len(s)
    OBVIOUS
  <2>. QED BY <1>2, <2>1, MergeKeepsVoice
<1>. HIDE DEF Ok
<1>3. 0 \in N /\ \A n \in Nat : n \in N => n + 1 \in N
  BY <1>1, <1>2
<1>4. \A k \in Nat : k \in N
  <2>. HIDE DEF N
  <2>. QED BY <1>3, Induct
<1>5. ASSUME NEW k \in 0..Len(s)-1 PROVE LastVoice(P, s, k)
  <2>1. k \in Nat /\ k <= Len(s)
    OBVIOUS
  <2>. QED BY <2>1, <1>4 DEF Ok
<1>. QED BY <1>5, MergeKeepsVoice

\* The lines that are written do not get fewer, and there is one once a line is read.
LEMMA MergeNumbers ==
  ASSUME NEW set, NEW s \in Seq(SpokenLine), NEW P, Merges(P, set, s)
  PROVE  /\ \A k \in 0..Len(s) : Len(P[k]) \in Nat /\ (k > 0 => Len(P[k]) > 0)
         /\ \A k \in 0..Len(s) : \A j \in 0..k : Len(P[j]) <= Len(P[k])
<1>1. \A k \in 0..Len(s) : P[k] \in Seq(SpokenLine) /\ Len(P[k]) \in Nat
  BY DEF Merges
<1>2. \A k \in 0..Len(s)-1 : Len(P[k+1]) > 0 /\ Len(P[k]) <= Len(P[k+1])
  <2>1. ASSUME NEW k \in 0..Len(s)-1 PROVE Len(P[k+1]) > 0 /\ Len(P[k]) <= Len(P[k+1])
    <3>1. MergedInto(P[k], P[k+1], s[k+1]) \/ MergedAfter(P[k], P[k+1], s[k+1])
      BY MergeSteps
    <3>. QED BY <3>1 DEF MergedInto, MergedAfter
  <2>. QED BY <2>1
<1>. DEFINE Ok(k) == k <= Len(s) => \A j \in 0..k : Len(P[j]) <= Len(P[k])
            N == {k \in Nat : Ok(k)}
<1>3. Ok(0)
  <2>1. Len(P[0]) \in Nat
    BY <1>1
  <2>. QED BY <2>1
<1>4. ASSUME NEW k \in Nat, Ok(k) PROVE Ok(k + 1)
  <2>. SUFFICES ASSUME k + 1 <= Len(s), NEW j \in 0..k+1 PROVE Len(P[j]) <= Len(P[k+1])
    OBVIOUS
  <2>1. k \in 0..Len(s)-1 /\ k <= Len(s) /\ j \in 0..Len(s) /\ k \in 0..Len(s) /\ k+1 \in 0..Len(s)
    OBVIOUS
  <2>2. Len(P[j]) \in Nat /\ Len(P[k]) \in Nat /\ Len(P[k+1]) \in Nat /\ Len(P[k]) <= Len(P[k+1])
    BY <1>1, <1>2, <2>1
  <2>3. CASE j = k + 1
    BY <2>2, <2>3
  <2>4. CASE j # k + 1
    <3>1. j \in 0..k
      BY <2>4
    <3>2. Len(P[j]) <= Len(P[k])
      BY <1>4, <2>1, <3>1
    <3>. QED BY <2>2, <3>2
  <2>. QED BY <2>3, <2>4
<1>5. \A k \in 0..Len(s) : \A j \in 0..k : Len(P[j]) <= Len(P[k])
  <2>. HIDE DEF Ok
  <2>1. 0 \in N /\ \A n \in Nat : n \in N => n + 1 \in N
    BY <1>3, <1>4
  <2>2. \A k \in Nat : k \in N
    <3>. HIDE DEF N
    <3>. QED BY <2>1, Induct
  <2>3. ASSUME NEW k \in 0..Len(s) PROVE \A j \in 0..k : Len(P[j]) <= Len(P[k])
    <3>1. k \in Nat /\ k <= Len(s)
      OBVIOUS
    <3>. QED BY <2>2, <3>1 DEF Ok
  <2>. QED BY <2>3
<1>6. ASSUME NEW k \in 0..Len(s), k > 0 PROVE Len(P[k]) > 0
  <2>1. k - 1 \in 0..Len(s)-1 /\ (k - 1) + 1 = k
    BY <1>6
  <2>. QED BY <1>2, <2>1
<1>. QED BY <1>1, <1>5, <1>6

\* The texts of the lines of d, where they are in s, that are joined in line m.
Parts(P, m, kx, d, s) ==
    [i \in 1..Len(s) |-> IF \E k \in 1..Len(d) : kx[k] = i /\ Len(P[k]) = m THEN s[i].text ELSE <<>>]

Merging(set, s, d, kx, J, P, Y) ==
    /\ s \in Seq(SpokenLine) /\ d \in Seq(SpokenLine) /\ J \subseteq 1..Len(s)
    /\ Picks(kx, d, s, J)
    /\ Merges(P, set, d)
    /\ \A m \in Nat : Joins(Y[m], Parts(P, m, kx, d, s), Words)

\* Those texts are texts.
LEMMA PartsType ==
  ASSUME NEW s \in Seq(SpokenLine), NEW d, NEW kx, NEW P, NEW m
  PROVE  /\ Parts(P, m, kx, d, s) \in Seq(Seq(Words))
         /\ Len(Parts(P, m, kx, d, s)) = Len(s)
<1>1. Len(s) \in Nat /\ \A i \in 1..Len(s) : s[i].text \in Seq(Words)
  <2>1. \A i \in 1..Len(s) : s[i] \in SpokenLine
    OBVIOUS
  <2>. QED BY <2>1 DEF SpokenLine
<1>. DEFINE V == Seq(Words)
<1>2. <<>> \in V
  OBVIOUS
<1>3. Parts(P, m, kx, d, s) \in [1..Len(s) -> V]
  <2>. HIDE DEF V
  <2>. QED BY <1>1, <1>2 DEF Parts, V
<1>. HIDE DEF V
<1>. QED BY <1>1, <1>3 DEF V

\* MergeSameSpeaker ends where such a walk does.
LEMMA MergingStarts ==
  ASSUME NEW set, NEW s \in Seq(SpokenLine), NEW d \in Seq(SpokenLine), NEW kx, NEW J,
         J \subseteq 1..Len(s), Picks(kx, d, s, J)
  PROVE  \E P, Y : Merging(set, s, d, kx, J, P, Y) /\ P[Len(d)] = MergeSameSpeaker(set, d)
<1>1. PICK P : Merges(P, set, d) /\ P[Len(d)] = MergeSameSpeaker(set, d)
  BY MergeWalk
<1>. DEFINE Y == [m \in Nat |-> CHOOSE Q : Joins(Q, Parts(P, m, kx, d, s), Words)]
<1>2. ASSUME NEW m \in Nat PROVE Joins(Y[m], Parts(P, m, kx, d, s), Words)
  <2>1. \E Q : Joins(Q, Parts(P, m, kx, d, s), Words)
    BY PartsType, JoinsExist
  <2>. QED BY <2>1
<1>. HIDE DEF Y
<1>3. Merging(set, s, d, kx, J, P, Y)
  BY <1>1, <1>2 DEF Merging
<1>. QED BY <1>1, <1>3

NoPart(P, d, kx, m, a, b) ==
    \A k \in 1..Len(d) : ~(Len(P[k]) = m /\ a < kx[k] /\ kx[k] <= b)

\* The text of a line does not grow where no part of it is,
LEMMA MergingGap ==
  ASSUME NEW set, NEW s, NEW d, NEW kx, NEW J, NEW P, NEW Y, Merging(set, s, d, kx, J, P, Y),
         NEW m \in Nat, NEW a \in 0..Len(s), NEW b \in 0..Len(s), a <= b,
         NoPart(P, d, kx, m, a, b)
  PROVE  Y[m][b] = Y[m][a]
<1>. DEFINE parts == Parts(P, m, kx, d, s)
<1>1. Joins(Y[m], parts, Words) /\ Len(parts) = Len(s) /\ Len(s) \in Nat
  BY PartsType DEF Merging
<1>2. ASSUME NEW i \in 1..Len(s), a < i, i <= b PROVE parts[i] = <<>>
  BY <1>2 DEF Parts, NoPart
<1>. HIDE DEF parts
<1>. QED BY <1>1, <1>2, JoinsGap

HasPart(s, d, kx, Y, k, m) ==
    /\ kx[k] \in 1..Len(s) /\ kx[k] - 1 \in 0..Len(s)
    /\ Y[m][kx[k]] = Y[m][kx[k]-1] \o d[k].text

\* and grows by each part that is.
LEMMA MergingPart ==
  ASSUME NEW set, NEW s, NEW d, NEW kx, NEW J, NEW P, NEW Y, Merging(set, s, d, kx, J, P, Y),
         NEW k \in 1..Len(d), NEW m \in Nat, Len(P[k]) = m
  PROVE  HasPart(s, d, kx, Y, k, m)
<1>. DEFINE parts == Parts(P, m, kx, d, s)
<1>1. Joins(Y[m], parts, Words) /\ Len(parts) = Len(s) /\ Len(s) \in Nat /\ Len(d) \in Nat
  BY PartsType DEF Merging
<1>2. kx[k] \in 1..Len(s) /\ d[k] = s[kx[k]]
  BY DEF Merging, Picks
<1>3. parts[kx[k]] = d[k].text
  BY <1>2 DEF Parts
<1>. HIDE DEF parts
<1>4. kx[k] - 1 \in 0..Len(s)-1 /\ kx[k] - 1 \in 0..Len(s) /\ (kx[k] - 1) + 1 = kx[k]
  BY <1>1, <1>2
<1>5. Y[m][(kx[k]-1)+1] = Y[m][kx[k]-1] \o parts[(kx[k]-1)+1]
  BY <1>1, <1>4 DEF Joins
<1>. QED BY <1>2, <1>3, <1>4, <1>5 DEF HasPart

\* Line m, when k lines are joined: those from a to b.
JoinedFrom(P, d, kx, Y, k, m, a, b) ==
    /\ a \in 1..k /\ b \in 1..k /\ a <= b
    /\ \A j \in 1..k : Len(P[j]) = m <=> a <= j /\ j <= b
    /\ P[k][m] = [d[a] EXCEPT !.text = Y[m][kx[b]], !.to = d[b].to]

LinesJoined(P, d, kx, Y, k) ==
    \A m \in 1..Len(P[k]) : \E a, b : JoinedFrom(P, d, kx, Y, k, m, a, b)

\* The lines that are read are in the order they had.
LEMMA MergingOrder ==
  ASSUME NEW set, NEW s, NEW d, NEW kx, NEW J, NEW P, NEW Y, Merging(set, s, d, kx, J, P, Y)
  PROVE  /\ Len(d) \in Nat /\ Len(s) \in Nat
         /\ \A j \in 1..Len(d) : kx[j] \in J /\ kx[j] \in 1..Len(s) /\ d[j] = s[kx[j]] /\ d[j] \in SpokenLine
         /\ \A i, j \in 1..Len(d) : (i < j <=> kx[i] < kx[j]) /\ (i <= j <=> kx[i] <= kx[j])
<1>1. /\ s \in Seq(SpokenLine) /\ d \in Seq(SpokenLine) /\ J \subseteq 1..Len(s)
      /\ Picks(kx, d, s, J)
  BY DEF Merging
<1>2. Len(d) \in Nat /\ Len(s) \in Nat /\ J \subseteq Int
  BY <1>1
<1>3. InOrder(kx, d, s, J)
  BY <1>1, <1>2, PicksOrder
<1>4. \A j \in 1..Len(d) : d[j] \in SpokenLine
  BY <1>1
<1>. QED BY <1>1, <1>2, <1>3, <1>4 DEF InOrder

\* A line that is written stays as it is while others are joined.
LEMMA JoinsBefore ==
  ASSUME NEW set, NEW s, NEW d, NEW kx, NEW J, NEW P, NEW Y, Merging(set, s, d, kx, J, P, Y),
         NEW k \in 0..Len(d)-1, NEW m, m # Len(P[k+1]),
         NEW a, NEW b, JoinedFrom(P, d, kx, Y, k, m, a, b), P[k+1][m] = P[k][m]
  PROVE  JoinedFrom(P, d, kx, Y, k+1, m, a, b)
<1>1. /\ a \in 1..k /\ b \in 1..k /\ a <= b
      /\ \A j \in 1..k : Len(P[j]) = m <=> a <= j /\ j <= b
      /\ P[k][m] = [d[a] EXCEPT !.text = Y[m][kx[b]], !.to = d[b].to]
  BY DEF JoinedFrom
<1>2. k \in Nat /\ a \in 1..k+1 /\ b \in 1..k+1 /\ ~(k + 1 <= b)
  BY <1>1
<1>3. \A j \in 1..k+1 : Len(P[j]) = m <=> a <= j /\ j <= b
  <2>1. ASSUME NEW j \in 1..k+1 PROVE Len(P[j]) = m <=> a <= j /\ j <= b
    <3>1. j = k + 1 \/ j \in 1..k
      BY <1>2
    <3>. QED BY <1>1, <1>2, <3>1
  <2>. QED BY <2>1
<1>. QED BY <1>1, <1>2, <1>3 DEF JoinedFrom

\* A line that begins is what it says itself.
LEMMA JoinsNew ==
  ASSUME NEW set, NEW s, NEW d, NEW kx, NEW J, NEW P, NEW Y, Merging(set, s, d, kx, J, P, Y),
         NEW k \in 0..Len(d)-1, MergedAfter(P[k], P[k+1], d[k+1])
  PROVE  JoinedFrom(P, d, kx, Y, k+1, Len(P[k+1]), k+1, k+1)
<1>. DEFINE m == Len(P[k+1])
            x == kx[k+1]
<1>1. /\ k \in Nat /\ k \in 0..Len(d) /\ k + 1 \in 1..Len(d) /\ k + 1 \in 1..k+1 /\ k + 1 <= k + 1
      /\ k + 1 \in 0..Len(d)
  BY MergingOrder
<1>2. Len(P[k]) \in Nat /\ m = Len(P[k]) + 1 /\ P[k+1][m] = d[k+1]
  BY DEF MergedAfter
<1>3. \A j \in 0..k : Len(P[j]) \in Nat /\ Len(P[j]) <= Len(P[k])
  <2>1. /\ \A i \in 0..Len(d) : Len(P[i]) \in Nat
        /\ \A i \in 0..Len(d) : \A j \in 0..i : Len(P[j]) <= Len(P[i])
    BY MergeNumbers DEF Merging
  <2>2. \A j \in 0..k : j \in 0..Len(d)
    BY <1>1, MergingOrder
  <2>. QED BY <2>1, <2>2, <1>1
<1>4. \A j \in 1..k+1 : Len(P[j]) = m <=> k + 1 <= j /\ j <= k + 1
  <2>1. ASSUME NEW j \in 1..k+1 PROVE Len(P[j]) = m <=> k + 1 <= j /\ j <= k + 1
    <3>1. CASE j = k + 1
      BY <3>1, <1>1
    <3>2. CASE j # k + 1
      <4>1. j \in 0..k /\ ~(k + 1 <= j)
        BY <1>1, <3>2
      <4>2. Len(P[j]) \in Nat /\ Len(P[j]) <= Len(P[k])
        BY <1>3, <4>1
      <4>3. Len(P[j]) # m
        BY <1>2, <4>2
      <4>. QED BY <4>1, <4>3
    <3>. QED BY <3>1, <3>2
  <2>. QED BY <2>1
<1>5. m \in Nat /\ x \in 1..Len(s) /\ x - 1 \in 0..Len(s) /\ Y[m][x] = Y[m][x-1] \o d[k+1].text
  <2>1. m \in Nat
    BY <1>2
  <2>2. k + 1 \in 1..Len(d) /\ Len(P[k+1]) = m
    BY <1>1
  <2>. HIDE DEF m, x
  <2>3. ASSUME NEW j \in 1..Len(d), Len(P[j]) = m PROVE HasPart(s, d, kx, Y, j, m)
    BY <2>1, <2>3, MergingPart
  <2>. QED BY <2>1, <2>2, <2>3 DEF x, HasPart
<1>6. Y[m][x-1] = Y[m][0]
  <2>1. ASSUME NEW j \in 1..Len(d), Len(P[j]) = m, 0 < kx[j], kx[j] <= x - 1 PROVE FALSE
    <3>1. kx[j] \in 1..Len(s)
      BY <2>1, MergingOrder
    <3>2. kx[j] < x
      BY <1>5, <2>1, <3>1
    <3>3. j < k + 1
      <4>1. j < k + 1 <=> kx[j] < kx[k+1]
        BY <1>1, MergingOrder
      <4>. QED BY <3>2, <4>1
    <3>4. j \in 1..k+1 /\ ~(k + 1 <= j)
      BY <1>1, <3>3
    <3>. QED BY <1>4, <2>1, <3>4
  <2>2. 0 \in 0..Len(s) /\ 0 <= x - 1
    BY <1>5, MergingOrder
  <2>. HIDE DEF m, x
  <2>3. \A j \in 1..Len(d) : ~(Len(P[j]) = m /\ 0 < kx[j] /\ kx[j] <= x - 1)
    BY <2>1
  <2>4. m \in Nat /\ x - 1 \in 0..Len(s)
    BY <1>5
  <2>5. ASSUME NEW z \in 0..Len(s), z = x - 1 PROVE Y[m][z] = Y[m][0]
    <3>1. 0 <= z /\ NoPart(P, d, kx, m, 0, z)
      BY <2>2, <2>3, <2>5 DEF NoPart
    <3>. QED BY <2>2, <2>4, <3>1, MergingGap
  <2>. QED BY <2>4, <2>5
<1>7. Y[m][0] = <<>> /\ d[k+1] \in SpokenLine
  <2>1. Joins(Y[m], Parts(P, m, kx, d, s), Words)
    BY <1>5 DEF Merging
  <2>. QED BY <1>1, <2>1, MergingOrder DEF Joins
<1>8. Y[m][x] = d[k+1].text
  <2>1. d[k+1].text \in Seq(Words)
    BY <1>7 DEF SpokenLine
  <2>2. <<>> \o d[k+1].text = d[k+1].text
    BY <2>1, ConcatEmptySeq
  <2>. QED BY <1>5, <1>6, <1>7, <2>2
<1>9. d[k+1] = [d[k+1] EXCEPT !.text = Y[m][x], !.to = d[k+1].to]
  <2>. HIDE DEF m, x
  <2>. QED BY <1>7, <1>8 DEF SpokenLine
<1>. QED BY <1>1, <1>2, <1>4, <1>9 DEF JoinedFrom

\* A line that goes on says what it said and what is new, until the end of the new one.
LEMMA JoinsLast ==
  ASSUME NEW set, NEW s, NEW d, NEW kx, NEW J, NEW P, NEW Y, Merging(set, s, d, kx, J, P, Y),
         NEW k \in 1..Len(d)-1, MergedInto(P[k], P[k+1], d[k+1]),
         NEW a, NEW b, JoinedFrom(P, d, kx, Y, k, Len(P[k]), a, b)
  PROVE  JoinedFrom(P, d, kx, Y, k+1, Len(P[k+1]), a, k+1)
<1>. DEFINE m == Len(P[k])
            x == kx[k]
            y == kx[k+1]
            text == d[k+1].text
            to == d[k+1].to
<1>1. /\ k \in Nat /\ k \in 1..k /\ k \in 1..Len(d) /\ k + 1 \in 1..Len(d) /\ k + 1 \in 1..k+1
      /\ k < k + 1
  BY MergingOrder
<1>2. /\ m \in Nat /\ Len(P[k+1]) = m
      /\ P[k+1][m] = [P[k][m] EXCEPT !.text = @ \o text, !.to = to]
  BY DEF MergedInto
<1>3. /\ a \in 1..k /\ b \in 1..k /\ a <= b
      /\ \A j \in 1..k : Len(P[j]) = m <=> a <= j /\ j <= b
      /\ P[k][m] = [d[a] EXCEPT !.text = Y[m][kx[b]], !.to = d[b].to]
  BY DEF JoinedFrom
<1>4. b = k
  <2>1. k <= b
    BY <1>1, <1>3
  <2>. QED BY <1>1, <1>3, <2>1
<1>5. \A j \in 1..k+1 : Len(P[j]) = m <=> a <= j /\ j <= k + 1
  <2>1. ASSUME NEW j \in 1..k+1 PROVE Len(P[j]) = m <=> a <= j /\ j <= k + 1
    <3>1. CASE j = k + 1
      BY <3>1, <1>1, <1>2, <1>3
    <3>2. CASE j # k + 1
      <4>1. j \in 1..k /\ j <= k
        BY <1>1, <3>2
      <4>. QED BY <1>1, <1>3, <1>4, <4>1
    <3>. QED BY <3>1, <3>2
  <2>. QED BY <2>1
<1>6. y \in 1..Len(s) /\ y - 1 \in 0..Len(s) /\ Y[m][y] = Y[m][y-1] \o text
  <2>1. m \in Nat /\ k + 1 \in 1..Len(d) /\ Len(P[k+1]) = m
    BY <1>1, <1>2
  <2>. HIDE DEF m, x, y, text
  <2>3. ASSUME NEW j \in 1..Len(d), Len(P[j]) = m PROVE HasPart(s, d, kx, Y, j, m)
    BY <2>1, <2>3, MergingPart
  <2>. QED BY <2>1, <2>3 DEF y, text, HasPart
<1>7. x \in 1..Len(s) /\ x < y
  BY <1>1, MergingOrder
<1>8. Y[m][y-1] = Y[m][x]
  <2>1. ASSUME NEW j \in 1..Len(d), Len(P[j]) = m, x < kx[j], kx[j] <= y - 1 PROVE FALSE
    <3>1. kx[j] < y
      BY <1>6, <2>1, MergingOrder
    <3>2. k < j /\ j < k + 1
      BY <1>1, <2>1, <3>1, MergingOrder
    <3>. QED BY <1>1, <3>2
  <2>2. x \in 0..Len(s) /\ x <= y - 1
    BY <1>6, <1>7, MergingOrder
  <2>. HIDE DEF m, x, y
  <2>3. NoPart(P, d, kx, m, x, y - 1)
    BY <2>1 DEF NoPart
  <2>. QED BY <1>2, <1>6, <2>2, <2>3, MergingGap
<1>9. d[a] \in SpokenLine
  <2>1. a \in 1..Len(d)
    BY <1>1, <1>3
  <2>. QED BY <2>1, MergingOrder
<1>10. P[k+1][m] = [d[a] EXCEPT !.text = Y[m][y], !.to = to]
  <2>. HIDE DEF m, x, y, text, to
  <2>1. P[k][m] = [d[a] EXCEPT !.text = Y[m][x], !.to = d[b].to]
    BY <1>3, <1>4 DEF x
  <2>2. P[k][m].text = Y[m][x]
    BY <1>9, <2>1 DEF SpokenLine
  <2>3. P[k+1][m] = [P[k][m] EXCEPT !.text = Y[m][y], !.to = to]
    BY <1>2, <1>6, <1>8, <2>2
  <2>. QED BY <1>9, <2>1, <2>3 DEF SpokenLine
<1>11. a \in 1..k+1 /\ a <= k + 1
  BY <1>1, <1>3
<1>. QED BY <1>1, <1>2, <1>5, <1>10, <1>11 DEF JoinedFrom

\* After every line that is read, each that is written is joined from its parts.
LEMMA AllJoined ==
  ASSUME NEW set, NEW s, NEW d, NEW kx, NEW J, NEW P, NEW Y, Merging(set, s, d, kx, J, P, Y)
  PROVE  LinesJoined(P, d, kx, Y, Len(d))
<1>1. Len(d) \in Nat /\ d \in Seq(SpokenLine) /\ Merges(P, set, d)
  BY MergingOrder DEF Merging
<1>. DEFINE Ok(k) == k <= Len(d) => LinesJoined(P, d, kx, Y, k)
            N == {k \in Nat : Ok(k)}
<1>2. Ok(0)
  <2>1. Len(P[0]) = 0
    BY <1>1 DEF Merges
  <2>. QED BY <2>1 DEF LinesJoined
<1>3. ASSUME NEW k \in Nat, Ok(k) PROVE Ok(k + 1)
  <2>. SUFFICES ASSUME k + 1 <= Len(d), NEW m \in 1..Len(P[k+1])
                PROVE  \E a, b : JoinedFrom(P, d, kx, Y, k+1, m, a, b)
    BY DEF LinesJoined
  <2>1. k \in 0..Len(d)-1 /\ k <= Len(d)
    BY <1>1
  <2>2. LinesJoined(P, d, kx, Y, k)
    BY <1>3, <2>1
  <2>3. MergedInto(P[k], P[k+1], d[k+1]) \/ MergedAfter(P[k], P[k+1], d[k+1])
    BY <1>1, <2>1, MergeSteps
  <2>4. CASE MergedInto(P[k], P[k+1], d[k+1])
    <3>1. Len(P[k]) \in Nat \ {0} /\ Len(P[k+1]) = Len(P[k]) /\ (m # Len(P[k+1]) => P[k+1][m] = P[k][m])
      BY <2>4 DEF MergedInto
    <3>2. k \in 1..Len(d)-1
      <4>1. k # 0
        BY <1>1, <3>1 DEF Merges
      <4>. QED BY <2>1, <4>1
    <3>3. PICK a, b : JoinedFrom(P, d, kx, Y, k, m, a, b)
      BY <2>2, <3>1 DEF LinesJoined
    <3>4. CASE m = Len(P[k+1])
      <4>1. JoinedFrom(P, d, kx, Y, k, Len(P[k]), a, b)
        BY <3>1, <3>3, <3>4
      <4>2. JoinedFrom(P, d, kx, Y, k+1, Len(P[k+1]), a, k+1)
        BY <2>4, <3>2, <4>1, JoinsLast
      <4>. QED BY <3>4, <4>2
    <3>5. CASE m # Len(P[k+1])
      <4>1. JoinedFrom(P, d, kx, Y, k+1, m, a, b)
        BY <2>1, <3>1, <3>3, <3>5, JoinsBefore
      <4>. QED BY <4>1
    <3>. QED BY <3>4, <3>5
  <2>5. CASE MergedAfter(P[k], P[k+1], d[k+1])
    <3>1. Len(P[k]) \in Nat /\ Len(P[k+1]) = Len(P[k]) + 1 /\ \A i \in 1..Len(P[k]) : P[k+1][i] = P[k][i]
      BY <2>5 DEF MergedAfter
    <3>2. CASE m = Len(P[k+1])
      BY <2>1, <2>5, <3>2, JoinsNew
    <3>3. CASE m # Len(P[k+1])
      <4>1. m \in 1..Len(P[k])
        BY <3>1, <3>3
      <4>2. PICK a, b : JoinedFrom(P, d, kx, Y, k, m, a, b)
        BY <2>2, <4>1 DEF LinesJoined
      <4>3. JoinedFrom(P, d, kx, Y, k+1, m, a, b)
        BY <2>1, <3>1, <3>3, <4>1, <4>2, JoinsBefore
      <4>. QED BY <4>3
    <3>. QED BY <3>2, <3>3
  <2>. QED BY <2>3, <2>4, <2>5
<1>. HIDE DEF Ok
<1>4. 0 \in N /\ \A n \in Nat : n \in N => n + 1 \in N
  BY <1>2, <1>3
<1>5. \A k \in Nat : k \in N
  <2>. HIDE DEF N
  <2>. QED BY <1>4, Induct
<1>6. Ok(Len(d))
  BY <1>1, <1>5
<1>7. Len(d) <= Len(d)
  BY <1>1
<1>. QED BY <1>6, <1>7 DEF Ok

\* Min and Max of numbers that lie between two of them.
LEMMA LeastAndGreatest ==
  ASSUME NEW S, S \subseteq Int, NEW x \in S, NEW y \in S, \A i \in S : x <= i /\ i <= y
  PROVE  Min(S) = x /\ Max(S) = y
<1>1. \A z \in S : (\A i \in S : z <= i) => z = x
  OBVIOUS
<1>2. \A z \in S : (\A i \in S : z >= i) => z = y
  OBVIOUS
<1>3. (\A i \in S : x <= i) /\ \A i \in S : y >= i
  OBVIOUS
<1>4. Min(S) = x
  BY <1>1, <1>3, Zenon DEF Min
<1>5. Max(S) = y
  BY <1>2, <1>3, Zenon DEF Max
<1>. QED BY <1>4, <1>5

\* A line that is left is the first of those that were joined, with all their texts.
WholeLine(s, kept, turn, cleaned, m) ==
    LET Of == {i \in kept : turn[i] = m}
    IN  /\ Of # {}
        /\ cleaned[m] = [s[Min(Of)] EXCEPT
              !.text = FlattenSeq([i \in 1..Len(s) |-> IF i \in Of THEN s[i].text ELSE <<>>]),
              !.to = s[Max(Of)].to]

Turns(set, s, kept, turn, cleaned) ==
    /\ turn \in [kept -> 1..Len(cleaned)]
    /\ \A i, j \in kept : i < j /\ (\A k \in kept : k <= i \/ k >= j) =>
          turn[j] = IF set.merge /\ SameVoice(s[i], s[j]) THEN turn[i] ELSE turn[i] + 1
    /\ \A m \in 1..Len(cleaned) : WholeLine(s, kept, turn, cleaned, m)

\* MergeSameSpeaker joins neighbours of one voice, and nothing else.
LEMMA MergedTurns ==
  ASSUME NEW set, NEW s \in Seq(SpokenLine), NEW d \in Seq(SpokenLine), NEW kx, NEW J,
         J \subseteq 1..Len(s), Picks(kx, d, s, J)
  PROVE  /\ MergeSameSpeaker(set, d) \in Seq(SpokenLine)
         /\ \E turn : Turns(set, s, J, turn, MergeSameSpeaker(set, d))
<1>. DEFINE n == Len(d)
            merged == MergeSameSpeaker(set, d)
<1>1. PICK P, Y : Merging(set, s, d, kx, J, P, Y) /\ P[n] = merged
  BY MergingStarts
<1>2. /\ n \in Nat /\ Len(s) \in Nat
      /\ \A j \in 1..n : kx[j] \in J /\ kx[j] \in 1..Len(s) /\ d[j] = s[kx[j]] /\ d[j] \in SpokenLine
      /\ \A i, j \in 1..n : (i < j <=> kx[i] < kx[j]) /\ (i <= j <=> kx[i] <= kx[j])
  BY <1>1, MergingOrder
<1>3. Merges(P, set, d) /\ (\A m \in Nat : Joins(Y[m], Parts(P, m, kx, d, s), Words))
  BY <1>1 DEF Merging
<1>4. \A i \in J : \E k \in 1..n : kx[k] = i
  BY DEF Picks
<1>. HIDE DEF merged
<1>5. merged \in Seq(SpokenLine) /\ Len(merged) \in Nat
  <2>1. n \in 0..n
    BY <1>2
  <2>2. P[n] \in Seq(SpokenLine)
    BY <1>3, <2>1 DEF Merges
  <2>. QED BY <1>1, <2>2
<1>. DEFINE At(i) == CHOOSE k \in 1..n : kx[k] = i
            turn == [i \in J |-> Len(P[At(i)])]
<1>6. \A i \in J : At(i) \in 1..n /\ kx[At(i)] = i
  BY <1>4
<1>7. \A k \in 1..n : At(kx[k]) = k /\ turn[kx[k]] = Len(P[k])
  <2>1. ASSUME NEW k \in 1..n PROVE At(kx[k]) = k
    <3>. DEFINE j == At(kx[k])
    <3>1. j \in 1..n /\ kx[j] = kx[k] /\ kx[k] \in 1..Len(s)
      BY <1>2, <1>6
    <3>. HIDE DEF j
    <3>2. ~(j < k) /\ ~(k < j)
      BY <1>2, <3>1
    <3>. QED BY <1>2, <3>1, <3>2 DEF j
  <2>. QED BY <1>2, <2>1
<1>. HIDE DEF At
<1>8. \A i \in J : turn[i] = Len(P[At(i)])
  OBVIOUS
<1>9. turn \in [J -> 1..Len(merged)]
  <2>1. ASSUME NEW i \in J PROVE Len(P[At(i)]) \in 1..Len(merged)
    <3>1. At(i) \in 1..n /\ At(i) \in 0..n /\ n \in 0..n /\ At(i) > 0
      BY <1>2, <1>6
    <3>2. Len(P[At(i)]) \in Nat /\ Len(P[At(i)]) > 0 /\ Len(P[At(i)]) <= Len(P[n])
      BY <1>3, <3>1, MergeNumbers
    <3>. QED BY <1>1, <1>5, <3>2
  <2>. QED BY <2>1
<1>. HIDE DEF turn
<1>10. ASSUME NEW i \in J, NEW j \in J, i < j, \A k \in J : k <= i \/ k >= j
       PROVE  turn[j] = IF set.merge /\ SameVoice(s[i], s[j]) THEN turn[i] ELSE turn[i] + 1
  <2>. DEFINE a == At(i)
              b == At(j)
  <2>1. a \in 1..n /\ b \in 1..n /\ kx[a] = i /\ kx[b] = j
    BY <1>6
  <2>2. turn[i] = Len(P[a]) /\ turn[j] = Len(P[b]) /\ d[a] = s[i] /\ d[b] = s[j]
    BY <1>2, <1>8, <2>1
  <2>. HIDE DEF a, b
  <2>3. a < b
    BY <1>2, <1>10, <2>1
  <2>4. b = a + 1
    <3>. SUFFICES ASSUME a + 1 < b PROVE FALSE
      BY <1>2, <2>1, <2>3
    <3>1. a + 1 \in 1..n /\ a < a + 1
      BY <1>2, <2>1, <2>3
    <3>2. kx[a+1] \in J /\ kx[a+1] \in 1..Len(s) /\ kx[a] < kx[a+1] /\ kx[a+1] < kx[b]
      BY <1>2, <2>1, <3>1
    <3>3. kx[a+1] <= i \/ kx[a+1] >= j
      BY <1>10, <3>2
    <3>4. i \in Int /\ j \in Int
      BY <1>2, <2>1
    <3>. QED BY <2>1, <3>2, <3>3, <3>4
  <2>5. a \in 0..n-1 /\ a + 1 > 1 /\ (a + 1) - 1 = a
    BY <1>2, <2>1, <2>3, <2>4
  <2>6. Joining(set, d, a+1) <=> set.merge /\ SameVoice(s[i], s[j])
    BY <2>2, <2>4, <2>5 DEF Joining
  <2>7. CASE Joining(set, d, a+1)
    <3>1. MergedInto(P[a], P[a+1], d[a+1])
      BY <1>3, <2>5, <2>7, MergeSteps
    <3>. QED BY <2>2, <2>4, <2>6, <2>7, <3>1 DEF MergedInto
  <2>8. CASE ~Joining(set, d, a+1)
    <3>1. MergedAfter(P[a], P[a+1], d[a+1])
      BY <1>3, <2>5, <2>8, MergeSteps
    <3>. QED BY <2>2, <2>4, <2>6, <2>8, <3>1 DEF MergedAfter
  <2>. QED BY <2>7, <2>8
<1>11. ASSUME NEW m \in 1..Len(merged) PROVE WholeLine(s, J, turn, merged, m)
  <2>. DEFINE Of == {i \in J : turn[i] = m}
  <2>1. PICK a, b : JoinedFrom(P, d, kx, Y, n, m, a, b)
    BY <1>1, AllJoined DEF LinesJoined
  <2>2. /\ a \in 1..n /\ b \in 1..n /\ a <= b
        /\ \A j \in 1..n : Len(P[j]) = m <=> a <= j /\ j <= b
        /\ merged[m] = [d[a] EXCEPT !.text = Y[m][kx[b]], !.to = d[b].to]
    BY <1>1, <2>1 DEF JoinedFrom
  <2>3. \A j \in 1..n : kx[j] \in Of <=> a <= j /\ j <= b
    BY <1>2, <1>7, <2>2
  <2>4. kx[a] \in Of /\ kx[b] \in Of /\ Of # {} /\ Of \subseteq Int
    <3>1. a <= a /\ b <= b
      BY <2>2
    <3>. QED BY <1>2, <2>2, <2>3, <3>1
  <2>5. \A i \in Of : kx[a] <= i /\ i <= kx[b]
    <3>1. ASSUME NEW i \in Of PROVE kx[a] <= i /\ i <= kx[b]
      <4>1. At(i) \in 1..n /\ kx[At(i)] = i
        BY <1>6
      <4>2. a <= At(i) /\ At(i) <= b
        BY <2>3, <4>1
      <4>. QED BY <1>2, <2>2, <4>1, <4>2
    <3>. QED BY <3>1
  <2>6. Min(Of) = kx[a] /\ Max(Of) = kx[b]
    <3>. HIDE DEF Of
    <3>. QED BY <2>4, <2>5, LeastAndGreatest
  <2>7. d[a] = s[kx[a]] /\ d[b] = s[kx[b]] /\ kx[b] \in 1..Len(s)
    BY <1>2, <2>2
  <2>8. m \in Nat
    BY <1>5
  <2>9. [i \in 1..Len(s) |-> IF i \in Of THEN s[i].text ELSE <<>>] = Parts(P, m, kx, d, s)
    <3>1. ASSUME NEW i \in 1..Len(s)
          PROVE  i \in Of <=> \E k \in 1..n : kx[k] = i /\ Len(P[k]) = m
      <4>1. ASSUME i \in Of
            PROVE  \E k \in 1..n : kx[k] = i /\ Len(P[k]) = m
        <5>1. i \in J /\ turn[i] = m
          BY <4>1
        <5>2. At(i) \in 1..n /\ kx[At(i)] = i
          BY <1>6, <5>1
        <5>. QED BY <1>7, <5>1, <5>2
      <4>2. ASSUME NEW k \in 1..n, kx[k] = i, Len(P[k]) = m
            PROVE  i \in Of
        BY <1>2, <1>7, <1>8, <4>2
      <4>. QED BY <4>1, <4>2
    <3>. HIDE DEF Of
    <3>. QED BY <3>1 DEF Parts
  <2>10. FlattenSeq(Parts(P, m, kx, d, s)) = Y[m][Len(s)]
    <3>1. Parts(P, m, kx, d, s) \in Seq(Seq(Words)) /\ Len(Parts(P, m, kx, d, s)) = Len(s)
      BY PartsType
    <3>2. Joins(Y[m], Parts(P, m, kx, d, s), Words)
      BY <1>3, <2>8
    <3>3. FlattenSeq(Parts(P, m, kx, d, s)) = Y[m][Len(Parts(P, m, kx, d, s))]
      BY <3>1, <3>2, FlattenJoins
    <3>. QED BY <3>1, <3>3
  <2>11. Y[m][Len(s)] = Y[m][kx[b]]
    <3>1. NoPart(P, d, kx, m, kx[b], Len(s))
      <4>1. ASSUME NEW k \in 1..n, Len(P[k]) = m, kx[b] < kx[k] PROVE FALSE
        <5>1. k <= b /\ b < k
          BY <1>2, <2>2, <4>1
        <5>. QED BY <2>2, <5>1
      <4>. QED BY <4>1 DEF NoPart
    <3>2. kx[b] \in 0..Len(s) /\ Len(s) \in 0..Len(s) /\ kx[b] <= Len(s)
      BY <1>2, <2>7
    <3>. QED BY <1>1, <2>8, <3>1, <3>2, MergingGap
  <2>. HIDE DEF Of
  <2>12. merged[m] = [s[Min(Of)] EXCEPT
            !.text = FlattenSeq([i \in 1..Len(s) |-> IF i \in Of THEN s[i].text ELSE <<>>]),
            !.to = s[Max(Of)].to]
    BY <2>2, <2>6, <2>7, <2>9, <2>10, <2>11
  <2>. QED BY <2>4, <2>12 DEF WholeLine, Of
<1>12. Turns(set, s, J, turn, merged)
  BY <1>9, <1>10, <1>11 DEF Turns
<1>. QED BY <1>5, <1>12 DEF merged

\* What a clean leaves is what Listed says, for any settings and lines.
LEMMA CleanedLinesListed ==
  ASSUME NEW set, set.window \in Nat, NEW all \in Seq(SpokenLine),
         \A i, j \in 1..Len(all) : i < j => all[i].from <= all[j].from
  PROVE  CleanedLines(set, all) \in Seq(SpokenLine) /\ Listed(set, all, CleanedLines(set, all))
<1>. DEFINE s == StripPatterns(all)
            told == DropShortLines(set, DropHallucinations(set, DropEmpty(s)))
            distinct == DropRepeats(set, DropDuplicateSegments(set, told))
            cleaned == CleanedLines(set, all)
<1>1. /\ s \in Seq(SpokenLine) /\ Len(s) = Len(all) /\ DOMAIN all = 1..Len(all)
      /\ Len(all) \in Nat
      /\ \A i \in 1..Len(all) : s[i] = [all[i] EXCEPT !.text = WithoutNoise(@)]
      /\ \A i \in 1..Len(all) : s[i].from = all[i].from
  <2>1. DOMAIN all = 1..Len(all) /\ Len(all) \in Nat
    OBVIOUS
  <2>. HIDE DEF s
  <2>2. /\ s \in Seq(SpokenLine) /\ Len(s) = Len(all)
        /\ \A i \in 1..Len(all) : /\ s[i] = [all[i] EXCEPT !.text = WithoutNoise(@)]
                                   /\ s[i].from = all[i].from
    BY StrippedLines DEF s
  <2>. QED BY <2>1, <2>2
<1>. HIDE DEF s
<1>2. \A i, j \in 1..Len(s) : i < j => s[i].from <= s[j].from
  BY <1>1
<1>3. /\ distinct \in Seq(SpokenLine)
      /\ \E ix, J : /\ Picks(ix, distinct, s, J) /\ J \subseteq Original(set, s)
                    /\ \A i \in Original(set, s) :
                         i \in J <=> (set.window > 0 => \A j \in J : ~Again(set, s, j, i))
  BY <1>1, <1>2, DistinctPicks
<1>4. cleaned = MergeSameSpeaker(set, distinct)
  BY DEF CleanedLines, s
<1>. HIDE DEF told, distinct
<1>5. PICK ix, J : /\ Picks(ix, distinct, s, J) /\ J \subseteq Original(set, s)
                   /\ \A i \in Original(set, s) :
                        i \in J <=> (set.window > 0 => \A j \in J : ~Again(set, s, j, i))
  BY <1>3
<1>6. Original(set, s) \subseteq Sound(set, s) /\ Sound(set, s) \subseteq 1..Len(s)
  BY DEF Original, Sound
<1>7. cleaned \in Seq(SpokenLine) /\ \E turn : Turns(set, s, J, turn, cleaned)
  BY <1>1, <1>3, <1>4, <1>5, <1>6, MergedTurns
<1>. HIDE DEF cleaned
<1>8. PICK turn : Turns(set, s, J, turn, cleaned)
  BY <1>7
<1>. DEFINE Left(i) == [all[i] EXCEPT !.text = WithoutNoise(@)]
            sound == {i \in DOMAIN all :
                        /\ Left(i).text # <<>> /\ Len(Left(i).text) >= set.min
                        /\ set.hallucinations => ~IsHallucination(set.match, Left(i).text)}
            first == {i \in sound : set.duplicates =>
                        \A j \in sound : j < i => ~SameSegment(Left(j), Left(i))}
            Repeats(i, j) == /\ j < i /\ SameWords(Left(j), Left(i))
                             /\ Left(i).from - Left(j).from <= set.window
            Of(m) == {i \in J : turn[i] = m}
<1>9. \A i \in DOMAIN all : Left(i) = s[i]
  BY <1>1
<1>10. DOMAIN all = 1..Len(s)
  BY <1>1
<1>. HIDE DEF Left
<1>11. sound = Sound(set, s)
  BY <1>9, <1>10 DEF Sound
<1>12. sound \subseteq DOMAIN all
  OBVIOUS
<1>. HIDE DEF sound
<1>13. first = Original(set, s)
  <2>1. \A i, j \in sound : SameSegment(Left(j), Left(i)) <=> SameSegment(s[j], s[i])
    BY <1>9, <1>12
  <2>. QED BY <1>11, <2>1 DEF Original
<1>14. first \subseteq DOMAIN all
  BY <1>12
<1>. HIDE DEF first
<1>15. J \in SUBSET first /\ J \subseteq DOMAIN all
  BY <1>5, <1>13, <1>14
<1>16. ASSUME NEW i \in first
       PROVE  i \in J <=> (set.window > 0 => \A j \in J : ~Repeats(i, j))
  <2>1. \A j \in J : Repeats(i, j) <=> Again(set, s, j, i)
    BY <1>9, <1>14, <1>15 DEF Again
  <2>. HIDE DEF Repeats
  <2>. QED BY <1>5, <1>13, <2>1
<1>17. DOMAIN cleaned = 1..Len(cleaned)
  BY <1>7
<1>18. turn \in [J -> DOMAIN cleaned]
  BY <1>8, <1>17 DEF Turns
<1>19. ASSUME NEW i \in J, NEW j \in J, i < j /\ \A k \in J : k <= i \/ k >= j
       PROVE  turn[j] = IF set.merge /\ SameVoice(Left(i), Left(j)) THEN turn[i] ELSE turn[i] + 1
  BY <1>8, <1>9, <1>15, <1>19 DEF Turns
<1>20. ASSUME NEW m \in DOMAIN cleaned
       PROVE  /\ Of(m) # {}
              /\ cleaned[m] = [Left(Min(Of(m))) EXCEPT
                    !.text = FlattenSeq([i \in DOMAIN all |->
                               IF i \in Of(m) THEN Left(i).text ELSE <<>>]),
                    !.to = Left(Max(Of(m))).to]
  <2>1. /\ Of(m) # {}
        /\ cleaned[m] = [s[Min(Of(m))] EXCEPT
              !.text = FlattenSeq([i \in 1..Len(s) |-> IF i \in Of(m) THEN s[i].text ELSE <<>>]),
              !.to = s[Max(Of(m))].to]
    BY <1>8, <1>17 DEF Turns, WholeLine
  <2>2. Of(m) \in SUBSET (1..Len(s)) /\ Len(s) \in Nat
    BY <1>1, <1>10, <1>15
  <2>3. Min(Of(m)) \in DOMAIN all /\ Max(Of(m)) \in DOMAIN all
    <3>. DEFINE T == Of(m)
    <3>1. T # {} /\ T \in SUBSET (1..Len(s)) /\ T \subseteq Nat
      BY <2>1, <2>2
    <3>. HIDE DEF T
    <3>2. Max(T) \in T
      BY <2>2, <3>1, MaxIn
    <3>3. PICK x \in T : \A y \in T : x <= y
      BY <3>1, LeastExists
    <3>4. Min(T) \in T
      BY <3>3 DEF Min
    <3>5. Min(T) \in DOMAIN all /\ Max(T) \in DOMAIN all
      BY <1>10, <3>1, <3>2, <3>4
    <3>. QED BY <3>5 DEF T
  <2>4. [i \in 1..Len(s) |-> IF i \in Of(m) THEN s[i].text ELSE <<>>]
          = [i \in DOMAIN all |-> IF i \in Of(m) THEN Left(i).text ELSE <<>>]
    BY <1>9, <1>10
  <2>5. Left(Min(Of(m))) = s[Min(Of(m))] /\ Left(Max(Of(m))) = s[Max(Of(m))]
    BY <1>9, <2>3
  <2>. HIDE DEF Of
  <2>. QED BY <2>1, <2>4, <2>5
<1>21. Listed(set, all, cleaned)
  <2>. HIDE DEF Repeats, Of
  <2>. SUFFICES \E kept \in SUBSET first :
          /\ \A i \in first : i \in kept <=> (set.window > 0 => \A j \in kept : ~Repeats(i, j))
          /\ \E at \in [kept -> DOMAIN cleaned] :
                /\ \A i, j \in kept : i < j /\ (\A k \in kept : k <= i \/ k >= j) =>
                      at[j] = IF set.merge /\ SameVoice(Left(i), Left(j)) THEN at[i] ELSE at[i] + 1
                /\ \A m \in DOMAIN cleaned :
                      /\ {i \in kept : at[i] = m} # {}
                      /\ cleaned[m] = [Left(Min({i \in kept : at[i] = m})) EXCEPT
                            !.text = FlattenSeq([i \in DOMAIN all |->
                                       IF i \in {i2 \in kept : at[i2] = m} THEN Left(i).text ELSE <<>>]),
                            !.to = Left(Max({i \in kept : at[i] = m})).to]
    BY DEF Listed, first, sound, Left, Repeats
  <2>1. \A m \in DOMAIN cleaned :
            /\ {i \in J : turn[i] = m} # {}
            /\ cleaned[m] = [Left(Min({i \in J : turn[i] = m})) EXCEPT
                  !.text = FlattenSeq([i \in DOMAIN all |->
                             IF i \in {i2 \in J : turn[i2] = m} THEN Left(i).text ELSE <<>>]),
                  !.to = Left(Max({i \in J : turn[i] = m})).to]
    BY <1>20 DEF Of
  <2>. QED BY <1>15, <1>16, <1>18, <1>19, <2>1
<1>. QED BY <1>7, <1>21 DEF cleaned
-----------------------------------------------------------------------------
(* The turns of a file *)

Reading == [turns : Seq(SpokenLine), who : People \cup {Absent}, text : Seq(Words), at : Nat]

ReadRow(reading, row, offset, timed) ==
    IF row.turn
    THEN [turns |-> Flush(reading), who |-> row.is.who, text |-> row.is.text,
          at |-> IF timed THEN offset + row.is.at ELSE reading.at]
    ELSE [reading EXCEPT !.text = @ \o row.is]

NothingRead(offset) == [turns |-> <<>>, who |-> Absent, text |-> <<>>, at |-> offset]

Reads(P, file, offset, timed) ==
    /\ P \in [0..Len(file) -> Reading]
    /\ P[0] = NothingRead(offset)
    /\ \A k \in 0..Len(file)-1 : P[k+1] = ReadRow(P[k], file[k+1], offset, timed)

\* A row says a text, and who begins a turn is somebody or nobody.
LEMMA RowType ==
  ASSUME NEW row \in Rows
  PROVE  IF row.turn THEN /\ row.is.who \in People \cup {Absent} /\ row.is.text \in Seq(Words)
                          /\ row.is.at \in Nat
                     ELSE row.is \in Seq(Words)
<1>1. Written \subseteq Seq(Words) /\ Starts \subseteq Nat
  BY TextAssumption
<1>. QED BY <1>1 DEF Rows, TurnRows

\* Flush leaves lines.
LEMMA FlushType ==
  ASSUME NEW reading \in Reading
  PROVE  Flush(reading) \in Seq(SpokenLine)
<1>1. reading.who # Absent =>
        TextLine(reading.who, Absent, reading.text, reading.at, reading.at) \in SpokenLine
  BY DEF Reading, TextLine, SpokenLine
<1>2. reading.turns \in Seq(SpokenLine)
  BY DEF Reading
<1>3. CASE reading.who = Absent
  BY <1>2, <1>3 DEF Flush
<1>4. CASE reading.who # Absent
  <2>. DEFINE line == TextLine(reading.who, Absent, reading.text, reading.at, reading.at)
  <2>1. Flush(reading) = Append(reading.turns, line) /\ line \in SpokenLine
    BY <1>1, <1>4 DEF Flush
  <2>. HIDE DEF line
  <2>. QED BY <1>2, <2>1
<1>. QED BY <1>3, <1>4

\* A row that is read leaves a reading.
LEMMA ReadRowType ==
  ASSUME NEW reading \in Reading, NEW row \in Rows, NEW offset \in Nat, NEW timed \in BOOLEAN
  PROVE  ReadRow(reading, row, offset, timed) \in Reading
<1>1. CASE row.turn
  <2>1. /\ row.is.who \in People \cup {Absent} /\ row.is.text \in Seq(Words)
        /\ row.is.at \in Nat
    BY <1>1, RowType
  <2>2. Flush(reading) \in Seq(SpokenLine) /\ reading.at \in Nat
    BY FlushType DEF Reading
  <2>3. (IF timed THEN offset + row.is.at ELSE reading.at) \in Nat
    BY <2>1, <2>2
  <2>. DEFINE at == IF timed THEN offset + row.is.at ELSE reading.at
  <2>4. ReadRow(reading, row, offset, timed) =
          [turns |-> Flush(reading), who |-> row.is.who, text |-> row.is.text, at |-> at]
    BY <1>1 DEF ReadRow
  <2>. HIDE DEF at
  <2>. QED BY <2>1, <2>2, <2>3, <2>4 DEF Reading, at
<1>2. CASE ~row.turn
  <2>1. row.is \in Seq(Words) /\ reading.text \in Seq(Words)
    BY <1>2, RowType DEF Reading
  <2>2. reading.text \o row.is \in Seq(Words)
    BY <2>1, ConcatProperties
  <2>3. ReadRow(reading, row, offset, timed) = [reading EXCEPT !.text = @ \o row.is]
    BY <1>2 DEF ReadRow
  <2>. QED BY <2>2, <2>3 DEF Reading
<1>. QED BY <1>1, <1>2

\* Collected is a walk that reads one row at a time.
LEMMA ReadWalk ==
  ASSUME NEW file \in Seq(Rows), NEW offset \in Nat, NEW timed \in BOOLEAN
  PROVE  \E P : Reads(P, file, offset, timed) /\ P[Len(file)] = Collected(file, offset, timed)
<1>. DEFINE n == Len(file)
            V == Reading
            base == NothingRead(offset)
            F == [k \in 1..n |-> [v \in V |-> ReadRow(v, file[k], offset, timed)]]
            Is(g) == g = [S \in SUBSET DOMAIN file |->
                            IF S = {} THEN [turns |-> <<>>, who |-> Absent, text |-> <<>>, at |-> offset]
                            ELSE IF file[Max(S)].turn
                                 THEN [turns |-> Flush(g[S \ {Max(S)}]), who |-> file[Max(S)].is.who,
                                       text |-> file[Max(S)].is.text,
                                       at |-> IF timed THEN offset + file[Max(S)].is.at
                                              ELSE g[S \ {Max(S)}].at]
                                 ELSE [g[S \ {Max(S)}] EXCEPT !.text = @ \o file[Max(S)].is]]
            it == CHOOSE g : Is(g)
<1>1. Collected(file, offset, timed) = it[DOMAIN file]
  BY DEF Collected, FoldLeft, MapThenFoldSet
<1>2. n \in Nat /\ DOMAIN file = 1..n /\ base \in V /\ F \in [1..n -> [V -> V]]
  <2>1. ASSUME NEW k \in 1..n, NEW v \in V PROVE ReadRow(v, file[k], offset, timed) \in V
    <3>1. file[k] \in Rows
      OBVIOUS
    <3>. QED BY <3>1, ReadRowType
  <2>2. base \in V
    BY DEF NothingRead, Reading
  <2>. HIDE DEF V, base
  <2>3. \A k \in 1..n : [v \in V |-> ReadRow(v, file[k], offset, timed)] \in [V -> V]
    BY <2>1
  <2>. QED BY <2>2, <2>3
<1>3. \A k \in 1..n, v \in V : F[k][v] = ReadRow(v, file[k], offset, timed)
  <2>. HIDE DEF V
  <2>. QED OBVIOUS
<1>. HIDE DEF F, V, base
<1>4. PICK g \in [SUBSET (1..n) -> V] : Follows(g, n, V, base, F)
  <2>. HIDE DEF n
  <2>. QED BY <1>2, FollowExists
<1>5. Is(g)
  <2>1. ASSUME NEW S \in SUBSET (1..n), S # {}
        PROVE  g[S] = ReadRow(g[S \ {Max(S)}], file[Max(S)], offset, timed)
    <3>1. Max(S) \in 1..n /\ S \ {Max(S)} \in SUBSET (1..n)
      BY <1>2, <2>1, MaxOf
    <3>2. g[S \ {Max(S)}] \in V
      BY <3>1
    <3>. QED BY <1>3, <1>4, <2>1, <3>1, <3>2 DEF Follows
  <2>2. g[{}] = base
    BY <1>4 DEF Follows
  <2>. QED BY <1>2, <2>1, <2>2 DEF ReadRow, NothingRead, base
<1>6. Is(it)
  <2>. HIDE DEF Is
  <2>. QED BY <1>5
<1>7. Follows(it, n, V, base, F)
  <2>. HIDE DEF it
  <2>1. ASSUME NEW S \in SUBSET (1..n), S # {}
        PROVE  it[S] = ReadRow(it[S \ {Max(S)}], file[Max(S)], offset, timed)
    BY <1>2, <1>6, <2>1 DEF ReadRow
  <2>2. it[{}] = base
    BY <1>6 DEF base, NothingRead
  <2>. HIDE DEF Is
  <2>3. ASSUME NEW S \in SUBSET (1..n), S # {}, it[S \ {Max(S)}] \in V
        PROVE  it[S] = F[Max(S)][it[S \ {Max(S)}]]
    <3>1. Max(S) \in 1..n
      BY <1>2, <2>3, MaxOf
    <3>. QED BY <1>3, <2>1, <2>3, <3>1
  <2>. QED BY <2>2, <2>3 DEF Follows
<1>. HIDE DEF it, Is
<1>8. PICK P : Walks(P, n, V, base, F) /\ P[n] = it[1..n]
  <2>. HIDE DEF n
  <2>. QED BY <1>2, <1>7, FoldWalk
<1>9. \A k \in 0..n-1 : P[k+1] = ReadRow(P[k], file[k+1], offset, timed)
  <2>1. ASSUME NEW k \in 0..n-1 PROVE P[k+1] = ReadRow(P[k], file[k+1], offset, timed)
    <3>1. k \in 0..n /\ k + 1 \in 1..n
      BY <1>2
    <3>2. P[k] \in V /\ P[k+1] = F[k+1][P[k]]
      BY <1>8, <3>1 DEF Walks
    <3>. QED BY <1>3, <3>1, <3>2
  <2>. QED BY <2>1
<1>10. Reads(P, file, offset, timed)
  BY <1>8, <1>9 DEF Reads, Walks, V, base
<1>. QED BY <1>1, <1>2, <1>8, <1>10

\* Row k goes on with the turn that row i begins, and what a row says.
GoesOn(file, i, k) == i <= k /\ \A j \in i + 1 .. k : ~file[j].turn
RowSays(file, k) == IF file[k].turn THEN file[k].is.text ELSE file[k].is
RowParts(file, i) ==
    [k \in 1..Len(file) |-> IF GoesOn(file, i, k) THEN RowSays(file, k) ELSE <<>>]
NamedRows(file) == {i \in 1..Len(file) : file[i].turn /\ file[i].is.who # Absent}
RowTime(file, i, offset, timed) ==
    IF timed /\ file[i].turn THEN offset + file[i].is.at ELSE offset

\* The turn that each row begins, as far as k rows go on with it.
TurnLine(file, Y, k, i, offset, timed) ==
    TextLine(IF file[i].turn THEN file[i].is.who ELSE Absent, Absent, Y[i][k],
             RowTime(file, i, offset, timed), RowTime(file, i, offset, timed))
TurnLines(file, Y, k, offset, timed) ==
    [i \in 1..Len(file) |-> TurnLine(file, Y, k, i, offset, timed)]
AnyLine == [who : People \cup {Absent}, track : Tracks \cup {Absent}, text : Seq(Words),
            from : Nat, to : Nat]

ReadingOf(P, Y, file, offset, timed) ==
    /\ file \in Seq(Rows) /\ offset \in Nat /\ timed \in BOOLEAN
    /\ Reads(P, file, offset, timed)
    /\ \A i \in 1..Len(file) : Joins(Y[i], RowParts(file, i), Words)

\* The texts under a row are texts.
LEMMA RowPartsType ==
  ASSUME NEW file \in Seq(Rows), NEW i
  PROVE  /\ RowParts(file, i) \in Seq(Seq(Words)) /\ Len(RowParts(file, i)) = Len(file)
         /\ \A k \in 1..Len(file) : RowSays(file, k) \in Seq(Words)
<1>1. Len(file) \in Nat /\ \A k \in 1..Len(file) : RowSays(file, k) \in Seq(Words)
  <2>1. ASSUME NEW k \in 1..Len(file) PROVE RowSays(file, k) \in Seq(Words)
    <3>1. file[k] \in Rows
      OBVIOUS
    <3>. QED BY <3>1, RowType DEF RowSays
  <2>. QED BY <2>1
<1>. DEFINE V == Seq(Words)
<1>2. <<>> \in V
  OBVIOUS
<1>3. RowParts(file, i) \in [1..Len(file) -> V]
  <2>. HIDE DEF V
  <2>. QED BY <1>1, <1>2 DEF RowParts, V
<1>. HIDE DEF V
<1>. QED BY <1>1, <1>3 DEF V

\* Before the first row nothing is read.
LEMMA ReadingStarts ==
  ASSUME NEW file \in Seq(Rows), NEW offset \in Nat, NEW timed \in BOOLEAN
  PROVE  \E P, Y : ReadingOf(P, Y, file, offset, timed) /\ P[Len(file)] = Collected(file, offset, timed)
<1>1. PICK P : Reads(P, file, offset, timed) /\ P[Len(file)] = Collected(file, offset, timed)
  BY ReadWalk
<1>. DEFINE Y == [i \in 1..Len(file) |-> CHOOSE Q : Joins(Q, RowParts(file, i), Words)]
<1>2. ASSUME NEW i \in 1..Len(file) PROVE Joins(Y[i], RowParts(file, i), Words)
  <2>1. \E Q : Joins(Q, RowParts(file, i), Words)
    BY RowPartsType, JoinsExist
  <2>. QED BY <2>1
<1>. HIDE DEF Y
<1>3. ReadingOf(P, Y, file, offset, timed)
  BY <1>1, <1>2 DEF ReadingOf
<1>. QED BY <1>1, <1>3

\* How a row adds to the text of a turn.
AddsRow(Y, file, i, k) ==
    Y[i][k+1] = IF GoesOn(file, i, k+1) THEN Y[i][k] \o RowSays(file, k+1) ELSE Y[i][k]

\* A row that goes on adds its text to the turn that is open, and to no other.
LEMMA RowAdds ==
  ASSUME NEW P, NEW Y, NEW file, NEW offset, NEW timed, ReadingOf(P, Y, file, offset, timed),
         NEW i \in 1..Len(file), NEW k \in 0..Len(file)-1
  PROVE  AddsRow(Y, file, i, k) /\ Y[i][k] \in Seq(Words) /\ Y[i][0] = <<>>
<1>. DEFINE parts == RowParts(file, i)
<1>1. Joins(Y[i], parts, Words) /\ Len(parts) = Len(file) /\ Len(file) \in Nat
  BY RowPartsType DEF ReadingOf
<1>2. k + 1 \in 1..Len(file) /\ k \in 0..Len(file)
  BY <1>1
<1>3. parts[k+1] = IF GoesOn(file, i, k+1) THEN RowSays(file, k+1) ELSE <<>>
  BY <1>2 DEF RowParts
<1>. HIDE DEF parts
<1>4. Y[i][k+1] = Y[i][k] \o parts[k+1] /\ Y[i][k] \in Seq(Words) /\ Y[i][0] = <<>>
  BY <1>1, <1>2 DEF Joins
<1>5. Y[i][k] \o <<>> = Y[i][k]
  BY <1>4, ConcatEmptySeq
<1>. QED BY <1>3, <1>4, <1>5 DEF AddsRow

\* Nothing is said in a turn before the row that begins it.
LEMMA NothingBefore ==
  ASSUME NEW P, NEW Y, NEW file, NEW offset, NEW timed, ReadingOf(P, Y, file, offset, timed),
         NEW i \in 1..Len(file)
  PROVE  Y[i][i-1] = <<>>
<1>. DEFINE parts == RowParts(file, i)
<1>1. Joins(Y[i], parts, Words) /\ Len(parts) = Len(file) /\ Len(file) \in Nat
  BY RowPartsType DEF ReadingOf
<1>2. \A k \in 1..Len(parts) : 0 < k /\ k <= i - 1 => parts[k] = <<>>
  <2>1. ASSUME NEW k \in 1..Len(file), k <= i - 1 PROVE parts[k] = <<>>
    <3>1. ~(i <= k)
      BY <1>1, <2>1
    <3>. QED BY <3>1 DEF RowParts, GoesOn
  <2>. HIDE DEF parts
  <2>. QED BY <1>1, <2>1
<1>. HIDE DEF parts
<1>3. 0 \in 0..Len(parts) /\ i - 1 \in 0..Len(parts) /\ 0 <= i - 1 /\ Len(parts) \in Nat
  BY <1>1
<1>4. ASSUME NEW b \in 0..Len(parts), b = i - 1 PROVE Y[i][b] = Y[i][0]
  <2>1. 0 <= b /\ \A k \in 1..Len(parts) : 0 < k /\ k <= b => parts[k] = <<>>
    BY <1>2, <1>4
  <2>. QED BY <1>1, <1>3, <2>1, JoinsGap
<1>5. Y[i][0] = <<>>
  BY <1>1 DEF Joins
<1>. QED BY <1>3, <1>4, <1>5

\* The turns of a file are lines.
LEMMA TurnLinesType ==
  ASSUME NEW P, NEW Y, NEW file, NEW offset, NEW timed, ReadingOf(P, Y, file, offset, timed),
         NEW k \in 0..Len(file)
  PROVE  TurnLines(file, Y, k, offset, timed) \in Seq(AnyLine)
         /\ Len(TurnLines(file, Y, k, offset, timed)) = Len(file)
<1>1. file \in Seq(Rows) /\ Len(file) \in Nat /\ offset \in Nat /\ timed \in BOOLEAN
  BY DEF ReadingOf
<1>2. ASSUME NEW i \in 1..Len(file) PROVE TurnLine(file, Y, k, i, offset, timed) \in AnyLine
  <2>1. Joins(Y[i], RowParts(file, i), Words) /\ Len(RowParts(file, i)) = Len(file)
    BY <1>1, RowPartsType DEF ReadingOf
  <2>2. Y[i][k] \in Seq(Words)
    BY <2>1 DEF Joins
  <2>3. file[i] \in Rows
    BY <1>1
  <2>4. file[i].turn => file[i].is.who \in People \cup {Absent} /\ file[i].is.at \in Nat
    BY <2>3, RowType
  <2>5. RowTime(file, i, offset, timed) \in Nat
    BY <1>1, <2>4 DEF RowTime
  <2>6. (IF file[i].turn THEN file[i].is.who ELSE Absent) \in People \cup {Absent}
    BY <2>4
  <2>. QED BY <2>2, <2>5, <2>6 DEF TurnLine, TextLine, AnyLine
<1>3. TurnLines(file, Y, k, offset, timed) \in [1..Len(file) -> AnyLine]
  BY <1>2 DEF TurnLines
<1>. QED BY <1>1, <1>3

\* To pick from a sequence is to pick from one that is the same where it is picked.
LEMMA PicksSame ==
  ASSUME NEW t, NEW s, NEW s2, NEW ix, NEW K, Picks(ix, t, s, K), \A i \in K : s2[i] = s[i]
  PROVE  Picks(ix, t, s2, K)
<1>1. \A a \in 1..Len(t) : ix[a] \in K
  BY DEF Picks
<1>. QED BY <1>1 DEF Picks

\* After k rows the turn of row i is open: those before it are kept, and it says all since.
ReadUpTo(P, Y, file, offset, timed, k, i) ==
    /\ i \in 0..k
    /\ i > 0 => file[i].turn /\ P[k].who = file[i].is.who /\ P[k].text = Y[i][k]
    /\ i = 0 => P[k].who = Absent
    /\ P[k].at = IF i > 0 THEN RowTime(file, i, offset, timed) ELSE offset
    /\ \A j \in i+1 .. k : ~file[j].turn
    /\ \E jx : Picks(jx, P[k].turns, TurnLines(file, Y, k, offset, timed), NamedRows(file) \cap (1..i-1))

LEMMA FlushPicks ==
  ASSUME NEW P, NEW Y, NEW file, NEW offset, NEW timed, ReadingOf(P, Y, file, offset, timed),
         NEW k \in 0..Len(file), NEW i, ReadUpTo(P, Y, file, offset, timed, k, i)
  PROVE  \E ix : Picks(ix, Flush(P[k]), TurnLines(file, Y, k, offset, timed), NamedRows(file) \cap (1..k))
<1>. DEFINE begun == TurnLines(file, Y, k, offset, timed)
            named == NamedRows(file)
<1>1. /\ Len(file) \in Nat /\ P[k] \in Reading
      /\ begun \in Seq(AnyLine) /\ Len(begun) = Len(file)
  BY TurnLinesType DEF ReadingOf, Reads
<1>2. /\ i \in 0..k /\ k \in Nat /\ k <= Len(file) /\ i \in Nat
      /\ i > 0 => file[i].turn /\ P[k].who = file[i].is.who /\ P[k].text = Y[i][k]
      /\ i = 0 => P[k].who = Absent
      /\ i > 0 => P[k].at = RowTime(file, i, offset, timed)
      /\ \A j \in i+1 .. k : ~file[j].turn
  BY DEF ReadUpTo
<1>3. PICK jx : Picks(jx, P[k].turns, begun, named \cap (1..i-1))
  BY DEF ReadUpTo
<1>. HIDE DEF begun, named
<1>4. \A j \in 1..k : j \in 1..i-1 \/ j = i \/ j \in i+1..k
  BY <1>2
<1>5. \A j \in i+1..k : j \notin named
  BY <1>2 DEF NamedRows, named
<1>6. CASE P[k].who = Absent
  <2>1. i \notin named
    <3>1. i \in named => i > 0 /\ file[i].is.who # Absent
      BY <1>2 DEF NamedRows, named
    <3>. QED BY <1>2, <1>6, <3>1
  <2>2. named \cap (1..k) = named \cap (1..i-1)
    <3>1. \A j \in 1..i-1 : j \in 1..k
      BY <1>2
    <3>. QED BY <1>4, <1>5, <2>1, <3>1
  <2>3. Flush(P[k]) = P[k].turns
    BY <1>6 DEF Flush
  <2>. QED BY <1>3, <2>2, <2>3 DEF begun, named
<1>7. CASE P[k].who # Absent
  <2>1. i > 0 /\ i \in 1..Len(file) /\ i - 1 \in 0..Len(begun)-1 /\ (i - 1) + 1 = i
    BY <1>1, <1>2, <1>7
  <2>2. i \in named
    BY <1>2, <1>7, <2>1 DEF NamedRows, named
  <2>3. named \cap (1..k) = (named \cap (1..i-1)) \cup {i}
    <3>1. \A j \in 1..i-1 : j \in 1..k
      BY <1>2
    <3>2. i \in 1..k
      BY <1>2, <2>1
    <3>. QED BY <1>4, <1>5, <2>2, <3>1, <3>2
  <2>4. Flush(P[k]) = Append(P[k].turns, begun[i])
    BY <1>2, <1>7, <2>1 DEF Flush, begun, TurnLines, TurnLine
  <2>5. P[k].turns \in Seq(AnyLine)
    <3>1. SpokenLine \subseteq AnyLine
      BY DEF SpokenLine, AnyLine
    <3>2. P[k].turns \in Seq(SpokenLine)
      BY <1>1 DEF Reading
    <3>. QED BY <3>1, <3>2, SeqMonotonic
  <2>6. \E ix : Picks(ix, Append(P[k].turns, begun[(i-1)+1]), begun, (named \cap (1..i-1)) \cup {(i-1)+1})
    <3>1. named \cap (1..i-1) \in SUBSET (1..i-1)
      OBVIOUS
    <3>. QED BY <1>1, <1>3, <2>1, <2>5, <3>1, PicksNext
  <2>. QED BY <2>1, <2>3, <2>4, <2>6 DEF begun, named
<1>. QED BY <1>6, <1>7

\* Where no row goes on with the turns, they stay what they were.
LEMMA TurnsStay ==
  ASSUME NEW P, NEW Y, NEW file, NEW offset, NEW timed, ReadingOf(P, Y, file, offset, timed),
         NEW k \in 0..Len(file)-1, NEW t, NEW ix, NEW K \in SUBSET (1..Len(file)),
         Picks(ix, t, TurnLines(file, Y, k, offset, timed), K),
         \A i \in K : ~GoesOn(file, i, k+1)
  PROVE  Picks(ix, t, TurnLines(file, Y, k+1, offset, timed), K)
<1>1. ASSUME NEW i \in K
      PROVE  TurnLines(file, Y, k+1, offset, timed)[i] = TurnLines(file, Y, k, offset, timed)[i]
  <2>1. i \in 1..Len(file)
    OBVIOUS
  <2>2. Y[i][k+1] = Y[i][k]
    BY <2>1, RowAdds DEF AddsRow
  <2>. QED BY <2>1, <2>2 DEF TurnLines, TurnLine
<1>. QED BY <1>1, PicksSame

\* A row that begins a turn closes the one before it.
LEMMA ReadTurn ==
  ASSUME NEW P, NEW Y, NEW file, NEW offset, NEW timed, ReadingOf(P, Y, file, offset, timed),
         NEW k \in 0..Len(file)-1, NEW i, ReadUpTo(P, Y, file, offset, timed, k, i),
         file[k+1].turn
  PROVE  ReadUpTo(P, Y, file, offset, timed, k+1, k+1)
<1>. DEFINE i2 == k + 1
<1>1. /\ Len(file) \in Nat /\ k \in Nat /\ k \in 0..Len(file) /\ i2 \in 1..Len(file) /\ i2 \in Nat
      /\ i2 - 1 = k /\ i2 > 0 /\ i2 \in 0..i2
  BY DEF ReadingOf
<1>2. P[i2] = ReadRow(P[k], file[i2], offset, timed)
  BY <1>1 DEF ReadingOf, Reads
<1>3. /\ P[i2].turns = Flush(P[k]) /\ P[i2].who = file[i2].is.who /\ P[i2].text = file[i2].is.text
      /\ P[i2].at = IF timed THEN offset + file[i2].is.at ELSE P[k].at
  BY <1>2 DEF ReadRow
<1>4. P[i2].at = RowTime(file, i2, offset, timed)
  <2>1. ~timed => P[k].at = offset
    BY DEF ReadUpTo, RowTime
  <2>. QED BY <1>3, <2>1 DEF RowTime
<1>5. Y[i2][i2] = file[i2].is.text
  <2>1. AddsRow(Y, file, i2, k)
    BY <1>1, RowAdds
  <2>2. GoesOn(file, i2, i2) /\ RowSays(file, i2) = file[i2].is.text
    BY <1>1 DEF GoesOn, RowSays
  <2>3. Y[i2][i2] = Y[i2][k] \o file[i2].is.text
    BY <2>1, <2>2 DEF AddsRow
  <2>4. Y[i2][k] = <<>>
    <3>. HIDE DEF i2
    <3>1. Y[i2][i2-1] = <<>>
      BY <1>1, NothingBefore
    <3>. QED BY <1>1, <3>1
  <2>5. file[i2].is.text \in Seq(Words)
    <3>1. RowSays(file, i2) \in Seq(Words)
      <4>. HIDE DEF i2
      <4>. QED BY <1>1, RowPartsType DEF ReadingOf
    <3>. QED BY <2>2, <3>1
  <2>6. <<>> \o file[i2].is.text = file[i2].is.text
    BY <2>5, ConcatEmptySeq
  <2>. QED BY <2>3, <2>4, <2>6
<1>6. \E jx : Picks(jx, P[i2].turns, TurnLines(file, Y, i2, offset, timed), NamedRows(file) \cap (1..i2-1))
  <2>1. PICK ix : Picks(ix, Flush(P[k]), TurnLines(file, Y, k, offset, timed), NamedRows(file) \cap (1..k))
    BY <1>1, FlushPicks
  <2>2. NamedRows(file) \cap (1..k) \in SUBSET (1..Len(file))
    BY DEF NamedRows
  <2>3. \A j \in NamedRows(file) \cap (1..k) : ~GoesOn(file, j, k+1)
    <3>1. ASSUME NEW j \in 1..k PROVE ~GoesOn(file, j, k+1)
      <4>1. k + 1 \in j+1 .. k+1
        BY <1>1
      <4>. QED BY <4>1 DEF GoesOn
    <3>. QED BY <3>1
  <2>4. Picks(ix, Flush(P[k]), TurnLines(file, Y, k+1, offset, timed), NamedRows(file) \cap (1..k))
    BY <2>1, <2>2, <2>3, TurnsStay
  <2>. QED BY <1>1, <1>3, <2>4
<1>7. \A j \in i2+1 .. i2 : ~file[j].turn
  BY <1>1
<1>8. /\ i2 > 0 => file[i2].turn /\ P[i2].who = file[i2].is.who /\ P[i2].text = Y[i2][i2]
      /\ i2 = 0 => P[i2].who = Absent
      /\ P[i2].at = IF i2 > 0 THEN RowTime(file, i2, offset, timed) ELSE offset
  BY <1>1, <1>3, <1>4, <1>5
<1>. QED BY <1>1, <1>6, <1>7, <1>8 DEF ReadUpTo

\* A row that goes on leaves the turns that are closed.
LEMMA ReadOn ==
  ASSUME NEW P, NEW Y, NEW file, NEW offset, NEW timed, ReadingOf(P, Y, file, offset, timed),
         NEW k \in 0..Len(file)-1, NEW i, ReadUpTo(P, Y, file, offset, timed, k, i),
         ~file[k+1].turn
  PROVE  ReadUpTo(P, Y, file, offset, timed, k+1, i)
<1>1. /\ Len(file) \in Nat /\ k \in Nat /\ k \in 0..Len(file) /\ k + 1 \in 1..Len(file)
      /\ P[k] \in Reading /\ i \in 0..k+1 /\ i \in Nat /\ i <= k
      /\ i > 0 => i \in 1..Len(file)
  BY DEF ReadingOf, Reads, ReadUpTo
<1>2. P[k+1] = [P[k] EXCEPT !.text = @ \o file[k+1].is]
  <2>1. P[k+1] = ReadRow(P[k], file[k+1], offset, timed)
    BY DEF ReadingOf, Reads
  <2>. QED BY <2>1 DEF ReadRow
<1>3. /\ P[k+1].turns = P[k].turns /\ P[k+1].who = P[k].who /\ P[k+1].at = P[k].at
      /\ P[k+1].text = P[k].text \o file[k+1].is
  BY <1>1, <1>2 DEF Reading
<1>4. \A j \in i+1 .. k+1 : ~file[j].turn
  <2>1. ASSUME NEW j \in i+1 .. k+1 PROVE ~file[j].turn
    <3>1. j = k + 1 \/ j \in i+1 .. k
      BY <1>1
    <3>. QED BY <3>1 DEF ReadUpTo
  <2>. QED BY <2>1
<1>5. ASSUME i > 0 PROVE P[k+1].text = Y[i][k+1]
  <2>1. AddsRow(Y, file, i, k)
    BY <1>1, <1>5, RowAdds
  <2>2. GoesOn(file, i, k+1) /\ RowSays(file, k+1) = file[k+1].is
    BY <1>1, <1>4 DEF GoesOn, RowSays
  <2>3. P[k].text = Y[i][k]
    BY <1>5 DEF ReadUpTo
  <2>. QED BY <1>3, <2>1, <2>2, <2>3 DEF AddsRow
<1>6. \E jx : Picks(jx, P[k+1].turns, TurnLines(file, Y, k+1, offset, timed), NamedRows(file) \cap (1..i-1))
  <2>1. PICK jx : Picks(jx, P[k].turns, TurnLines(file, Y, k, offset, timed), NamedRows(file) \cap (1..i-1))
    BY DEF ReadUpTo
  <2>2. NamedRows(file) \cap (1..i-1) \in SUBSET (1..Len(file))
    BY DEF NamedRows
  <2>3. \A j \in NamedRows(file) \cap (1..i-1) : ~GoesOn(file, j, k+1)
    <3>1. ASSUME NEW j \in 1..i-1 PROVE ~GoesOn(file, j, k+1)
      <4>1. i \in j+1 .. k+1 /\ i > 0
        BY <1>1
      <4>2. file[i].turn
        BY <4>1 DEF ReadUpTo
      <4>. QED BY <4>1, <4>2 DEF GoesOn
    <3>. QED BY <3>1
  <2>4. Picks(jx, P[k].turns, TurnLines(file, Y, k+1, offset, timed), NamedRows(file) \cap (1..i-1))
    BY <2>1, <2>2, <2>3, TurnsStay
  <2>. QED BY <1>3, <2>4
<1>7. /\ i > 0 => file[i].turn /\ P[k+1].who = file[i].is.who
      /\ i = 0 => P[k+1].who = Absent
      /\ P[k+1].at = IF i > 0 THEN RowTime(file, i, offset, timed) ELSE offset
  BY <1>3 DEF ReadUpTo
<1>. QED BY <1>1, <1>4, <1>5, <1>6, <1>7 DEF ReadUpTo

\* After the last row all turns that name a speaker are there.
LEMMA AllRead ==
  ASSUME NEW P, NEW Y, NEW file, NEW offset, NEW timed, ReadingOf(P, Y, file, offset, timed)
  PROVE  \E ix : Picks(ix, Flush(P[Len(file)]), TurnLines(file, Y, Len(file), offset, timed), NamedRows(file))
<1>1. Len(file) \in Nat /\ Len(file) \in 0..Len(file)
  BY DEF ReadingOf
<1>. DEFINE Ok(k) == k <= Len(file) => \E i : ReadUpTo(P, Y, file, offset, timed, k, i)
            N == {k \in Nat : Ok(k)}
<1>2. Ok(0)
  <2>1. P[0] = NothingRead(offset)
    BY DEF ReadingOf, Reads
  <2>2. P[0].turns = <<>> /\ P[0].who = Absent /\ P[0].at = offset
    BY <2>1 DEF NothingRead
  <2>3. Picks([a \in {} |-> 0], P[0].turns, TurnLines(file, Y, 0, offset, timed), NamedRows(file) \cap (1..0-1))
    <3>1. Len(P[0].turns) = 0 /\ 1..0 = {} /\ NamedRows(file) \cap (1..0-1) = {}
      BY <2>2
    <3>. QED BY <3>1 DEF Picks
  <2>4. ReadUpTo(P, Y, file, offset, timed, 0, 0)
    BY <2>2, <2>3 DEF ReadUpTo
  <2>. QED BY <2>4
<1>3. ASSUME NEW k \in Nat, Ok(k) PROVE Ok(k + 1)
  <2>. SUFFICES ASSUME k + 1 <= Len(file)
                PROVE  \E i : ReadUpTo(P, Y, file, offset, timed, k + 1, i)
    OBVIOUS
  <2>1. k \in 0..Len(file)-1 /\ k <= Len(file)
    BY <1>1
  <2>2. PICK i : ReadUpTo(P, Y, file, offset, timed, k, i)
    BY <1>3, <2>1
  <2>3. ReadUpTo(P, Y, file, offset, timed, k+1, k+1) \/ ReadUpTo(P, Y, file, offset, timed, k+1, i)
    BY <2>1, <2>2, ReadTurn, ReadOn
  <2>. QED BY <2>3
<1>. HIDE DEF Ok
<1>4. 0 \in N /\ \A n \in Nat : n \in N => n + 1 \in N
  BY <1>2, <1>3
<1>5. \A k \in Nat : k \in N
  <2>. HIDE DEF N
  <2>. QED BY <1>4, Induct
<1>6. PICK i : ReadUpTo(P, Y, file, offset, timed, Len(file), i)
  <2>1. Ok(Len(file)) /\ Len(file) <= Len(file)
    BY <1>1, <1>5
  <2>. QED BY <2>1 DEF Ok
<1>7. NamedRows(file) \cap (1..Len(file)) = NamedRows(file)
  BY DEF NamedRows
<1>8. \E ix : Picks(ix, Flush(P[Len(file)]), TurnLines(file, Y, Len(file), offset, timed),
                    NamedRows(file) \cap (1..Len(file)))
  BY <1>1, <1>6, FlushPicks
<1>. QED BY <1>7, <1>8

\* The times of a sequence have a bound.
LEMMA BoundExists ==
  ASSUME NEW n \in Nat, NEW f \in [1..n -> Nat]
  PROVE  \E u \in Nat : \A i \in 1..n : f[i] <= u
<1>. DEFINE Ok(k) == k <= n => \E u \in Nat : \A i \in 1..k : f[i] <= u
            N == {k \in Nat : Ok(k)}
<1>1. Ok(0)
  OBVIOUS
<1>2. ASSUME NEW k \in Nat, Ok(k) PROVE Ok(k + 1)
  <2>. SUFFICES ASSUME k + 1 <= n PROVE \E u \in Nat : \A i \in 1..k+1 : f[i] <= u
    OBVIOUS
  <2>1. PICK u \in Nat : \A i \in 1..k : f[i] <= u
    BY <1>2
  <2>2. f[k+1] \in Nat
    OBVIOUS
  <2>. DEFINE v == IF f[k+1] <= u THEN u ELSE f[k+1]
  <2>3. v \in Nat /\ u <= v /\ f[k+1] <= v
    BY <2>2
  <2>. HIDE DEF v
  <2>4. ASSUME NEW i \in 1..k+1 PROVE f[i] <= v
    <3>1. i = k + 1 \/ i \in 1..k
      OBVIOUS
    <3>2. CASE i = k + 1
      BY <2>3, <3>2
    <3>3. CASE i \in 1..k
      <4>1. f[i] \in Nat /\ f[i] <= u
        BY <2>1, <3>3
      <4>. QED BY <2>3, <4>1
    <3>. QED BY <3>1, <3>2, <3>3
  <2>. QED BY <2>3, <2>4
<1>. HIDE DEF Ok
<1>3. 0 \in N /\ \A k \in Nat : k \in N => k + 1 \in N
  BY <1>1, <1>2
<1>4. \A k \in Nat : k \in N
  <2>. HIDE DEF N
  <2>. QED BY <1>3, Induct
<1>5. Ok(n)
  BY <1>4
<1>6. n <= n
  OBVIOUS
<1>. QED BY <1>5, <1>6 DEF Ok

\* An import begins where the transcript ends.
LEMMA OffsetAfter ==
  ASSUME NEW old \in Seq(SpokenLine)
  PROVE  StartOffset(old) \in Nat /\ \A i \in 1..Len(old) : old[i].to <= StartOffset(old)
<1>1. Len(old) \in Nat /\ DOMAIN old = 1..Len(old) /\ \A i \in 1..Len(old) : old[i].to \in Nat
  <2>1. \A i \in 1..Len(old) : old[i] \in SpokenLine
    OBVIOUS
  <2>. QED BY <2>1 DEF SpokenLine
<1>2. CASE old = <<>>
  BY <1>2 DEF StartOffset
<1>3. CASE old # <<>>
  <2>. DEFINE n == Len(old)
              T == {u \in Nat : \A i \in 1..n : old[i].to <= u}
              S == {old[i].to : i \in DOMAIN old}
  <2>1. T \subseteq Nat /\ T # {}
    <3>. DEFINE f == [i \in 1..n |-> old[i].to]
    <3>1. n \in Nat /\ f \in [1..n -> Nat] /\ \A i \in 1..n : f[i] = old[i].to
      BY <1>1
    <3>. HIDE DEF f, n
    <3>2. PICK u \in Nat : \A i \in 1..n : f[i] <= u
      BY <3>1, BoundExists
    <3>. QED BY <3>1, <3>2
  <2>2. PICK u \in T : \A v \in T : u <= v
    <3>. HIDE DEF T
    <3>. QED BY <2>1, LeastExists
  <2>3. u \in Nat /\ \A i \in 1..n : old[i].to \in Nat /\ old[i].to <= u
    BY <1>1, <2>2
  <2>4. \E i \in 1..n : old[i].to = u
    <3>. SUFFICES ASSUME \A i \in 1..n : old[i].to # u PROVE FALSE
      OBVIOUS
    <3>1. \A i \in 1..n : old[i].to <= u - 1
      BY <2>3
    <3>2. 1 \in 1..n
      BY <1>1, <1>3
    <3>3. u - 1 \in Nat
      BY <2>3, <3>1, <3>2
    <3>4. u - 1 \in T
      BY <3>1, <3>3
    <3>. QED BY <2>2, <2>3, <3>4
  <2>5. u \in S /\ \A x \in S : x \in Nat /\ x <= u
    BY <1>1, <2>3, <2>4
  <2>6. Max(S) = u
    <3>. HIDE DEF S, T, n
    <3>1. \A z \in S : (\A x \in S : z >= x) => z = u
      BY <2>3, <2>5
    <3>2. u \in S /\ \A x \in S : u >= x
      BY <2>3, <2>5
    <3>. QED BY <3>1, <3>2, Zenon DEF Max
  <2>7. StartOffset(old) = u
    BY <1>3, <2>6 DEF StartOffset
  <2>. QED BY <2>3, <2>7
<1>. QED BY <1>2, <1>3

\* The turns of a file, in the order of the rows that begin them.
FileTurns(file, offset, timed, turns, ix) ==
    /\ turns \in Seq(SpokenLine)
    /\ ix \in [1..Len(turns) -> NamedRows(file)]
    /\ \A a, b \in 1..Len(turns) : a < b => ix[a] < ix[b]
    /\ \A i \in NamedRows(file) : \E a \in 1..Len(turns) : ix[a] = i
    /\ \A a \in 1..Len(turns) : /\ turns[a].who = file[ix[a]].is.who
                                /\ turns[a].text = FlattenSeq(RowParts(file, ix[a]))
                                /\ offset <= turns[a].from

\* _collect_turns leaves the turns of the rows that name a speaker, each with all its text.
LEMMA TurnsOfFile ==
  ASSUME NEW file \in Seq(Rows), NEW offset \in Nat, NEW timed \in BOOLEAN
  PROVE  \E ix : FileTurns(file, offset, timed, CollectTurns(file, offset, timed), ix)
<1>. DEFINE n == Len(file)
            turns == CollectTurns(file, offset, timed)
<1>1. PICK P, Y : ReadingOf(P, Y, file, offset, timed) /\ P[n] = Collected(file, offset, timed)
  BY ReadingStarts
<1>2. n \in Nat /\ n \in 0..n /\ P[n] \in Reading
  BY <1>1 DEF ReadingOf, Reads
<1>3. turns = Flush(P[n])
  BY <1>1 DEF CollectTurns
<1>4. turns \in Seq(SpokenLine)
  BY <1>2, <1>3, FlushType
<1>. HIDE DEF turns
<1>5. PICK ix : Picks(ix, turns, TurnLines(file, Y, n, offset, timed), NamedRows(file))
  BY <1>1, <1>3, AllRead
<1>6. /\ ix \in [1..Len(turns) -> NamedRows(file)]
      /\ \A a, b \in 1..Len(turns) : a < b => ix[a] < ix[b]
      /\ \A i \in NamedRows(file) : \E a \in 1..Len(turns) : ix[a] = i
      /\ \A a \in 1..Len(turns) : turns[a] = TurnLines(file, Y, n, offset, timed)[ix[a]]
  BY <1>5 DEF Picks
<1>7. ASSUME NEW a \in 1..Len(turns)
      PROVE  /\ turns[a].who = file[ix[a]].is.who
             /\ turns[a].text = FlattenSeq(RowParts(file, ix[a]))
             /\ offset <= turns[a].from
  <2>. DEFINE i == ix[a]
  <2>1. i \in NamedRows(file) /\ i \in 1..n /\ file[i].turn /\ file[i] \in Rows
    BY <1>6 DEF NamedRows
  <2>2. turns[a] = TurnLine(file, Y, n, i, offset, timed)
    BY <1>6, <2>1 DEF TurnLines
  <2>. HIDE DEF i
  <2>3. turns[a].who = file[i].is.who /\ turns[a].text = Y[i][n] /\ turns[a].from = RowTime(file, i, offset, timed)
    BY <2>1, <2>2 DEF TurnLine, TextLine
  <2>4. Y[i][n] = FlattenSeq(RowParts(file, i))
    <3>1. Joins(Y[i], RowParts(file, i), Words)
      BY <1>1, <2>1 DEF ReadingOf
    <3>2. RowParts(file, i) \in Seq(Seq(Words)) /\ Len(RowParts(file, i)) = n
      BY RowPartsType
    <3>3. FlattenSeq(RowParts(file, i)) = Y[i][Len(RowParts(file, i))]
      BY <3>1, <3>2, FlattenJoins
    <3>. QED BY <3>2, <3>3
  <2>5. offset <= RowTime(file, i, offset, timed)
    <3>1. file[i].is.at \in Nat
      BY <2>1, RowType
    <3>. QED BY <3>1 DEF RowTime
  <2>. QED BY <2>3, <2>4, <2>5 DEF i
<1>8. FileTurns(file, offset, timed, turns, ix)
  BY <1>4, <1>6, <1>7 DEF FileTurns
<1>. QED BY <1>8 DEF turns

TimesAssigned(turns, timedTurns, offset) ==
    /\ timedTurns \in Seq(SpokenLine) /\ Len(timedTurns) = Len(turns)
    /\ \A a \in 1..Len(turns) : /\ timedTurns[a].who = turns[a].who
                                /\ timedTurns[a].text = turns[a].text
                                /\ offset <= timedTurns[a].from
    /\ \A a \in 1..Len(turns) : a < Len(turns) => timedTurns[a].to = timedTurns[a+1].from

\* _assign_times leaves who speaks and what, and each turn runs until the next.
LEMMA TimesOfTurns ==
  ASSUME NEW turns \in Seq(SpokenLine), NEW offset \in Nat, NEW timed \in BOOLEAN,
         \A a \in 1..Len(turns) : offset <= turns[a].from
  PROVE  TimesAssigned(turns, AssignTimes(turns, offset, timed), offset)
<1>. DEFINE q == Len(turns)
            Timed(i) == IF ~timed THEN [turns[i] EXCEPT !.from = offset + 2 * (i - 1), !.to = offset + 2 * i]
                        ELSE IF i < q THEN [turns[i] EXCEPT !.to = turns[i + 1].from]
                        ELSE turns[i]
            now == AssignTimes(turns, offset, timed)
<1>1. q \in Nat /\ DOMAIN turns = 1..q /\ \A a \in 1..q : turns[a] \in SpokenLine
  OBVIOUS
<1>2. now = [i \in 1..q |-> Timed(i)]
  BY <1>1 DEF AssignTimes
<1>3. ASSUME NEW i \in 1..q
      PROVE  /\ Timed(i) \in SpokenLine
             /\ Timed(i).who = turns[i].who /\ Timed(i).text = turns[i].text
             /\ Timed(i).from = IF timed THEN turns[i].from ELSE offset + 2 * (i - 1)
             /\ ~timed => Timed(i).to = offset + 2 * i
             /\ timed /\ i < q => Timed(i).to = turns[i+1].from
             /\ offset <= Timed(i).from
  <2>1. turns[i] \in SpokenLine /\ offset <= turns[i].from
    BY <1>1
  <2>2. CASE ~timed
    <3>. DEFINE f == offset + 2 * (i - 1)
                t == offset + 2 * i
    <3>1. f \in Nat /\ t \in Nat /\ offset <= f
      BY <1>1
    <3>2. Timed(i) = [turns[i] EXCEPT !.from = f, !.to = t]
      BY <2>2
    <3>. HIDE DEF f, t, Timed
    <3>3. /\ Timed(i) \in SpokenLine /\ Timed(i).who = turns[i].who /\ Timed(i).text = turns[i].text
          /\ Timed(i).from = f /\ Timed(i).to = t
      BY <2>1, <3>1, <3>2 DEF SpokenLine
    <3>. QED BY <2>2, <3>1, <3>3 DEF f, t
  <2>3. CASE timed /\ i < q
    <3>1. i + 1 \in 1..q
      BY <1>1, <2>3
    <3>2. turns[i+1].from \in Nat
      BY <1>1, <3>1 DEF SpokenLine
    <3>3. Timed(i) = [turns[i] EXCEPT !.to = turns[i + 1].from]
      BY <2>3
    <3>. HIDE DEF Timed
    <3>. QED BY <2>1, <2>3, <3>2, <3>3 DEF SpokenLine
  <2>4. CASE timed /\ ~(i < q)
    <3>1. Timed(i) = turns[i]
      BY <2>4
    <3>. HIDE DEF Timed
    <3>. QED BY <2>1, <2>4, <3>1
  <2>. QED BY <2>2, <2>3, <2>4
<1>. HIDE DEF Timed, now
<1>4. now \in [1..q -> SpokenLine] /\ \A i \in 1..q : now[i] = Timed(i)
  BY <1>2, <1>3
<1>5. now \in Seq(SpokenLine) /\ Len(now) = q
  BY <1>1, <1>4
<1>6. ASSUME NEW a \in 1..q, a < q PROVE now[a].to = now[a+1].from
  <2>1. a + 1 \in 1..q /\ (a + 1) - 1 = a
    BY <1>1, <1>6
  <2>2. now[a] = Timed(a) /\ now[a+1] = Timed(a+1)
    BY <1>4, <2>1
  <2>3. CASE timed
    <3>1. Timed(a+1).from = turns[a+1].from
      BY <1>3, <2>1, <2>3
    <3>. QED BY <1>3, <1>6, <2>2, <2>3, <3>1
  <2>4. CASE ~timed
    <3>1. Timed(a+1).from = offset + 2 * a
      BY <1>3, <2>1, <2>4
    <3>. QED BY <1>3, <2>2, <2>4, <3>1
  <2>. QED BY <2>3, <2>4
<1>7. \A a \in 1..q : now[a].who = turns[a].who /\ now[a].text = turns[a].text /\ offset <= now[a].from
  BY <1>3, <1>4
<1>. QED BY <1>5, <1>6, <1>7 DEF TimesAssigned, now

\* What an import leaves is what AsWritten says, for any file and transcript.
LEMMA ImportedLines ==
  ASSUME NEW file \in Seq(Rows), NEW old \in Seq(SpokenLine), NEW timed \in BOOLEAN
  PROVE  LET offset == StartOffset(old)
             now == old \o AssignTimes(CollectTurns(file, offset, timed), offset, timed)
         IN  now \in Seq(SpokenLine) /\ AsWritten(file, old, now)
<1>. DEFINE offset == StartOffset(old)
            turns == CollectTurns(file, offset, timed)
            t == AssignTimes(turns, offset, timed)
            now == old \o t
            p == Len(old)
            q == Len(turns)
<1>1. offset \in Nat /\ \A i \in 1..p : old[i].to <= offset
  BY OffsetAfter
<1>. HIDE DEF offset
<1>2. PICK ix : FileTurns(file, offset, timed, turns, ix)
  BY <1>1, TurnsOfFile
<1>. HIDE DEF turns
<1>3. /\ turns \in Seq(SpokenLine) /\ q \in Nat
      /\ \A a \in 1..q : offset <= turns[a].from
  BY <1>2 DEF FileTurns
<1>4. TimesAssigned(turns, t, offset)
  BY <1>1, <1>3, TimesOfTurns
<1>. HIDE DEF t
<1>5. /\ t \in Seq(SpokenLine) /\ Len(t) = q
      /\ \A a \in 1..q : t[a].who = turns[a].who /\ t[a].text = turns[a].text /\ offset <= t[a].from
      /\ \A a \in 1..q : a < q => t[a].to = t[a+1].from
  BY <1>4 DEF TimesAssigned
<1>6. /\ now \in Seq(SpokenLine) /\ Len(now) = p + q /\ p \in Nat
      /\ \A i \in 1..p+q : now[i] = IF i <= p THEN old[i] ELSE t[i-p]
  <2>1. p \in Nat
    OBVIOUS
  <2>2. /\ old \o t \in Seq(SpokenLine) /\ Len(old \o t) = Len(old) + Len(t)
        /\ \A i \in 1..Len(old)+Len(t) :
              (old \o t)[i] = IF i <= Len(old) THEN old[i] ELSE t[i-Len(old)]
    <3>1. old \in Seq(SpokenLine) /\ t \in Seq(SpokenLine)
      BY <1>5
    <3>. HIDE DEF q, p
    <3>. QED BY <3>1, ConcatProperties
  <2>. QED BY <1>5, <2>1, <2>2
<1>. HIDE DEF now
<1>. DEFINE new == DOMAIN now \ DOMAIN old
            row == [n \in new |-> ix[n - p]]
            named == {i \in DOMAIN file : file[i].turn /\ file[i].is.who # Absent}
            Says(i) == FlattenSeq([k \in DOMAIN file |->
                          IF i <= k /\ \A j \in i + 1 .. k : ~file[j].turn
                          THEN IF file[k].turn THEN file[k].is.text ELSE file[k].is ELSE <<>>])
<1>7. DOMAIN now = 1..p+q /\ DOMAIN old = 1..p /\ DOMAIN file = 1..Len(file)
  BY <1>6
<1>8. named = NamedRows(file)
  BY <1>7 DEF NamedRows
<1>9. \A i : Says(i) = FlattenSeq(RowParts(file, i))
  BY <1>7 DEF RowParts, GoesOn, RowSays
<1>10. \A n \in new : n \in Int /\ n - p \in 1..q /\ now[n] = t[n-p] /\ p < n
  BY <1>3, <1>6, <1>7
<1>11. \A a \in 1..q : a + p \in new /\ (a + p) - p = a
  BY <1>3, <1>6, <1>7
<1>. HIDE DEF new, named, Says
<1>12. row \in [new -> named]
  BY <1>2, <1>8, <1>10 DEF FileTurns
<1>13. \A n \in new : row[n] = ix[n-p]
  OBVIOUS
<1>. HIDE DEF row
<1>14. \A n, m \in new : n < m => row[n] < row[m]
  <2>1. ASSUME NEW n \in new, NEW m \in new, n < m PROVE ix[n-p] < ix[m-p]
    <3>1. n - p \in 1..q /\ m - p \in 1..q /\ n - p < m - p
      BY <1>6, <1>10, <2>1
    <3>. QED BY <1>2, <3>1 DEF FileTurns
  <2>. QED BY <1>13, <2>1
<1>15. \A i \in named : \E n \in new : row[n] = i
  <2>1. ASSUME NEW i \in named PROVE \E n \in new : row[n] = i
    <3>1. PICK a \in 1..q : ix[a] = i
      BY <1>2, <1>8 DEF FileTurns
    <3>2. row[a+p] = ix[(a+p)-p]
      BY <1>11, <1>13
    <3>. QED BY <1>11, <3>1, <3>2
  <2>. QED BY <2>1
<1>16. ASSUME NEW n \in new
       PROVE  /\ now[n].who = file[row[n]].is.who /\ now[n].text = Says(row[n])
              /\ \A i \in DOMAIN old : old[i].to <= now[n].from
              /\ n - 1 \in new => now[n-1].to = now[n].from
  <2>. DEFINE a == n - p
  <2>1. a \in 1..q /\ now[n] = t[a] /\ row[n] = ix[a]
    BY <1>10, <1>13
  <2>2. turns[a].who = file[ix[a]].is.who /\ turns[a].text = FlattenSeq(RowParts(file, ix[a]))
    BY <1>2, <2>1 DEF FileTurns
  <2>3. t[a].who = turns[a].who /\ t[a].text = turns[a].text /\ offset <= t[a].from
    BY <1>5, <2>1
  <2>4. now[n].who = file[row[n]].is.who /\ now[n].text = Says(row[n])
    BY <1>9, <2>1, <2>2, <2>3
  <2>5. \A i \in DOMAIN old : old[i].to <= now[n].from
    <3>1. t[a] \in SpokenLine
      BY <1>5, <2>1
    <3>2. t[a].from \in Nat
      BY <3>1 DEF SpokenLine
    <3>3. \A i \in 1..p : old[i] \in SpokenLine
      OBVIOUS
    <3>4. \A i \in 1..p : old[i].to \in Nat
      BY <3>3 DEF SpokenLine
    <3>. QED BY <1>1, <1>7, <2>1, <2>3, <3>2, <3>4
  <2>6. ASSUME n - 1 \in new PROVE now[n-1].to = now[n].from
    <3>1. a - 1 \in 1..q /\ now[n-1] = t[a-1] /\ a - 1 < q /\ (a - 1) + 1 = a
      <4>1. (n - 1) - p \in 1..q /\ now[n-1] = t[(n-1)-p]
        BY <1>10, <2>6
      <4>2. n \in Int /\ p \in Int /\ (n - 1) - p = (n - p) - 1
        BY <1>6, <1>10
      <4>. QED BY <1>3, <2>1, <4>1, <4>2
    <3>2. t[a-1].to = t[(a-1)+1].from
      BY <1>5, <3>1
    <3>. QED BY <2>1, <3>1, <3>2
  <2>. QED BY <2>4, <2>5, <2>6
<1>17. DOMAIN old \subseteq DOMAIN now /\ \A n \in DOMAIN old : now[n] = old[n]
  BY <1>3, <1>6, <1>7
<1>18. AsWritten(file, old, now)
  <2>. SUFFICES /\ DOMAIN old \subseteq DOMAIN now
                /\ \A n \in DOMAIN old : now[n] = old[n]
                /\ \E rw \in [new -> named] :
                      /\ \A n, m \in new : n < m => rw[n] < rw[m]
                      /\ \A i \in named : \E n \in new : rw[n] = i
                      /\ \A n \in new : now[n].who = file[rw[n]].is.who /\ now[n].text = Says(rw[n])
                /\ \A n \in new :
                      /\ \A i \in DOMAIN old : old[i].to <= now[n].from
                      /\ n - 1 \in new => now[n - 1].to = now[n].from
    BY DEF AsWritten, new, named, Says
  <2>1. \A n \in new : now[n].who = file[row[n]].is.who /\ now[n].text = Says(row[n])
    BY <1>16
  <2>. QED BY <1>12, <1>14, <1>15, <1>16, <1>17, <2>1
<1>. QED BY <1>6, <1>18 DEF now, t, turns, offset
-----------------------------------------------------------------------------
(* What the steps leave *)

\* The lines of the transcript are lines: all that the lemmas above need.
LinesOK == transcript \in Seq(SpokenLine)
TextInv == LinesOK /\ TextIsKept

\* An empty transcript is one of lines.
LEMMA TextInitInv == TextInit => TextInv
BY DEF TextInit, TextInv, LinesOK, TextIsKept, ImportedAsWritten, CleanedAsListed

\* A segment that is heard leaves a transcript of lines,
LEMMA HearKeeps ==
  ASSUME TextInv, stage = "told",
         NEW voice \in Voices, NEW text \in Texts, NEW start \in Starts, NEW last \in Lasts,
         Hear(voice[1], voice[2], text, start, last)
  PROVE  TextInv'
<1>1. /\ voice[1] \in People /\ voice[2] \in Tracks /\ text \in Seq(Words)
      /\ start \in Nat /\ last \in Nat
  BY TextAssumption
<1>2. transcript \in Seq(SpokenLine) /\ stage' = stage
  BY DEF TextInv, LinesOK, Hear
<1>3. (IF transcript = <<>> THEN 0 ELSE Last(transcript).from) \in Nat
  <2>1. CASE transcript # <<>>
    <3>1. Last(transcript) \in SpokenLine
      BY <1>2, <2>1 DEF Last
    <3>. QED BY <2>1, <3>1 DEF SpokenLine
  <2>. QED BY <2>1
<1>. DEFINE from == start + (IF transcript = <<>> THEN 0 ELSE Last(transcript).from)
            line == TextLine(voice[1], voice[2], text, from, from + last)
<1>4. from \in Nat /\ from + last \in Nat
  BY <1>1, <1>3
<1>5. line \in SpokenLine
  <2>. HIDE DEF from
  <2>. QED BY <1>1, <1>4 DEF TextLine, SpokenLine
<1>6. transcript' = Append(transcript, line)
  BY DEF Hear
<1>. HIDE DEF line
<1>7. transcript' \in Seq(SpokenLine)
  BY <1>2, <1>5, <1>6
<1>. QED BY <1>2, <1>7 DEF TextInv, LinesOK, TextIsKept, ImportedAsWritten, CleanedAsListed

\* an import leaves one in which the file is as it was written,
LEMMA ImportKeeps ==
  ASSUME TextInv, NEW n \in Int, NEW file \in BoundedSeq(Rows, n), NEW timed \in BOOLEAN,
         NEW append \in BOOLEAN, Import(file, timed, append)
  PROVE  TextInv'
<1>1. file \in Seq(Rows)
  BY DEF BoundedSeq, SeqOf
<1>2. before' \in Seq(SpokenLine)
  BY DEF Import, TextInv, LinesOK
<1>3. /\ rows' = file /\ stage' = "imported"
      /\ transcript' = before' \o AssignTimes(CollectTurns(file, StartOffset(before'), timed),
                                              StartOffset(before'), timed)
  BY DEF Import
<1>4. transcript' \in Seq(SpokenLine) /\ AsWritten(rows', before', transcript')
  BY <1>1, <1>2, <1>3, ImportedLines
<1>. QED BY <1>3, <1>4 DEF TextInv, LinesOK, TextIsKept, ImportedAsWritten, CleanedAsListed

\* and a clean one in which the lines are as its rules list them.
LEMMA CleanKeeps ==
  ASSUME TextInv, NEW order \in Orders, NEW set \in Settings, Clean(order, set)
  PROVE  TextInv'
<1>. DEFINE read == [i \in DOMAIN order |-> transcript[order[i]]]
            c == Cardinality(DOMAIN transcript)
<1>1. transcript \in Seq(SpokenLine) /\ DOMAIN transcript = 1..Len(transcript) /\ Len(transcript) \in Nat
  BY DEF TextInv, LinesOK
<1>2. c \in Nat
  <2>1. IsFiniteSet(1..Len(transcript))
    BY <1>1, FS_Interval
  <2>. QED BY <1>1, <2>1, FS_CardinalityType
<1>3. /\ order \in [1..c -> DOMAIN transcript]
      /\ \A i, j \in DOMAIN order : i < j => transcript[order[i]].from <= transcript[order[j]].from
  BY DEF Orders, SetToSeqs
<1>. HIDE DEF c
<1>4. read \in Seq(SpokenLine) /\ Len(read) = c /\ \A i \in 1..c : read[i] = transcript[order[i]]
  <2>1. \A i \in 1..c : transcript[order[i]] \in SpokenLine
    BY <1>1, <1>3
  <2>2. DOMAIN order = 1..c
    BY <1>3
  <2>3. read \in [1..c -> SpokenLine] /\ \A i \in 1..c : read[i] = transcript[order[i]]
    BY <2>1, <2>2
  <2>. HIDE DEF read
  <2>. QED BY <1>2, <2>3
<1>5. before' = read /\ transcript' = CleanedLines(set, read) /\ settings' = set /\ stage' = "cleaned"
  BY DEF Clean
<1>. HIDE DEF read
<1>6. \A i, j \in 1..Len(read) : i < j => read[i].from <= read[j].from
  BY <1>3, <1>4
<1>7. set.window \in Nat
  BY TextAssumption DEF CleaningSettings
<1>8. transcript' \in Seq(SpokenLine) /\ Listed(settings', before', transcript')
  BY <1>4, <1>5, <1>6, <1>7, CleanedLinesListed
<1>. QED BY <1>5, <1>8 DEF TextInv, LinesOK, TextIsKept, ImportedAsWritten, CleanedAsListed

\* So does every step.
LEMMA TextStepInv == TextInv /\ [TextNext]_textVars => TextInv'
<1>. SUFFICES ASSUME TextInv, [TextNext]_textVars PROVE TextInv'
  OBVIOUS
<1>1. CASE UNCHANGED textVars
  BY <1>1 DEF textVars, TextInv, LinesOK, TextIsKept, ImportedAsWritten, CleanedAsListed
<1>2. ASSUME stage = "told", NEW voice \in Voices, NEW text \in Texts, NEW start \in Starts,
             NEW last \in Lasts, Hear(voice[1], voice[2], text, start, last)
      PROVE  TextInv'
  BY <1>2, HearKeeps
<1>3. ASSUME NEW file \in BoundedSeq(Rows, MaxLines - Len(transcript)), NEW timed \in BOOLEAN,
             NEW append \in BOOLEAN, Import(file, timed, append)
      PROVE  TextInv'
  <2>1. MaxLines - Len(transcript) \in Int
    BY TextAssumption DEF TextInv, LinesOK
  <2>. QED BY <1>3, <2>1, ImportKeeps
<1>4. ASSUME NEW order \in Orders, NEW set \in Settings, Clean(order, set)
      PROVE  TextInv'
  BY <1>4, CleanKeeps
<1>. QED BY <1>1, <1>2, <1>3, <1>4 DEF TextNext

\* What was written or said is there: a clean loses, doubles or gives to another no line but by
\* its rules (cleaners.py), and an import has one line for each turn of its file and leaves
\* out only the rows that follow no turn, those under a blank name too (importers.py), for any
\* transcript, file, settings and words, and any way of matching known phrases.
THEOREM TextKept == TextSpec => []TextIsKept
<1>1. TextInv => TextIsKept
  BY DEF TextInv
<1>. QED BY <1>1, TextInitInv, TextStepInv, PTL DEF TextSpec
-----------------------------------------------------------------------------
(* How long a chunk is *)

\* A turn counts at least a character.
LEMMA TurnLengthType ==
  ASSUME NEW line \in SpokenLine
  PROVE  TurnLength(line) \in Nat \ {0}
BY DEF TurnLength, SpokenLine

Sums(P, chunk) ==
    /\ P \in [0..Len(chunk) -> Int]
    /\ P[0] = Len(chunk) - 1
    /\ \A k \in 0..Len(chunk)-1 : P[k+1] = P[k] + TurnLength(chunk[k+1])

\* Length adds up the turns one at a time.
LEMMA LengthSums ==
  ASSUME NEW chunk \in Seq(SpokenLine)
  PROVE  \E P : Sums(P, chunk) /\ P[Len(chunk)] = Length(chunk)
<1>. DEFINE n == Len(chunk)
            V == Int
            base == Len(chunk) - 1
            F == [k \in 1..n |-> [v \in V |-> v + TurnLength(chunk[k])]]
            Is(g) == g = [S \in SUBSET DOMAIN chunk |->
                            IF S = {} THEN Len(chunk) - 1
                            ELSE g[S \ {Max(S)}] + TurnLength(chunk[Max(S)])]
            it == CHOOSE g : Is(g)
<1>1. Length(chunk) = it[DOMAIN chunk]
  BY DEF Length, FoldLeft, MapThenFoldSet
<1>2. n \in Nat /\ DOMAIN chunk = 1..n /\ base \in V /\ F \in [1..n -> [V -> V]]
  <2>1. ASSUME NEW k \in 1..n, NEW v \in V PROVE v + TurnLength(chunk[k]) \in V
    <3>1. chunk[k] \in SpokenLine
      OBVIOUS
    <3>2. TurnLength(chunk[k]) \in Nat
      BY <3>1, TurnLengthType
    <3>. QED BY <3>2
  <2>2. base \in V
    OBVIOUS
  <2>. HIDE DEF V, base
  <2>3. \A k \in 1..n : [v \in V |-> v + TurnLength(chunk[k])] \in [V -> V]
    BY <2>1
  <2>. QED BY <2>2, <2>3
<1>3. \A k \in 1..n, v \in V : F[k][v] = v + TurnLength(chunk[k])
  <2>. HIDE DEF V
  <2>. QED OBVIOUS
<1>. HIDE DEF F, V, base
<1>4. PICK g \in [SUBSET (1..n) -> V] : Follows(g, n, V, base, F)
  <2>. HIDE DEF n
  <2>. QED BY <1>2, FollowExists
<1>5. Is(g)
  <2>1. ASSUME NEW S \in SUBSET (1..n), S # {}
        PROVE  g[S] = g[S \ {Max(S)}] + TurnLength(chunk[Max(S)])
    <3>1. Max(S) \in 1..n /\ S \ {Max(S)} \in SUBSET (1..n)
      BY <1>2, <2>1, MaxOf
    <3>2. g[S \ {Max(S)}] \in V
      BY <3>1
    <3>. QED BY <1>3, <1>4, <2>1, <3>1, <3>2 DEF Follows
  <2>2. g[{}] = base
    BY <1>4 DEF Follows
  <2>. QED BY <1>2, <2>1, <2>2 DEF base
<1>6. Is(it)
  <2>. HIDE DEF Is
  <2>. QED BY <1>5
<1>7. Follows(it, n, V, base, F)
  <2>. HIDE DEF it
  <2>1. ASSUME NEW S \in SUBSET (1..n), S # {}
        PROVE  it[S] = it[S \ {Max(S)}] + TurnLength(chunk[Max(S)])
    BY <1>2, <1>6, <2>1
  <2>2. it[{}] = base
    BY <1>6 DEF base
  <2>. HIDE DEF Is
  <2>3. ASSUME NEW S \in SUBSET (1..n), S # {}, it[S \ {Max(S)}] \in V
        PROVE  it[S] = F[Max(S)][it[S \ {Max(S)}]]
    <3>1. Max(S) \in 1..n
      BY <1>2, <2>3, MaxOf
    <3>. QED BY <1>3, <2>1, <2>3, <3>1
  <2>. QED BY <2>2, <2>3 DEF Follows
<1>. HIDE DEF it, Is
<1>8. PICK P : Walks(P, n, V, base, F) /\ P[n] = it[1..n]
  <2>. HIDE DEF n
  <2>. QED BY <1>2, <1>7, FoldWalk
<1>9. \A k \in 0..n-1 : P[k+1] = P[k] + TurnLength(chunk[k+1])
  <2>1. ASSUME NEW k \in 0..n-1 PROVE P[k+1] = P[k] + TurnLength(chunk[k+1])
    <3>1. k \in 0..n /\ k + 1 \in 1..n
      BY <1>2
    <3>2. P[k] \in V /\ P[k+1] = F[k+1][P[k]]
      BY <1>8, <3>1 DEF Walks
    <3>. QED BY <1>3, <3>1, <3>2
  <2>. QED BY <2>1
<1>10. Sums(P, chunk)
  BY <1>8, <1>9 DEF Sums, Walks, V, base
<1>. QED BY <1>1, <1>2, <1>8, <1>10

\* The length of no turns, with the newline that is not there.
LEMMA LengthEmpty == Length(<<>>) = -1
<1>1. <<>> \in Seq(SpokenLine)
  OBVIOUS
<1>2. PICK P : Sums(P, <<>>) /\ P[Len(<<>>)] = Length(<<>>)
  BY <1>1, LengthSums
<1>. QED BY <1>2 DEF Sums

\* The length of a chunk, with one turn more and the newline before it.
LEMMA LengthAppend ==
  ASSUME NEW chunk \in Seq(SpokenLine), NEW line \in SpokenLine
  PROVE  /\ Length(Append(chunk, line)) = Length(chunk) + TurnLength(line) + 1
         /\ Length(chunk) \in Int
<1>. DEFINE more == Append(chunk, line)
            n == Len(chunk)
<1>1. /\ more \in Seq(SpokenLine) /\ n \in Nat /\ Len(more) = n + 1 /\ more[n+1] = line
      /\ \A k \in 1..n : more[k] = chunk[k]
      /\ TurnLength(line) \in Nat
  BY TurnLengthType
<1>. HIDE DEF more
<1>2. PICK P : Sums(P, chunk) /\ P[n] = Length(chunk)
  BY LengthSums
<1>3. PICK Q : Sums(Q, more) /\ Q[Len(more)] = Length(more)
  BY <1>1, LengthSums
<1>. DEFINE N == {k \in Nat : k <= n => Q[k] = P[k] + 1}
<1>4. 0 \in N
  BY <1>1, <1>2, <1>3 DEF Sums
<1>5. ASSUME NEW k \in Nat, k \in N PROVE k + 1 \in N
  <2>. SUFFICES ASSUME k + 1 <= n PROVE Q[k+1] = P[k+1] + 1
    OBVIOUS
  <2>1. k \in 0..n-1 /\ k \in 0..Len(more)-1 /\ k + 1 \in 1..n /\ k <= n /\ k \in 0..n
    BY <1>1
  <2>2. P[k+1] = P[k] + TurnLength(chunk[k+1]) /\ Q[k+1] = Q[k] + TurnLength(more[k+1]) /\ P[k] \in Int
    BY <1>2, <1>3, <2>1 DEF Sums
  <2>3. chunk[k+1] \in SpokenLine /\ more[k+1] = chunk[k+1]
    BY <1>1, <2>1
  <2>4. TurnLength(chunk[k+1]) \in Nat
    BY <2>3, TurnLengthType
  <2>. QED BY <1>5, <2>1, <2>2, <2>3, <2>4
<1>6. Q[n] = P[n] + 1
  <2>1. n \in N
    <3>. HIDE DEF N
    <3>. QED BY <1>1, <1>4, <1>5, Induct
  <2>. QED BY <1>1, <2>1
<1>7. P[n] \in Int /\ Q[n+1] = Q[n] + TurnLength(line)
  <2>1. n \in 0..n /\ n \in 0..Len(more)-1
    BY <1>1
  <2>. QED BY <1>1, <1>2, <1>3, <2>1 DEF Sums
<1>. QED BY <1>1, <1>2, <1>3, <1>6, <1>7 DEF more
-----------------------------------------------------------------------------
(* The chunks *)

Made == [chunks : Seq(Seq(SpokenLine)), now : Seq(SpokenLine), length : Int]
NothingMade == [chunks |-> <<>>, now |-> <<>>, length |-> 0]

AddTurn(made, line, budget) ==
    IF made.now # <<>> /\ ~Fits(made, line, budget)
    THEN [chunks |-> Append(made.chunks, made.now), now |-> <<line>>, length |-> TurnLength(line) + 1]
    ELSE [chunks |-> made.chunks, now |-> Append(made.now, line),
          length |-> made.length + TurnLength(line) + 1]

Makes(P, s, budget) ==
    /\ P \in [0..Len(s) -> Made]
    /\ P[0] = NothingMade
    /\ \A k \in 0..Len(s)-1 : P[k+1] = AddTurn(P[k], s[k+1], budget)

\* chunk_transcript keeps chunks of lines.
LEMMA AddTurnType ==
  ASSUME NEW made \in Made, NEW line \in SpokenLine, NEW budget
  PROVE  AddTurn(made, line, budget) \in Made
<1>1. TurnLength(line) \in Nat
  BY TurnLengthType
<1>2. made.chunks \in Seq(Seq(SpokenLine)) /\ made.now \in Seq(SpokenLine) /\ made.length \in Int
  BY DEF Made
<1>. DEFINE V == Seq(SpokenLine)
<1>3. Append(made.chunks, made.now) \in Seq(V)
  <2>1. made.chunks \in Seq(V) /\ made.now \in V
    BY <1>2
  <2>. HIDE DEF V
  <2>. QED BY <2>1
<1>4. <<line>> \in V /\ Append(made.now, line) \in V
  BY <1>2
<1>5. TurnLength(line) + 1 \in Int /\ made.length + TurnLength(line) + 1 \in Int
  BY <1>1, <1>2
<1>6. Made = [chunks : Seq(V), now : V, length : Int]
  BY DEF Made
<1>7. made.chunks \in Seq(V)
  BY <1>2
<1>. HIDE DEF V
<1>8. CASE made.now # <<>> /\ ~Fits(made, line, budget)
  <2>1. AddTurn(made, line, budget) =
          [chunks |-> Append(made.chunks, made.now), now |-> <<line>>, length |-> TurnLength(line) + 1]
    BY <1>8 DEF AddTurn
  <2>. QED BY <1>3, <1>4, <1>5, <1>6, <2>1
<1>9. CASE ~(made.now # <<>> /\ ~Fits(made, line, budget))
  <2>1. AddTurn(made, line, budget) =
          [chunks |-> made.chunks, now |-> Append(made.now, line),
           length |-> made.length + TurnLength(line) + 1]
    BY <1>9 DEF AddTurn
  <2>. QED BY <1>4, <1>5, <1>6, <1>7, <2>1
<1>. QED BY <1>8, <1>9

\* Chunks is a walk that adds one turn at a time.
LEMMA MakesExist ==
  ASSUME NEW budget, DropEmpty(transcript) \in Seq(SpokenLine)
  PROVE  \E P : /\ Makes(P, DropEmpty(transcript), budget)
                /\ LET made == P[Len(DropEmpty(transcript))]
                   IN  Chunks(budget) = IF made.now = <<>> THEN made.chunks
                                        ELSE Append(made.chunks, made.now)
<1>. DEFINE s == DropEmpty(transcript)
            n == Len(s)
            V == Made
            base == NothingMade
            F == [k \in 1..n |-> [v \in V |-> AddTurn(v, s[k], budget)]]
            Is(g) == g = [S \in SUBSET DOMAIN s |->
                            IF S = {} THEN [chunks |-> <<>>, now |-> <<>>, length |-> 0]
                            ELSE IF g[S \ {Max(S)}].now # <<>> /\ ~Fits(g[S \ {Max(S)}], s[Max(S)], budget)
                                 THEN [chunks |-> Append(g[S \ {Max(S)}].chunks, g[S \ {Max(S)}].now),
                                       now |-> <<s[Max(S)]>>, length |-> TurnLength(s[Max(S)]) + 1]
                                 ELSE [chunks |-> g[S \ {Max(S)}].chunks,
                                       now |-> Append(g[S \ {Max(S)}].now, s[Max(S)]),
                                       length |-> g[S \ {Max(S)}].length + TurnLength(s[Max(S)]) + 1]]
            it == CHOOSE g : Is(g)
<1>1. Chunks(budget) = IF it[DOMAIN s].now = <<>> THEN it[DOMAIN s].chunks
                       ELSE Append(it[DOMAIN s].chunks, it[DOMAIN s].now)
  BY DEF Chunks, FoldLeft, MapThenFoldSet
<1>. HIDE DEF s
<1>2. n \in Nat /\ DOMAIN s = 1..n /\ base \in V /\ F \in [1..n -> [V -> V]]
  <2>0. n \in Nat /\ DOMAIN s = 1..n /\ \A k \in 1..n : s[k] \in SpokenLine
    BY DEF s
  <2>1. ASSUME NEW k \in 1..n, NEW v \in V PROVE AddTurn(v, s[k], budget) \in V
    BY <2>0, AddTurnType
  <2>2. base \in V
    BY DEF NothingMade, Made
  <2>. HIDE DEF V, base
  <2>3. \A k \in 1..n : [v \in V |-> AddTurn(v, s[k], budget)] \in [V -> V]
    BY <2>1
  <2>. QED BY <2>0, <2>2, <2>3
<1>3. \A k \in 1..n, v \in V : F[k][v] = AddTurn(v, s[k], budget)
  <2>. HIDE DEF V
  <2>. QED OBVIOUS
<1>. HIDE DEF F, V, base
<1>4. PICK g \in [SUBSET (1..n) -> V] : Follows(g, n, V, base, F)
  <2>. HIDE DEF n
  <2>. QED BY <1>2, FollowExists
<1>0. \A S \in SUBSET (1..n) : S # {} => Max(S) \in 1..n /\ S \ {Max(S)} \in SUBSET (1..n)
  <2>1. s \in Seq(SpokenLine)
    BY DEF s
  <2>. QED BY <1>2, <2>1, MaxOf
<1>5. Is(g)
  <2>1. ASSUME NEW S \in SUBSET (1..n), S # {}
        PROVE  g[S] = AddTurn(g[S \ {Max(S)}], s[Max(S)], budget)
    <3>1. Max(S) \in 1..n /\ S \ {Max(S)} \in SUBSET (1..n)
      BY <1>0, <2>1
    <3>2. g[S \ {Max(S)}] \in V
      BY <3>1
    <3>. QED BY <1>3, <1>4, <2>1, <3>1, <3>2 DEF Follows
  <2>2. g[{}] = base
    BY <1>4 DEF Follows
  <2>. QED BY <1>2, <2>1, <2>2 DEF AddTurn, NothingMade, base
<1>6. Is(it)
  <2>. HIDE DEF Is
  <2>. QED BY <1>5
<1>7. Follows(it, n, V, base, F)
  <2>. HIDE DEF it
  <2>1. ASSUME NEW S \in SUBSET (1..n), S # {}
        PROVE  it[S] = AddTurn(it[S \ {Max(S)}], s[Max(S)], budget)
    BY <1>2, <1>6, <2>1 DEF AddTurn
  <2>2. it[{}] = base
    BY <1>6 DEF base, NothingMade
  <2>. HIDE DEF Is
  <2>3. ASSUME NEW S \in SUBSET (1..n), S # {}, it[S \ {Max(S)}] \in V
        PROVE  it[S] = F[Max(S)][it[S \ {Max(S)}]]
    <3>1. Max(S) \in 1..n
      BY <1>0, <2>3
    <3>. QED BY <1>3, <2>1, <2>3, <3>1
  <2>. QED BY <2>2, <2>3 DEF Follows
<1>. HIDE DEF it, Is
<1>8. PICK P : Walks(P, n, V, base, F) /\ P[n] = it[1..n]
  <2>. HIDE DEF n
  <2>. QED BY <1>2, <1>7, FoldWalk
<1>9. \A k \in 0..n-1 : P[k+1] = AddTurn(P[k], s[k+1], budget)
  <2>1. ASSUME NEW k \in 0..n-1 PROVE P[k+1] = AddTurn(P[k], s[k+1], budget)
    <3>1. k \in 0..n /\ k + 1 \in 1..n
      BY <1>2
    <3>2. P[k] \in V /\ P[k+1] = F[k+1][P[k]]
      BY <1>8, <3>1 DEF Walks
    <3>. QED BY <1>3, <3>1, <3>2
  <2>. QED BY <2>1
<1>10. Makes(P, s, budget)
  BY <1>8, <1>9 DEF Makes, Walks, V, base
<1>11. Chunks(budget) = IF P[n].now = <<>> THEN P[n].chunks ELSE Append(P[n].chunks, P[n].now)
  BY <1>1, <1>2, <1>8
<1>. QED BY <1>10, <1>11 DEF s

\* What holds of the chunks that are full and of the one that is being filled.
FullAndFilling(made, budget) ==
    /\ made.length = Length(made.now) + 1
    /\ \A n \in 1..Len(made.chunks) :
          /\ made.chunks[n] # <<>>
          /\ Length(made.chunks[n]) < budget \/ Len(made.chunks[n]) = 1
          /\ n < Len(made.chunks) =>
                Length(made.chunks[n]) + 1 + TurnLength(Head(made.chunks[n+1])) >= budget
    /\ made.now # <<>> => Length(made.now) < budget \/ Len(made.now) = 1
    /\ made.chunks # <<>> =>
          /\ made.now # <<>>
          /\ Length(made.chunks[Len(made.chunks)]) + 1 + TurnLength(Head(made.now)) >= budget

AllChunked(made) == FlattenSeq(made.chunks) \o made.now

\* Before the first turn nothing is full,
LEMMA FillingStarts ==
  ASSUME NEW budget \in Int
  PROVE  FullAndFilling(NothingMade, budget) /\ AllChunked(NothingMade) = <<>>
<1>1. NothingMade.chunks = <<>> /\ NothingMade.now = <<>> /\ NothingMade.length = 0
  BY DEF NothingMade
<1>2. FullAndFilling(NothingMade, budget)
  BY <1>1, LengthEmpty DEF FullAndFilling
<1>3. FlattenSeq(<<>>) = <<>>
  <2>1. Len(<<>>) = 0
    OBVIOUS
  <2>. QED BY <2>1 DEF FlattenSeq
<1>4. <<>> \o <<>> = <<>>
  <2>1. <<>> \in Seq(SpokenLine)
    OBVIOUS
  <2>. QED BY <2>1, ConcatEmptySeq
<1>. QED BY <1>1, <1>2, <1>3, <1>4 DEF AllChunked

\* a turn comes last of all that is chunked,
LEMMA TurnAdded ==
  ASSUME NEW made \in Made, NEW line \in SpokenLine, NEW budget \in Int
  PROVE  AllChunked(AddTurn(made, line, budget)) = Append(AllChunked(made), line)
         /\ AllChunked(made) \in Seq(SpokenLine)
<1>. DEFINE V == Seq(SpokenLine)
            full == made.chunks
            now == made.now
            flat == FlattenSeq(full)
<1>1. full \in Seq(V) /\ now \in V /\ <<line>> \in V
  BY DEF Made
<1>2. flat \in V /\ FlattenSeq(Append(full, now)) = flat \o now
  BY <1>1, FlattenAppend
<1>. HIDE DEF V, full, now, flat
<1>3. flat \o now \in V
  BY <1>1, <1>2, ConcatProperties DEF V
<1>4. Append(flat \o now, line) = (flat \o now) \o <<line>> /\ Append(now, line) = now \o <<line>>
  BY <1>1, <1>3, AppendIsConcat DEF V
<1>5. (flat \o now) \o <<line>> = flat \o (now \o <<line>>)
  BY <1>1, <1>2, ConcatAssociative DEF V
<1>6. AllChunked(made) = flat \o now
  BY DEF AllChunked, flat, full, now
<1>7. CASE now # <<>> /\ ~Fits(made, line, budget)
  <2>1. AllChunked(AddTurn(made, line, budget)) = FlattenSeq(Append(full, now)) \o <<line>>
    BY <1>7 DEF AddTurn, AllChunked, full, now
  <2>. QED BY <1>2, <1>3, <1>4, <1>6, <2>1 DEF V
<1>8. CASE ~(now # <<>> /\ ~Fits(made, line, budget))
  <2>1. AllChunked(AddTurn(made, line, budget)) = flat \o Append(now, line)
    BY <1>8 DEF AddTurn, AllChunked, full, now, flat
  <2>. QED BY <1>3, <1>4, <1>5, <1>6, <2>1 DEF V
<1>. QED BY <1>7, <1>8
\* and what is full stays under the budget and could not take the turn after it.
LEMMA StaysFullAndFilling ==
  ASSUME NEW made \in Made, NEW line \in SpokenLine, NEW budget \in Int,
         FullAndFilling(made, budget)
  PROVE  FullAndFilling(AddTurn(made, line, budget), budget)
<1>. DEFINE full == made.chunks
            now == made.now
            tl == TurnLength(line)
            k == Len(full)
            V == Seq(SpokenLine)
<1>1. full \in Seq(V) /\ now \in V /\ k \in Nat /\ made.length \in Int /\ tl \in Nat \ {0}
  BY TurnLengthType DEF Made
<1>2. /\ Length(Append(now, line)) = Length(now) + tl + 1
      /\ Length(now) \in Int
  BY <1>1, LengthAppend
<1>3. made.length = Length(now) + 1
  BY DEF FullAndFilling
<1>4. Fits(made, line, budget) <=> made.length + tl + 1 <= budget
  BY DEF Fits
<1>5. /\ <<line>> # <<>> /\ Len(<<line>>) = 1 /\ Head(<<line>>) = line
      /\ Length(<<line>>) = tl
  <2>1. <<>> \in V /\ Append(<<>>, line) = <<line>>
    OBVIOUS
  <2>2. Length(<<line>>) = Length(<<>>) + tl + 1
    BY <2>1, LengthAppend
  <2>. QED BY <1>1, <2>2, LengthEmpty
<1>6. /\ Append(now, line) # <<>>
      /\ now # <<>> => Head(Append(now, line)) = Head(now)
      /\ now = <<>> => Len(Append(now, line)) = 1
  <2>1. Len(Append(now, line)) = Len(now) + 1 /\ Len(now) \in Nat
    BY <1>1
  <2>2. Append(now, line) # <<>>
    BY <2>1
  <2>3. ASSUME now # <<>> PROVE Head(Append(now, line)) = Head(now)
    <3>1. Len(now) >= 1
      BY <1>1, <2>1, <2>3
    <3>2. Append(now, line)[1] = now[1]
      BY <1>1, <3>1
    <3>. QED BY <1>1, <2>1, <2>2, <2>3, <3>2
  <2>4. now = <<>> => Len(Append(now, line)) = 1
    BY <2>1
  <2>. QED BY <2>2, <2>3, <2>4
<1>7. \A n \in 1..k : full[n] \in V
  <2>. HIDE DEF V
  <2>. QED BY <1>1
<1>8. CASE now # <<>> /\ ~Fits(made, line, budget)
  <2>. DEFINE more == Append(full, now)
              next == AddTurn(made, line, budget)
  <2>1. next.chunks = more /\ next.now = <<line>> /\ next.length = tl + 1
    BY <1>8 DEF AddTurn
  <2>2. /\ Len(more) = k + 1 /\ more[k+1] = now /\ more # <<>>
        /\ \A n \in 1..k : more[n] = full[n]
    <3>. HIDE DEF V, full, now
    <3>. QED BY <1>1
  <2>3. Length(now) + 1 + tl >= budget
    BY <1>1, <1>2, <1>3, <1>4, <1>8
  <2>4. ASSUME NEW n \in 1..(k+1)
        PROVE  /\ more[n] # <<>>
               /\ Length(more[n]) < budget \/ Len(more[n]) = 1
               /\ n < k + 1 =>
                     Length(more[n]) + 1 + TurnLength(Head(more[n+1])) >= budget
    <3>1. CASE n = k + 1
      <4>1. more[n] = now /\ ~(n < k + 1)
        BY <1>1, <2>2, <3>1
      <4>. HIDE DEF more, now
      <4>2. now # <<>> /\ (Length(now) < budget \/ Len(now) = 1)
        BY <1>8 DEF FullAndFilling, now
      <4>. QED BY <4>1, <4>2
    <3>2. CASE n = k
      <4>1. n \in 1..k /\ more[n] = full[n] /\ more[n+1] = now /\ full # <<>>
        BY <1>1, <2>2, <3>2
      <4>2. full[n] # <<>> /\ (Length(full[n]) < budget \/ Len(full[n]) = 1)
        BY <4>1 DEF FullAndFilling
      <4>3. Length(full[n]) + 1 + TurnLength(Head(now)) >= budget
        BY <3>2, <4>1 DEF FullAndFilling
      <4>. HIDE DEF more, now, full
      <4>. QED BY <4>1, <4>2, <4>3
    <3>3. CASE n < k
      <4>1. n \in 1..k /\ n + 1 \in 1..k /\ more[n] = full[n] /\ more[n+1] = full[n+1]
        BY <1>1, <2>2, <3>3
      <4>2. /\ full[n] # <<>> /\ (Length(full[n]) < budget \/ Len(full[n]) = 1)
            /\ Length(full[n]) + 1 + TurnLength(Head(full[n+1])) >= budget
        BY <3>3, <4>1 DEF FullAndFilling
      <4>. HIDE DEF more, now, full
      <4>. QED BY <4>1, <4>2
    <3>. HIDE DEF more, now, full, k, V, tl
    <3>4. n = k + 1 \/ n = k \/ n < k
      BY <1>1
    <3>. QED BY <3>1, <3>2, <3>3, <3>4
  <2>5. /\ next.length = Length(next.now) + 1
        /\ next.now # <<>> /\ Len(next.now) = 1
        /\ Head(next.now) = line
        /\ Length(next.chunks[Len(next.chunks)]) + 1 + TurnLength(Head(next.now)) >= budget
    BY <1>5, <2>1, <2>2, <2>3
  <2>. HIDE DEF more, now, full, tl
  <2>6. \A n \in 1..Len(next.chunks) :
          /\ next.chunks[n] # <<>>
          /\ Length(next.chunks[n]) < budget \/ Len(next.chunks[n]) = 1
          /\ n < Len(next.chunks) =>
                Length(next.chunks[n]) + 1 + TurnLength(Head(next.chunks[n+1])) >= budget
    <3>. HIDE DEF next, k
    <3>. QED BY <2>1, <2>2, <2>4
  <2>. HIDE DEF next, k
  <2>7. FullAndFilling(next, budget)
    BY <2>5, <2>6 DEF FullAndFilling
  <2>. QED BY <2>7 DEF next
<1>9. CASE ~(now # <<>> /\ ~Fits(made, line, budget))
  <2>. DEFINE next == AddTurn(made, line, budget)
  <2>1. next.chunks = full /\ next.now = Append(now, line) /\ next.length = made.length + tl + 1
    BY <1>9 DEF AddTurn
  <2>2. next.length = Length(next.now) + 1 /\ next.now # <<>>
    BY <1>1, <1>2, <1>3, <1>6, <2>1
  <2>3. Length(next.now) < budget \/ Len(next.now) = 1
    <3>1. CASE now = <<>>
      BY <1>6, <2>1, <3>1
    <3>2. CASE now # <<>>
      BY <1>1, <1>2, <1>3, <1>4, <1>9, <2>1, <3>2
    <3>. QED BY <3>1, <3>2
  <2>4. ASSUME full # <<>>
        PROVE  Length(full[k]) + 1 + TurnLength(Head(next.now)) >= budget
    <3>1. now # <<>> /\ Length(full[k]) + 1 + TurnLength(Head(now)) >= budget
      BY <2>4 DEF FullAndFilling
    <3>2. Head(next.now) = Head(now)
      BY <1>6, <2>1, <3>1
    <3>. HIDE DEF next, now, full, k
    <3>. QED BY <3>1, <3>2
  <2>5. \A n \in 1..Len(full) :
          /\ full[n] # <<>>
          /\ Length(full[n]) < budget \/ Len(full[n]) = 1
          /\ n < Len(full) =>
                Length(full[n]) + 1 + TurnLength(Head(full[n+1])) >= budget
    BY DEF FullAndFilling
  <2>. HIDE DEF next, now, full, tl
  <2>6. FullAndFilling(next, budget)
    BY <2>1, <2>2, <2>3, <2>4, <2>5 DEF FullAndFilling
  <2>. QED BY <2>6 DEF next
<1>. QED BY <1>8, <1>9

\* The budget is a number.
LEMMA BudgetType ==
  ASSUME NEW window \in Windows
  PROVE  BudgetCharacters(window) \in Int
<1>. DEFINE a == window - Reserved
            b == Least
<1>1. a \in Int /\ b \in Int
  BY TextAssumption
<1>. HIDE DEF a, b
<1>2. \E x \in {a, b} : \A y \in {a, b} : x >= y
  BY <1>1
<1>3. Max({a, b}) \in {a, b}
  BY <1>2 DEF Max
<1>. QED BY <1>1, <1>3 DEF BudgetCharacters, a, b

\* The lines that say something are lines.
LEMMA SpokenIsLines ==
  ASSUME transcript \in Seq(SpokenLine)
  PROVE  DropEmpty(transcript) \in Seq(SpokenLine)
<1>1. PICK P, K : Keeps(P, K, transcript, SpokenLine) /\ P[Len(transcript)] = DropEmpty(transcript)
  BY EmptyKeeps
<1>. QED BY <1>1, KeepsAll

Cut(P, s, budget, k) ==
    /\ FullAndFilling(P[k], budget)
    /\ Len(AllChunked(P[k])) = k
    /\ \A i \in 1..k : AllChunked(P[k])[i] = s[i]

\* One turn more is cut as it was.
LEMMA CutOnward ==
  ASSUME NEW s \in Seq(SpokenLine), NEW budget \in Int, NEW P, Makes(P, s, budget),
         NEW k \in 0..Len(s)-1, Cut(P, s, budget, k)
  PROVE  Cut(P, s, budget, k + 1)
<1>. DEFINE line == s[k+1]
            all == AllChunked(P[k])
<1>1. k \in 0..Len(s) /\ k + 1 \in 1..Len(s) /\ k \in Nat /\ line \in SpokenLine
  OBVIOUS
<1>2. P[k] \in Made /\ P[k+1] = AddTurn(P[k], line, budget)
  BY <1>1 DEF Makes
<1>. HIDE DEF line
<1>3. FullAndFilling(P[k+1], budget)
  BY <1>1, <1>2, StaysFullAndFilling DEF Cut
<1>4. AllChunked(P[k+1]) = Append(all, line) /\ all \in Seq(SpokenLine)
  BY <1>1, <1>2, TurnAdded
<1>5. Len(all) = k /\ \A i \in 1..k : all[i] = s[i]
  BY DEF Cut
<1>. HIDE DEF all
<1>6. /\ Len(Append(all, line)) = k + 1
      /\ \A i \in 1..k+1 : Append(all, line)[i] = s[i]
  BY <1>1, <1>4, <1>5 DEF line
<1>. QED BY <1>3, <1>4, <1>6 DEF Cut

\* At the end all turns are in the chunks, in their order.
LEMMA AllCut ==
  ASSUME NEW s \in Seq(SpokenLine), NEW budget \in Int, NEW P, Makes(P, s, budget)
  PROVE  FullAndFilling(P[Len(s)], budget) /\ AllChunked(P[Len(s)]) = s
<1>. DEFINE n == Len(s)
            N == {k \in Nat : k <= n => Cut(P, s, budget, k)}
<1>0. n \in Nat
  OBVIOUS
<1>1. 0 \in N
  <2>1. P[0] = NothingMade
    BY DEF Makes
  <2>2. FullAndFilling(P[0], budget) /\ AllChunked(P[0]) = <<>>
    BY <2>1, FillingStarts
  <2>3. Cut(P, s, budget, 0)
    BY <2>2 DEF Cut
  <2>. QED BY <2>3
<1>2. ASSUME NEW k \in Nat, k \in N PROVE k + 1 \in N
  <2>. SUFFICES ASSUME k + 1 <= n PROVE Cut(P, s, budget, k + 1)
    OBVIOUS
  <2>1. k \in 0..Len(s)-1 /\ Cut(P, s, budget, k)
    BY <1>0, <1>2
  <2>. QED BY <2>1, CutOnward
<1>3. Cut(P, s, budget, n)
  <2>1. n \in N
    <3>. HIDE DEF N, n
    <3>. QED BY <1>0, <1>1, <1>2, Induct
  <2>. QED BY <1>0, <2>1
<1>4. P[n] \in Made
  BY <1>0 DEF Makes
<1>5. AllChunked(P[n]) \in Seq(SpokenLine)
  <2>1. <<>> \in Seq(SpokenLine)
    OBVIOUS
  <2>2. CASE n = 0
    BY <1>3, <1>4, <2>1, <2>2, FillingStarts DEF Makes
  <2>3. CASE n # 0
    <3>1. n \in 1..n /\ s[n] \in SpokenLine
      BY <1>0, <2>3
    <3>. QED BY <1>4, <3>1, TurnAdded
  <2>. QED BY <2>2, <2>3
<1>6. AllChunked(P[n]) = s
  <2>. DEFINE all == AllChunked(P[n])
  <2>1. Len(all) = Len(s) /\ \A i \in 1..Len(s) : all[i] = s[i]
    BY <1>3 DEF Cut
  <2>. HIDE DEF all, n
  <2>2. all \in Seq(SpokenLine)
    BY <1>5 DEF all
  <2>3. all = s
    BY <2>1, <2>2
  <2>. QED BY <2>3 DEF all
<1>. QED BY <1>3, <1>6 DEF Cut

\* The chunks are right for any budget and transcript.
LEMMA ChunkedFits ==
  ASSUME NEW budget \in Int, transcript \in Seq(SpokenLine)
  PROVE  LET chunks == Chunks(budget)
         IN  /\ FlattenSeq(chunks) = DropEmpty(transcript)
             /\ \A n \in DOMAIN chunks :
                   /\ chunks[n] # <<>>
                   /\ Length(chunks[n]) < budget \/ Len(chunks[n]) = 1
                   /\ n < Len(chunks) =>
                         Length(chunks[n]) + 1 + TurnLength(Head(chunks[n + 1])) >= budget
<1>. DEFINE s == DropEmpty(transcript)
            n == Len(s)
            V == Seq(SpokenLine)
            chunks == Chunks(budget)
<1>1. s \in V
  BY SpokenIsLines
<1>2. PICK P : Makes(P, s, budget)
               /\ chunks = IF P[n].now = <<>> THEN P[n].chunks ELSE Append(P[n].chunks, P[n].now)
  BY <1>1, MakesExist
<1>. HIDE DEF s, chunks
<1>3. FullAndFilling(P[n], budget) /\ AllChunked(P[n]) = s
  BY <1>1, <1>2, AllCut
<1>4. P[n] \in Made
  BY <1>1, <1>2 DEF Makes
<1>. DEFINE full == P[n].chunks
            now == P[n].now
            k == Len(full)
<1>5. full \in Seq(V) /\ now \in V /\ k \in Nat
  BY <1>4 DEF Made
<1>6. FlattenSeq(full) \in V /\ FlattenSeq(Append(full, now)) = FlattenSeq(full) \o now
  BY <1>5, FlattenAppend
<1>7. FlattenSeq(full) \o now = s
  BY <1>3 DEF AllChunked
<1>8. CASE now = <<>>
  <2>1. chunks = full
    BY <1>2, <1>8
  <2>2. FlattenSeq(full) \o <<>> = FlattenSeq(full)
    BY <1>6, ConcatEmptySeq
  <2>3. FlattenSeq(chunks) = s
    BY <1>7, <1>8, <2>1, <2>2
  <2>4. DOMAIN full = 1..k
    <3>. HIDE DEF V, full
    <3>. QED BY <1>5
  <2>5. \A i \in 1..k : /\ full[i] # <<>>
                        /\ Length(full[i]) < budget \/ Len(full[i]) = 1
                        /\ i < k => Length(full[i]) + 1 + TurnLength(Head(full[i + 1])) >= budget
    BY <1>3 DEF FullAndFilling
  <2>. HIDE DEF full, now
  <2>. QED BY <2>1, <2>3, <2>4, <2>5 DEF chunks, s
<1>9. CASE now # <<>>
  <2>1. chunks = Append(full, now)
    BY <1>2, <1>9
  <2>2. FlattenSeq(chunks) = s
    BY <1>6, <1>7, <2>1
  <2>3. /\ Len(chunks) = k + 1 /\ chunks[k+1] = now /\ DOMAIN chunks = 1..(k+1)
        /\ \A i \in 1..k : chunks[i] = full[i]
    <3>. HIDE DEF V, full, now
    <3>. QED BY <1>5, <2>1
  <2>4. ASSUME NEW i \in 1..(k+1)
        PROVE  /\ chunks[i] # <<>>
               /\ Length(chunks[i]) < budget \/ Len(chunks[i]) = 1
               /\ i < k + 1 =>
                     Length(chunks[i]) + 1 + TurnLength(Head(chunks[i + 1])) >= budget
    <3>1. CASE i = k + 1
      <4>1. chunks[i] = now /\ ~(i < k + 1)
        BY <1>5, <2>3, <3>1
      <4>2. Length(now) < budget \/ Len(now) = 1
        BY <1>3, <1>9 DEF FullAndFilling
      <4>. HIDE DEF full, now
      <4>. QED BY <1>9, <4>1, <4>2
    <3>2. CASE i = k
      <4>1. i \in 1..k /\ chunks[i] = full[i] /\ chunks[i+1] = now /\ full # <<>>
        <5>1. full # <<>>
          BY <1>5, <3>2
        <5>. HIDE DEF full, now, k
        <5>. QED BY <1>5, <2>3, <3>2, <5>1
      <4>2. full[i] # <<>> /\ (Length(full[i]) < budget \/ Len(full[i]) = 1)
        BY <1>3, <4>1 DEF FullAndFilling
      <4>3. Length(full[i]) + 1 + TurnLength(Head(now)) >= budget
        BY <1>3, <3>2, <4>1 DEF FullAndFilling
      <4>. HIDE DEF full, now
      <4>. QED BY <4>1, <4>2, <4>3
    <3>3. CASE i < k
      <4>1. i \in 1..k /\ i + 1 \in 1..k /\ chunks[i] = full[i] /\ chunks[i+1] = full[i+1]
        <5>. HIDE DEF full, now, k
        <5>. QED BY <1>5, <2>3, <3>3
      <4>2. /\ full[i] # <<>> /\ (Length(full[i]) < budget \/ Len(full[i]) = 1)
            /\ Length(full[i]) + 1 + TurnLength(Head(full[i+1])) >= budget
        BY <1>3, <3>3, <4>1 DEF FullAndFilling
      <4>. HIDE DEF full, now
      <4>. QED BY <4>1, <4>2
    <3>. HIDE DEF full, now, k, chunks
    <3>. QED BY <1>5, <3>1, <3>2, <3>3
  <2>. HIDE DEF k
  <2>. QED BY <2>2, <2>3, <2>4 DEF chunks, s
<1>. QED BY <1>8, <1>9

\* The chunks of a summary hold every turn once and in order, each under the budget unless it is
\* one turn, and none is cut short (chunk_transcript), for any transcript and context window.
THEOREM ChunksAreRight == TextSpec => []ChunksFit
<1>1. TextInv => ChunksFit
  <2>. SUFFICES ASSUME TextInv PROVE ChunksFit
    OBVIOUS
  <2>. DEFINE Fine(budget, chunks) ==
                /\ FlattenSeq(chunks) = DropEmpty(transcript)
                /\ \A n \in DOMAIN chunks :
                      /\ chunks[n] # <<>>
                      /\ Length(chunks[n]) < budget \/ Len(chunks[n]) = 1
                      /\ n < Len(chunks) =>
                            Length(chunks[n]) + 1 + TurnLength(Head(chunks[n + 1])) >= budget
  <2>1. ASSUME NEW window \in Windows
        PROVE  Fine(BudgetCharacters(window), Chunks(BudgetCharacters(window)))
    <3>1. BudgetCharacters(window) \in Int
      BY BudgetType
    <3>2. ASSUME NEW budget, budget = BudgetCharacters(window)
          PROVE  Fine(budget, Chunks(budget))
      BY <3>1, <3>2, ChunkedFits DEF TextInv, LinesOK
    <3>. HIDE DEF Fine
    <3>. QED BY <3>2
  <2>. QED BY <2>1 DEF ChunksFit
<1>. QED BY <1>1, TextInitInv, TextStepInv, PTL DEF TextSpec
-----------------------------------------------------------------------------
(* TranscriptEdits *)

USE DEF queue, project, run, editors, history
-----------------------------------------------------------------------------
(* The inductive invariant: types *)

Transcripts == UNION {[D -> Line] : D \in SUBSET (Nat \ {0})}
Copies == [lines : Transcripts \cup {None}, original : BOOLEAN]
Saving == [line : Nat, name : Names, new : BOOLEAN]

Bound(L) == L \in Transcripts /\ DOMAIN L \subseteq 1 .. written
Named(L) == \A n \in DOMAIN L : speakers[L[n].speaker] > 0

QueueTypes ==
    /\ status \in [Tasks -> {"none", "PENDING", "WORKING", "DONE", "FAILED"}]
    /\ attempts \in [Tasks -> Nat]

ProjectTypes ==
    /\ written \in Nat
    /\ Bound(lines) /\ Named(lines)
    /\ speakers \in [Names -> Nat]

SnapshotTypes ==
    /\ snapshots \in Seq(Copies)
    /\ \A i \in DOMAIN snapshots : Whole(snapshots[i]) => Bound(snapshots[i].lines)
    /\ step \in {"vacuum", "read", "rewrite"} => snapshots # <<>>

\* What a handler holds is still true of the speakers when it is used.
RunTypes ==
    /\ cur \in Tasks \cup {NoTask}
    /\ step \in Step
    /\ cur = NoTask <=> step \in {"down", "idle"}
    /\ step \in {"look up", "import"} => cur \in Imports
    /\ step = "rewrite" => Bound(held) /\ Named(held)
    /\ step = "import" =>
        /\ held \in BOOLEAN
        /\ cur \in Appending /\ ~held => speakers[NameIn[cur]] > 0
    /\ step = "add" => held \in Nat \ {0}
    /\ step \notin {"rewrite", "import", "add"} => held = None

EditorTypes ==
    /\ shown \in [Clients -> Transcripts]
    /\ \A v \in Clients : Bound(shown[v])
    /\ pending \in [Clients -> Saving \cup {None}]
    /\ \A v \in Clients :
          pending[v] # None /\ ~pending[v].new => speakers[pending[v].name] > 0

HistoryTypes ==
    /\ touched \in BOOLEAN /\ rewrites \in BOOLEAN /\ torn \in BOOLEAN
    /\ spent \in [Bounded -> Nat]

Typed ==
    /\ QueueTypes /\ ProjectTypes /\ summaries \in Seq(Nat \ {0}) /\ SnapshotTypes
    /\ RunTypes /\ EditorTypes /\ HistoryTypes
-----------------------------------------------------------------------------
(* The inductive invariant: what is promised *)

\* A snapshot under way is the last of them, and never the only one of a transcript that
\* was cleaned before.
CopiesKept ==
    /\ ~torn =>
        \A i \in DOMAIN snapshots :
            i < Len(snapshots) \/ step # "vacuum" => Whole(snapshots[i])
    /\ rewrites => Len(snapshots) >= IF step = "vacuum" THEN 2 ELSE 1
    /\ snapshots # <<>> => snapshots[1].original

NewestIsLines ==
    step \in {"read", "rewrite"} /\ ~touched => snapshots[Len(snapshots)].lines = lines

\* The number a summary is to have is greater than all there are.
NumbersApart ==
    /\ SummariesNumbered
    /\ step = "add" => \A i \in DOMAIN summaries : summaries[i] < held

\* A line has pieces from its own number on, up to the last imported, each number once ...
Single(text) == \A p, q \in text : p.no = q.no => p = q
Placed(w, L) ==
    \A n \in DOMAIN L :
        /\ Single(L[n].text)
        /\ \A p \in L[n].text : n <= p.no /\ p.no <= w

\* ... and none from the next line of Y on, if it is a line of Y.
Apart(X, Y) ==
    \A n \in DOMAIN X \cap DOMAIN Y, m \in DOMAIN Y :
        n < m => \A p \in X[n].text : p.no < m

\* So it is with the lines L, with what the editors show in S, and with what a clean that
\* is busy has read in H.
InPlace(w, L, S, H, busy) ==
    /\ Placed(w, L) /\ Apart(L, L)
    /\ \A v \in Clients : Placed(w, S[v]) /\ Apart(S[v], L)
    /\ busy =>
        /\ Placed(w, H) /\ Apart(H, H) /\ Apart(L, H)
        /\ \A v \in Clients : Apart(S[v], H)
        /\ DOMAIN L \subseteq DOMAIN H

PiecesApart == InPlace(written, lines, shown, held, step = "rewrite")

\* What an editor still shows may be saved into a line there is, or was when a clean read
\* them.
IsLive(p, L, S, H, busy) ==
    \/ \E n \in DOMAIN L : p \in L[n].text
    \/ busy /\ \E n \in DOMAIN H : p \in H[n].text
    \/ \E v \in Clients : \E n \in DOMAIN S[v] :
          (n \in DOMAIN L \/ (busy /\ n \in DOMAIN H)) /\ p \in S[v][n].text

\* The pieces of an overwriting import are those of one run of it.
Runs(L, S, H, busy) ==
    \A t \in Imports \ Appending : \E b \in Nat :
        \A p : IsLive(p, L, S, H, busy) /\ p.of = t =>
                  b < p.no /\ p.no <= b + Len(TextOf[t])

OneRun == Runs(lines, shown, held, step = "rewrite")
-----------------------------------------------------------------------------
(* Transcripts *)

LEMMA TranscriptIs ==
    ASSUME NEW L
    PROVE  L \in Transcripts <=> L \in [DOMAIN L -> Line] /\ DOMAIN L \subseteq Nat \ {0}
BY DEF Transcripts

LEMMA LineIs ==
    ASSUME NEW x \in Line
    PROVE  x.speaker \in Names /\ x.text \in SUBSET Piece
BY DEF Line

LEMMA EmptyTranscript == <<>> \in Transcripts /\ DOMAIN <<>> = {}
<1>1. <<>> \in [{} -> Line]
  OBVIOUS
<1>. QED
  BY <1>1 DEF Transcripts

LEMMA ChangedText ==
    ASSUME NEW L \in Transcripts, NEW n \in DOMAIN L, NEW text \in SUBSET Piece,
           NEW M, M = [L EXCEPT ![n].text = text]
    PROVE  /\ M \in Transcripts /\ DOMAIN M = DOMAIN L
           /\ \A m \in DOMAIN L : M[m].speaker = L[m].speaker
           /\ \A m \in DOMAIN L : M[m].text = IF m = n THEN text ELSE L[m].text
<1>1. L \in [DOMAIN L -> Line] /\ DOMAIN L \subseteq Nat \ {0}
  BY TranscriptIs
<1>2. L[n] \in [speaker : Names, text : SUBSET Piece]
  BY <1>1 DEF Line
<1>3. /\ [L[n] EXCEPT !.text = text] \in [speaker : Names, text : SUBSET Piece]
      /\ [L[n] EXCEPT !.text = text].speaker = L[n].speaker
      /\ [L[n] EXCEPT !.text = text].text = text
  BY <1>2
<1>4. /\ DOMAIN M = DOMAIN L /\ M[n] = [L[n] EXCEPT !.text = text]
      /\ \A m \in DOMAIN L : m # n => M[m] = L[m]
  BY <1>1
<1>5. M \in [DOMAIN L -> Line]
  BY <1>1, <1>3 DEF Line
<1>6. M \in Transcripts
  BY <1>1, <1>4, <1>5, TranscriptIs
<1>. QED
  BY <1>3, <1>4, <1>6

LEMMA ChangedSpeaker ==
    ASSUME NEW L \in Transcripts, NEW n \in DOMAIN L, NEW a \in Names,
           NEW M, M = [L EXCEPT ![n].speaker = a]
    PROVE  /\ M \in Transcripts /\ DOMAIN M = DOMAIN L
           /\ \A m \in DOMAIN L : M[m].text = L[m].text
           /\ \A m \in DOMAIN L : M[m].speaker = IF m = n THEN a ELSE L[m].speaker
<1>1. L \in [DOMAIN L -> Line] /\ DOMAIN L \subseteq Nat \ {0}
  BY TranscriptIs
<1>2. L[n] \in [speaker : Names, text : SUBSET Piece]
  BY <1>1 DEF Line
<1>3. /\ [L[n] EXCEPT !.speaker = a] \in [speaker : Names, text : SUBSET Piece]
      /\ [L[n] EXCEPT !.speaker = a].speaker = a
      /\ [L[n] EXCEPT !.speaker = a].text = L[n].text
  BY <1>2
<1>4. /\ DOMAIN M = DOMAIN L /\ M[n] = [L[n] EXCEPT !.speaker = a]
      /\ \A m \in DOMAIN L : m # n => M[m] = L[m]
  BY <1>1
<1>5. M \in [DOMAIN L -> Line]
  BY <1>1, <1>3 DEF Line
<1>6. M \in Transcripts
  BY <1>1, <1>4, <1>5, TranscriptIs
<1>. QED
  BY <1>3, <1>4, <1>6

LEMMA FewerLines ==
    ASSUME NEW L \in Transcripts, NEW D \in SUBSET (DOMAIN L)
    PROVE  LET M == [n \in D |-> L[n]]
           IN  M \in Transcripts /\ DOMAIN M = D /\ \A n \in D : M[n] = L[n]
<1>1. L \in [DOMAIN L -> Line] /\ DOMAIN L \subseteq Nat \ {0}
  BY TranscriptIs
<1>2. [n \in D |-> L[n]] \in [D -> Line]
  BY <1>1
<1>. QED
  BY <1>1, <1>2 DEF Transcripts

LEMMA CleanedIs ==
    ASSUME NEW L \in Transcripts
    PROVE  /\ Cleaned(L) \in Transcripts
           /\ DOMAIN Cleaned(L) = Firsts(L) /\ Firsts(L) \subseteq DOMAIN L
           /\ \A n \in Firsts(L) : Cleaned(L)[n].speaker = L[n].speaker
           /\ \A n \in Firsts(L) : Cleaned(L)[n].text = UNION {L[m].text : m \in Turn(L, n)}
<1>1. L \in [DOMAIN L -> Line] /\ DOMAIN L \subseteq Nat \ {0}
  BY TranscriptIs
<1>2. Firsts(L) \subseteq DOMAIN L /\ \A n : Turn(L, n) \subseteq DOMAIN L
  BY DEF Firsts, Turn, Survivors
<1>3. \A m \in DOMAIN L : L[m].speaker \in Names /\ L[m].text \in SUBSET Piece
  BY <1>1, LineIs
<1>4. \A n \in Firsts(L) :
        [speaker |-> L[n].speaker, text |-> UNION {L[m].text : m \in Turn(L, n)}] \in Line
  BY <1>2, <1>3 DEF Line
<1>5. Cleaned(L) \in [Firsts(L) -> Line]
  BY <1>4 DEF Cleaned
<1>6. Cleaned(L) \in Transcripts
  BY <1>1, <1>2, <1>5 DEF Transcripts
<1>. QED
  BY <1>2, <1>6 DEF Cleaned

LEMMA CorrectedIs ==
    ASSUME NEW text \in SUBSET Piece
    PROVE  /\ Corrected(text) \in SUBSET Piece
           /\ \A q \in Corrected(text) : \E p \in text : q.no = p.no /\ q.of = p.of
           /\ Single(text) => Single(Corrected(text))
<1>1. \A p \in Piece :
        LET q == [p EXCEPT !.is = "corrected"]
        IN  q \in Piece /\ q.no = p.no /\ q.of = p.of
  BY DEF Piece
<1>2. \A q \in Corrected(text) : \E p \in text : q = [p EXCEPT !.is = "corrected"]
  BY DEF Corrected
<1>3. ASSUME NEW q \in Corrected(text)
      PROVE  q \in Piece /\ \E p \in text : q.no = p.no /\ q.of = p.of
  <2>1. PICK p \in text : q = [p EXCEPT !.is = "corrected"]
    BY <1>2
  <2>. QED
    BY <1>1, <2>1
<1>5. ASSUME Single(text), NEW q \in Corrected(text), NEW r \in Corrected(text), q.no = r.no
      PROVE  q = r
  <2>1. PICK p \in text : q = [p EXCEPT !.is = "corrected"]
    BY <1>2
  <2>2. PICK o \in text : r = [o EXCEPT !.is = "corrected"]
    BY <1>2
  <2>3. p.no = o.no
    BY <1>1, <1>5, <2>1, <2>2
  <2>. QED
    BY <1>5, <2>1, <2>2, <2>3 DEF Single
<1>. QED
  BY <1>3, <1>5 DEF Single

\* The lines that an import leaves.
Joined ==
    [n \in DOMAIN KeptLines \cup DOMAIN NewLines(cur) |->
       IF n > written THEN NewLines(cur)[n] ELSE lines[n]]
New == written + 1 .. written + Len(TextOf[cur])

LEMMA JoinedIs ==
    ASSUME ProjectTypes, cur \in Imports
    PROVE  /\ Joined \in Transcripts
           /\ Len(TextOf[cur]) \in Nat
           /\ DOMAIN Joined = DOMAIN KeptLines \cup New
           /\ DOMAIN KeptLines \subseteq DOMAIN lines
           /\ \A n \in DOMAIN KeptLines : n <= written /\ Joined[n] = lines[n]
           /\ \A n \in New : n > written /\ Joined[n].speaker = NameIn[cur]
           /\ \A n \in New : \E is : Joined[n].text = {[of |-> cur, no |-> n, is |-> is]}
<1>1. TextOf[cur] \in Seq({"speech", "junk"}) /\ NameIn[cur] \in Names
  BY EditsAssumption DEF Imports
<1>2. Len(TextOf[cur]) \in Nat /\ \A i \in 1 .. Len(TextOf[cur]) : TextOf[cur][i] \in {"speech", "junk"}
  BY <1>1, LenProperties
<1>3. written \in Nat /\ lines \in [DOMAIN lines -> Line] /\ DOMAIN lines \subseteq 1 .. written
  BY TranscriptIs DEF ProjectTypes, Bound
<1>4. DOMAIN KeptLines \subseteq DOMAIN lines
  BY DEF KeptLines
<1>5. DOMAIN NewLines(cur) = New
  BY DEF NewLines, New
<1>6. \A n \in New : n > written /\ n \in Nat \ {0} /\ n - written \in 1 .. Len(TextOf[cur])
  BY <1>2, <1>3 DEF New
<1>7. ASSUME NEW n \in New
      PROVE  /\ Joined[n] = [speaker |-> NameIn[cur],
                             text |-> {[of |-> cur, no |-> n, is |-> TextOf[cur][n - written]]}]
             /\ Joined[n] \in Line
             /\ Joined[n].speaker = NameIn[cur]
             /\ Joined[n].text = {[of |-> cur, no |-> n, is |-> TextOf[cur][n - written]]}
  <2>1. Joined[n] = NewLines(cur)[n]
    BY <1>5, <1>6 DEF Joined
  <2>2. NewLines(cur)[n] = [speaker |-> NameIn[cur],
                            text |-> {[of |-> cur, no |-> n, is |-> TextOf[cur][n - written]]}]
    BY <1>5 DEF NewLines, New
  <2>3. [of |-> cur, no |-> n, is |-> TextOf[cur][n - written]] \in Piece
    BY <1>2, <1>6 DEF Piece
  <2>. QED
    BY <1>1, <2>1, <2>2, <2>3 DEF Line
<1>8. ASSUME NEW n \in DOMAIN KeptLines
      PROVE  n <= written /\ Joined[n] = lines[n] /\ Joined[n] \in Line /\ n \in Nat \ {0}
  <2>1. n \in 1 .. written /\ n \in DOMAIN lines
    BY <1>3, <1>4
  <2>2. n <= written /\ ~(n > written) /\ n \in Nat \ {0}
    BY <1>3, <2>1
  <2>3. Joined[n] = lines[n]
    BY <2>2 DEF Joined
  <2>. QED
    BY <1>3, <2>1, <2>2, <2>3
<1>9. DOMAIN Joined = DOMAIN KeptLines \cup New /\ Joined = [n \in DOMAIN Joined |-> Joined[n]]
  BY <1>5 DEF Joined
<1>10. Joined \in [DOMAIN Joined -> Line] /\ DOMAIN Joined \subseteq Nat \ {0}
  BY <1>6, <1>7, <1>8, <1>9
<1>11. Joined \in Transcripts
  BY <1>10, TranscriptIs
<1>12. \A n \in New : Joined[n].speaker = NameIn[cur]
  BY <1>7
<1>13. \A n \in New : \E is : Joined[n].text = {[of |-> cur, no |-> n, is |-> is]}
  BY <1>7
<1>. QED
  BY <1>2, <1>4, <1>6, <1>8, <1>9, <1>11, <1>12, <1>13
-----------------------------------------------------------------------------
(* Snapshots and numbers of summaries *)

LEMMA PruneIs ==
    ASSUME NEW s \in Seq(Copies), s # <<>>
    PROVE  /\ Prune(s) \in Seq(Copies) /\ Prune(s) # <<>>
           /\ Prune(s)[1] = s[1]
           /\ Prune(s)[Len(Prune(s))] = s[Len(s)]
           /\ \A i \in DOMAIN Prune(s) : \E j \in DOMAIN s : Prune(s)[i] = s[j]
<1>1. Len(s) \in Nat \ {0} /\ DOMAIN s = 1 .. Len(s) /\ \A i \in 1 .. Len(s) : s[i] \in Copies
  BY EmptySeq, LenProperties, ElementOfSeq
<1>2. CASE Len(s) <= SnapshotsKept
  BY <1>1, <1>2 DEF Prune
<1>3. ASSUME ~(Len(s) <= SnapshotsKept)
      PROVE  /\ Prune(s) \in Seq(Copies) /\ Prune(s) # <<>>
             /\ Prune(s)[1] = s[1]
             /\ Prune(s)[Len(Prune(s))] = s[Len(s)]
             /\ \A i \in DOMAIN Prune(s) : \E j \in DOMAIN s : Prune(s)[i] = s[j]
  <2>. DEFINE m == Len(s) - SnapshotsKept + 2
              t == SubSeq(s, m, Len(s))
              h == <<Head(s)>>
  <2>1. m \in Int /\ 2 <= m /\ m <= Len(s)
    BY <1>1, <1>3, EditsAssumption
  <2>2. /\ t \in Seq(Copies) /\ Len(t) = Len(s) - m + 1
        /\ \A i \in 1 .. Len(s) - m + 1 : t[i] = s[m + i - 1]
    <3>1. \A i \in m .. Len(s) : s[i] \in Copies
      BY <1>1, <2>1
    <3>. HIDE DEF m
    <3>. QED
      BY <1>1, <2>1, <3>1, SubSeqProperties
  <2>3. h \in Seq(Copies) /\ Len(h) = 1 /\ h[1] = s[1]
    BY <1>1
  <2>4. /\ h \o t \in Seq(Copies) /\ Len(h \o t) = Len(h) + Len(t)
        /\ \A i \in 1 .. Len(h) + Len(t) : (h \o t)[i] = IF i <= Len(h) THEN h[i] ELSE t[i - Len(h)]
    BY <2>2, <2>3, ConcatProperties
  <2>5. Prune(s) = h \o t
    BY <1>3 DEF Prune
  <2>. HIDE DEF m, t, h
  <2>6. Len(Prune(s)) = Len(s) - m + 2 /\ Len(Prune(s)) \in Nat /\ Len(Prune(s)) >= 2
    BY <1>1, <2>1, <2>2, <2>3, <2>4, <2>5
  <2>7. DOMAIN Prune(s) = 1 .. Len(Prune(s))
    BY <2>4, <2>5, LenProperties
  <2>8. Prune(s)[1] = s[1]
    BY <2>3, <2>4, <2>5, <2>6
  <2>9. ASSUME NEW i \in 1 .. Len(Prune(s)), i # 1
        PROVE  m + i - 2 \in 1 .. Len(s) /\ Prune(s)[i] = s[m + i - 2]
    <3>1. i - 1 \in 1 .. Len(s) - m + 1 /\ m + (i - 1) - 1 = m + i - 2 /\ ~(i <= 1)
      BY <1>1, <2>1, <2>6, <2>9
    <3>2. Prune(s)[i] = t[i - 1]
      BY <2>2, <2>3, <2>4, <2>5, <2>6, <3>1
    <3>3. t[i - 1] = s[m + (i - 1) - 1]
      BY <2>2, <3>1
    <3>4. m + i - 2 \in 1 .. Len(s)
      BY <1>1, <2>1, <2>6, <2>9
    <3>. QED
      BY <3>1, <3>2, <3>3, <3>4
  <2>10. Prune(s)[Len(Prune(s))] = s[Len(s)]
    <3>1. Len(Prune(s)) \in 1 .. Len(Prune(s)) /\ Len(Prune(s)) # 1 /\ m + Len(Prune(s)) - 2 = Len(s)
      BY <1>1, <2>1, <2>6
    <3>. QED
      BY <2>9, <3>1
  <2>11. \A i \in DOMAIN Prune(s) : \E j \in DOMAIN s : Prune(s)[i] = s[j]
    BY <1>1, <2>7, <2>8, <2>9
  <2>12. Prune(s) # <<>>
    BY <2>6
  <2>. QED
    BY <2>4, <2>5, <2>8, <2>10, <2>11, <2>12
<1>. QED
  BY <1>2, <1>3

LEMMA FinishedIs ==
    ASSUME snapshots \in Seq(Copies), snapshots # <<>>, lines \in Transcripts, rewrites \in BOOLEAN
    PROVE  /\ FinishedSnapshot \in Seq(Copies) /\ FinishedSnapshot # <<>>
           /\ Len(FinishedSnapshot) = Len(snapshots)
           /\ \A i \in 1 .. Len(snapshots) - 1 : FinishedSnapshot[i] = snapshots[i]
           /\ FinishedSnapshot[Len(snapshots)] = [lines |-> lines, original |-> ~rewrites]
<1>. DEFINE s == SubSeq(snapshots, 1, Len(snapshots) - 1)
            x == [lines |-> lines, original |-> ~rewrites]
<1>1. Len(snapshots) \in Nat \ {0} /\ \A i \in 1 .. Len(snapshots) : snapshots[i] \in Copies
  BY EmptySeq, ElementOfSeq
<1>2. /\ s \in Seq(Copies) /\ Len(s) = Len(snapshots) - 1
      /\ \A i \in 1 .. Len(snapshots) - 1 : s[i] = snapshots[i]
  <2>1. \A i \in 1 .. Len(snapshots) - 1 : snapshots[i] \in Copies
    BY <1>1
  <2>. QED
    <3>. DEFINE n == Len(snapshots) - 1
    <3>1. n \in Nat
      BY <1>1
    <3>. HIDE DEF n
    <3>2. \A i \in 1 .. n : snapshots[i] \in Copies
      BY <2>1 DEF n
    <3>3. /\ SubSeq(snapshots, 1, n) \in Seq(Copies)
          /\ Len(SubSeq(snapshots, 1, n)) = IF 1 <= n THEN n - 1 + 1 ELSE 0
          /\ \A i \in 1 .. n - 1 + 1 : SubSeq(snapshots, 1, n)[i] = snapshots[1 + i - 1]
      BY <3>1, <3>2, SubSeqProperties
    <3>4. n - 1 + 1 = n /\ \A i \in 1 .. n : 1 + i - 1 = i
      BY <3>1
    <3>5. Len(SubSeq(snapshots, 1, n)) = n
      BY <3>1, <3>3, <3>4
    <3>6. \A i \in 1 .. n : SubSeq(snapshots, 1, n)[i] = snapshots[i]
      BY <3>3, <3>4
    <3>. QED
      BY <3>3, <3>5, <3>6 DEF n
<1>3. x \in Copies
  BY DEF Copies
<1>. HIDE DEF s, x
<1>4. /\ Append(s, x) \in Seq(Copies) /\ Len(Append(s, x)) = Len(snapshots)
      /\ Append(s, x)[Len(snapshots)] = x
      /\ \A i \in 1 .. Len(snapshots) - 1 : Append(s, x)[i] = s[i]
  BY <1>1, <1>2, <1>3
<1>5. FinishedSnapshot = Append(s, x)
  BY DEF FinishedSnapshot, s, x
<1>6. FinishedSnapshot # <<>>
  BY <1>1, <1>4, <1>5
<1>. QED
  BY <1>2, <1>4, <1>5, <1>6 DEF x

\* A list of numbers has a greatest: the least of its bounds.
LEMMA GreatestIs ==
    ASSUME NEW s \in Seq(Nat \ {0})
    PROVE  Greatest(s) \in Nat /\ \A i \in DOMAIN s : s[i] <= Greatest(s)
<1>1. Len(s) \in Nat /\ DOMAIN s = 1 .. Len(s) /\ \A i \in 1 .. Len(s) : s[i] \in Nat
  BY LenProperties, ElementOfSeq
<1>3. PICK b \in Nat : \A i \in DOMAIN s : s[i] <= b
  <2>1. s \in [1 .. Len(s) -> Nat]
    BY <1>1
  <2>. QED
    BY <1>1, <2>1, BoundExists
<1>4. CASE s = <<>>
  BY <1>1, <1>4 DEF Greatest
<1>5. ASSUME s # <<>>
      PROVE  Greatest(s) \in Nat /\ \A i \in DOMAIN s : s[i] <= Greatest(s)
  <2>. DEFINE Bound0 == {c \in Nat : \A i \in DOMAIN s : s[i] <= c}
  <2>1. PICK c \in Bound0 : \A d \in Bound0 : c <= d
    BY <1>3, LeastExists
  <2>2. \E j \in DOMAIN s : s[j] = c
    <3>1. SUFFICES ASSUME \A j \in DOMAIN s : s[j] # c
                   PROVE  FALSE
      OBVIOUS
    <3>2. \A i \in DOMAIN s : s[i] \in Nat /\ s[i] <= c /\ s[i] # c
      BY <1>1, <2>1, <3>1
    <3>3. 1 \in DOMAIN s
      BY <1>1, <1>5, EmptySeq
    <3>4. c - 1 \in Nat /\ \A i \in DOMAIN s : s[i] <= c - 1
      BY <2>1, <3>2, <3>3
    <3>. QED
      BY <2>1, <3>4
  <2>3. \E n \in {s[i] : i \in DOMAIN s} : \A i \in DOMAIN s : s[i] <= n
    BY <2>1, <2>2
  <2>4. Greatest(s) = CHOOSE n \in {s[i] : i \in DOMAIN s} : \A i \in DOMAIN s : s[i] <= n
    BY <1>5 DEF Greatest
  <2>5. Greatest(s) \in {s[i] : i \in DOMAIN s} /\ \A i \in DOMAIN s : s[i] <= Greatest(s)
    BY <2>3, <2>4
  <2>. QED
    BY <1>1, <2>5
<1>. QED
  BY <1>4, <1>5
-----------------------------------------------------------------------------
(* What a step leaves alone *)

ChangesLines(v) ==
    \/ SaveSpeaker(v)
    \/ \E n \in DOMAIN shown[v] : EditText(v, n) \/ DeleteLine(v, n)

ChangesEditor(v) ==
    \/ ChangesLines(v) \/ LoadLines(v)
    \/ \E n \in DOMAIN shown[v], a \in Names : ChooseSpeaker(v, n, a)

WorkerStep == HandlerStep \/ Raises \/ Stop \/ Crash \/ Restart \/ \E t \in Tasks : Claim(t)

\* What may leave a snapshot unfinished.
CutsShort == (Crash \/ Raises) /\ torn' = (torn \/ step = "vacuum")

LinesKept ==
    \/ UNCHANGED <<lines, written, speakers>>
    \/ ImportLines \/ Rewrite \/ \E v \in Clients : ChangesLines(v)
SummariesKept ==
    \/ UNCHANGED summaries
    \/ AddSummary \/ \E i \in DOMAIN summaries : DeleteSummary(i)
SnapshotsStay ==
    \/ UNCHANGED snapshots
    \/ BeginSnapshot \/ Snapshot \/ (Stop /\ step = "vacuum")
RunKept == UNCHANGED run \/ WorkerStep
EditorsKept == UNCHANGED editors \/ \E v \in Clients : ChangesEditor(v)
HistoryKept ==
    /\ UNCHANGED touched \/ Snapshot \/ \E v \in Clients : ChangesLines(v)
    /\ UNCHANGED rewrites \/ Rewrite
    /\ UNCHANGED torn \/ CutsShort

LEMMA Leaves ==
    ASSUME [Next]_vars
    PROVE  LinesKept /\ SummariesKept /\ SnapshotsStay /\ RunKept /\ EditorsKept /\ HistoryKept
<1>. USE DEF LinesKept, SummariesKept, SnapshotsStay, RunKept, EditorsKept, HistoryKept
<1>. DEFINE Goal == LinesKept /\ SummariesKept /\ SnapshotsStay /\ RunKept /\ EditorsKept /\ HistoryKept
<1>1. ASSUME UNCHANGED vars PROVE Goal
  BY <1>1 DEF vars
<1>2. ASSUME NEW t \in Tasks, Claim(t) PROVE Goal
  BY <1>2 DEF Claim, WorkerStep
<1>3. ASSUME NEW t \in Tasks, Ask(t) PROVE Goal
  BY <1>3 DEF Ask
<1>4. ASSUME HandlerStep PROVE Goal
  <2>1. CASE LookUpSpeaker
    BY <1>4, <2>1 DEF LookUpSpeaker, WorkerStep
  <2>2. CASE ImportLines
    BY <1>4, <2>2 DEF ImportLines, WorkerStep
  <2>3. CASE BeginSnapshot
    BY <1>4, <2>3 DEF BeginSnapshot, WorkerStep
  <2>4. CASE Snapshot
    BY <1>4, <2>4 DEF Snapshot, WorkerStep
  <2>5. CASE ReadLines
    BY <1>4, <2>5 DEF ReadLines, WorkerStep
  <2>6. CASE Rewrite
    BY <1>4, <2>6 DEF Rewrite, WorkerStep
  <2>7. CASE Digest
    BY <1>4, <2>7 DEF Digest, WorkerStep
  <2>8. CASE AskModel
    BY <1>4, <2>8 DEF AskModel, WorkerStep
  <2>9. CASE PickNumber
    BY <1>4, <2>9 DEF PickNumber, WorkerStep
  <2>10. CASE AddSummary
    BY <1>4, <2>10 DEF AddSummary, WorkerStep
  <2>11. CASE Tag
    BY <1>4, <2>11 DEF Tag, WorkerStep
  <2>. QED
    BY <1>4, <2>1, <2>2, <2>3, <2>4, <2>5, <2>6, <2>7, <2>8, <2>9, <2>10, <2>11 DEF HandlerStep
<1>5. ASSUME Raises PROVE Goal
  BY <1>5 DEF Raises, WorkerStep, CutsShort
<1>6. ASSUME Stop PROVE Goal
  BY <1>6 DEF Stop, WorkerStep
<1>7. ASSUME Crash PROVE Goal
  BY <1>7 DEF Crash, WorkerStep, CutsShort
<1>8. ASSUME Restart PROVE Goal
  BY <1>8 DEF Restart, WorkerStep
<1>9. ASSUME NEW v \in Clients, EditorStep(v) PROVE Goal
  <2>1. CASE LoadLines(v)
    BY <2>1 DEF LoadLines, ChangesEditor
  <2>2. CASE SaveSpeaker(v)
    BY <2>2 DEF SaveSpeaker, ChangesEditor, ChangesLines
  <2>3. ASSUME NEW n \in DOMAIN shown[v], EditText(v, n) PROVE Goal
    BY <2>3 DEF EditText, ChangesEditor, ChangesLines
  <2>4. ASSUME NEW n \in DOMAIN shown[v], DeleteLine(v, n) PROVE Goal
    BY <2>4 DEF DeleteLine, ChangesEditor, ChangesLines
  <2>5. ASSUME NEW n \in DOMAIN shown[v], NEW a \in Names, ChooseSpeaker(v, n, a) PROVE Goal
    BY <2>5 DEF ChooseSpeaker, ChangesEditor
  <2>. QED
    BY <1>9, <2>1, <2>2, <2>3, <2>4, <2>5 DEF EditorStep
<1>10. ASSUME NEW i \in DOMAIN summaries, DeleteSummary(i) PROVE Goal
  BY <1>10 DEF DeleteSummary
<1>. QED
  BY <1>1, <1>2, <1>3, <1>4, <1>5, <1>6, <1>7, <1>8, <1>9, <1>10 DEF Next
-----------------------------------------------------------------------------
(* Type correctness *)

LEMMA StepQueue == Typed /\ [Next]_vars => QueueTypes'
<1>. SUFFICES ASSUME Typed, [Next]_vars
              PROVE  QueueTypes'
  OBVIOUS
<1>. USE DEF QueueTypes
<1>1. QueueTypes
  BY DEF Typed
<1>2. ASSUME NEW t \in Tasks,
             Take(t) \/ Succeed(t) \/ GiveBack(t) \/ Submit(t) \/ Retry(t)
      PROVE  QueueTypes'
  BY <1>1, <1>2 DEF Take, Succeed, GiveBack, Submit, Retry, Move
<1>3. ASSUME NEW S, LoseAttempt(S)
      PROVE  QueueTypes'
  BY <1>1, <1>3 DEF LoseAttempt
<1>4. ASSUME UNCHANGED queue
      PROVE  QueueTypes'
  BY <1>1, <1>4
<1>5. Succeeds => QueueTypes'
  BY <1>2 DEF Succeeds, Succeed, In
<1>6. Fails => QueueTypes'
  BY <1>3 DEF Fails
<1>7. ASSUME NEW t \in Tasks, Claim(t) \/ Ask(t)
      PROVE  QueueTypes'
  BY <1>2, <1>7 DEF Claim, Ask
<1>8. ASSUME HandlerStep \/ Raises
      PROVE  QueueTypes'
  BY <1>4, <1>5, <1>6, <1>8
     DEF HandlerStep, Raises, LookUpSpeaker, ImportLines, BeginSnapshot, Snapshot, ReadLines,
         Rewrite, Digest, AskModel, PickNumber, AddSummary, Tag, Then
<1>9. ASSUME Stop \/ Crash \/ Restart
      PROVE  QueueTypes'
  BY <1>2, <1>3, <1>4, <1>9 DEF Stop, Crash, Restart, GiveBack, In
<1>10. ASSUME NEW v \in Clients, EditorStep(v)
       PROVE  QueueTypes'
  BY <1>4, <1>10 DEF EditorStep, LoadLines, SaveSpeaker, EditText, DeleteLine, ChooseSpeaker
<1>11. ASSUME NEW i, DeleteSummary(i)
       PROVE  QueueTypes'
  BY <1>4, <1>11 DEF DeleteSummary
<1>12. CASE UNCHANGED vars
  BY <1>4, <1>12 DEF vars
<1>. QED
  BY <1>7, <1>8, <1>9, <1>10, <1>11, <1>12 DEF Next

\* What is known of a line that an editor changes.
LEMMA EditFacts ==
    ASSUME Typed, NEW v \in Clients
    PROVE  /\ shown[v] \in Transcripts /\ DOMAIN shown[v] \subseteq 1 .. written
           /\ lines \in Transcripts /\ DOMAIN lines \subseteq 1 .. written
           /\ \A n \in DOMAIN shown[v] : Corrected(shown[v][n].text) \in SUBSET Piece
           /\ \A n \in DOMAIN lines : lines[n].speaker \in Names
           /\ \A a \in Names : speakers[a] \in Nat
           /\ pending[v] # None => pending[v].line \in Nat /\ pending[v].name \in Names
                                   /\ pending[v].new \in BOOLEAN
<1>1. shown[v] \in Transcripts /\ lines \in Transcripts
  BY DEF Typed, EditorTypes, ProjectTypes, Bound
<1>2. shown[v] \in [DOMAIN shown[v] -> Line] /\ lines \in [DOMAIN lines -> Line]
  BY <1>1, TranscriptIs
<1>3. \A n \in DOMAIN shown[v] : Corrected(shown[v][n].text) \in SUBSET Piece
  BY <1>2, LineIs, CorrectedIs
<1>4. \A n \in DOMAIN lines : lines[n].speaker \in Names
  BY <1>2, LineIs
<1>5. pending[v] # None => pending[v].line \in Nat /\ pending[v].name \in Names
                           /\ pending[v].new \in BOOLEAN
  <2>1. pending[v] # None => pending[v] \in [line : Nat, name : Names, new : BOOLEAN]
    BY DEF Typed, EditorTypes, Saving
  <2>. QED
    BY <2>1
<1>. QED
  BY <1>1, <1>3, <1>4, <1>5 DEF Typed, EditorTypes, ProjectTypes, Bound

\* Lines are numbered on and speakers are added, neither ever back.
Grown ==
    /\ written' \in Nat /\ written <= written'
    /\ speakers' \in [Names -> Nat]
    /\ \A a \in Names : speakers[a] > 0 => speakers'[a] > 0

LEMMA StepProject == Typed /\ [Next]_vars => ProjectTypes' /\ Grown
<1>. SUFFICES ASSUME Typed, [Next]_vars
              PROVE  ProjectTypes' /\ Grown
  OBVIOUS
<1>1. /\ written \in Nat /\ speakers \in [Names -> Nat]
      /\ lines \in Transcripts /\ DOMAIN lines \subseteq 1 .. written
      /\ Named(lines)
  BY DEF Typed, ProjectTypes, Bound
<1>2. ASSUME NEW a \in Names
      PROVE  /\ WithRow(a) \in [Names -> Nat] /\ WithRow(a)[a] > 0
             /\ \A b \in Names : speakers[b] > 0 => WithRow(a)[b] > 0
  BY <1>1 DEF WithRow
<1>3. ASSUME UNCHANGED <<lines, written, speakers>>
      PROVE  ProjectTypes' /\ Grown
  <2>1. ProjectTypes' /\ written' = written /\ speakers' = speakers
    BY <1>1, <1>3 DEF ProjectTypes, Bound, Named
  <2>. QED
    BY <1>1, <2>1 DEF Grown
<1>4. ASSUME ImportLines
      PROVE  ProjectTypes' /\ Grown
  <2>. DEFINE missing == IF cur \in Appending THEN held ELSE speakers[NameIn[cur]] = 0
  <2>1. cur \in Imports /\ (cur \in Appending /\ ~held => speakers[NameIn[cur]] > 0)
    BY <1>4 DEF ImportLines, Typed, RunTypes
  <2>2. NameIn[cur] \in Names
    BY <2>1, EditsAssumption DEF Imports
  <2>3. CASE UNCHANGED project
    BY <1>3, <2>3
  <2>4. CASE /\ speakers' = IF missing THEN WithRow(NameIn[cur]) ELSE speakers
             /\ lines' = Joined /\ written' = written + Len(TextOf[cur])
    <3>1. /\ speakers' \in [Names -> Nat] /\ speakers'[NameIn[cur]] > 0
          /\ \A a \in Names : speakers[a] > 0 => speakers'[a] > 0
      <4>1. CASE missing
        BY <1>2, <2>2, <2>4, <4>1
      <4>2. CASE ~missing
        <5>1. speakers[NameIn[cur]] > 0
          BY <1>1, <2>1, <2>2, <4>2
        <5>. QED
          BY <1>1, <2>4, <4>2, <5>1
      <4>. QED
        BY <4>1, <4>2
    <3>2. ProjectTypes
      BY DEF Typed
    <3>3. Joined \in Transcripts /\ written' \in Nat /\ written <= written'
      BY <1>1, <2>1, <2>4, <3>2, JoinedIs
    <3>4. DOMAIN Joined \subseteq 1 .. written'
      BY <1>1, <2>1, <2>4, <3>2, JoinedIs DEF New
    <3>5. ASSUME NEW n \in DOMAIN Joined
          PROVE  speakers'[Joined[n].speaker] > 0
      <4>1. CASE n \in New
        BY <2>1, <3>1, <3>2, <4>1, JoinedIs
      <4>2. CASE n \in DOMAIN KeptLines
        <5>1. n \in DOMAIN lines /\ Joined[n] = lines[n]
          BY <2>1, <3>2, <4>2, JoinedIs
        <5>2. lines[n].speaker \in Names
          BY <1>1, <5>1, TranscriptIs, LineIs
        <5>. QED
          BY <1>1, <3>1, <5>1, <5>2 DEF Named
      <4>. QED
        BY <2>1, <3>2, <3>5, <4>1, <4>2, JoinedIs
    <3>. QED
      BY <2>4, <3>1, <3>3, <3>4, <3>5 DEF ProjectTypes, Bound, Named, Grown
  <2>. QED
    BY <1>4, <2>3, <2>4 DEF ImportLines, Joined
<1>5. ASSUME Rewrite
      PROVE  ProjectTypes' /\ Grown
  <2>1. /\ lines' = Cleaned(held) /\ written' = written /\ speakers' = speakers
        /\ held \in Transcripts /\ DOMAIN held \subseteq 1 .. written /\ Named(held)
    BY <1>5 DEF Rewrite, Typed, RunTypes, Bound
  <2>2. /\ Cleaned(held) \in Transcripts /\ DOMAIN Cleaned(held) \subseteq DOMAIN held
        /\ \A n \in DOMAIN Cleaned(held) : Cleaned(held)[n].speaker = held[n].speaker
    BY <2>1, CleanedIs
  <2>. QED
    BY <1>1, <2>1, <2>2 DEF ProjectTypes, Bound, Named, Grown
<1>6. ASSUME NEW v \in Clients, ChangesLines(v)
      PROVE  ProjectTypes' /\ Grown
  <2>1. ASSUME NEW n \in DOMAIN shown[v], EditText(v, n)
        PROVE  ProjectTypes' /\ Grown
    <3>. DEFINE text == Corrected(shown[v][n].text)
    <3>1. /\ n \in DOMAIN lines /\ lines' = [lines EXCEPT ![n].text = text]
          /\ written' = written /\ speakers' = speakers
      BY <2>1 DEF EditText
    <3>2. text \in SUBSET Piece
      BY EditFacts
    <3>. HIDE DEF text
    <3>3. /\ lines' \in Transcripts /\ DOMAIN lines' = DOMAIN lines
          /\ \A m \in DOMAIN lines : lines'[m].speaker = lines[m].speaker
      <4>1. n \in DOMAIN lines /\ lines \in Transcripts
        BY <1>1, <3>1
      <4>. DEFINE M == [lines EXCEPT ![n].text = text]
      <4>2. /\ M \in Transcripts /\ DOMAIN M = DOMAIN lines
            /\ \A m \in DOMAIN lines : M[m].speaker = lines[m].speaker
        BY <3>2, <4>1, ChangedText
      <4>3. lines' = M
        BY <3>1
      <4>. HIDE DEF M
      <4>. QED
        BY <4>2, <4>3
    <3>. QED
      BY <1>1, <3>1, <3>3 DEF ProjectTypes, Bound, Named, Grown
  <2>2. ASSUME NEW n \in DOMAIN shown[v], DeleteLine(v, n)
        PROVE  ProjectTypes' /\ Grown
    <3>1. /\ lines' = [m \in DOMAIN lines \ {n} |-> lines[m]]
          /\ written' = written /\ speakers' = speakers
      BY <2>2 DEF DeleteLine
    <3>2. /\ lines' \in Transcripts /\ DOMAIN lines' = DOMAIN lines \ {n}
          /\ \A m \in DOMAIN lines' : lines'[m] = lines[m]
      BY <1>1, <3>1, FewerLines
    <3>. QED
      BY <1>1, <3>1, <3>2 DEF ProjectTypes, Bound, Named, Grown
  <2>3. ASSUME SaveSpeaker(v)
        PROVE  ProjectTypes' /\ Grown
    <3>. DEFINE n == pending[v].line
                a == pending[v].name
    <3>1. CASE n \notin DOMAIN lines
      BY <1>3, <2>3, <3>1 DEF SaveSpeaker
    <3>2. CASE n \in DOMAIN lines
      <4>1. /\ speakers' = IF pending[v].new THEN WithRow(a) ELSE speakers
            /\ lines' = [lines EXCEPT ![n].speaker = a]
            /\ written' = written /\ pending[v] # None
        BY <2>3, <3>2 DEF SaveSpeaker
      <4>2. a \in Names /\ (~pending[v].new => speakers[a] > 0)
        BY <4>1, EditFacts DEF Typed, EditorTypes
      <4>. HIDE DEF a, n
      <4>3. /\ speakers' \in [Names -> Nat] /\ speakers'[a] > 0
            /\ \A b \in Names : speakers[b] > 0 => speakers'[b] > 0
        BY <1>1, <1>2, <4>1, <4>2
      <4>4. /\ lines' \in Transcripts /\ DOMAIN lines' = DOMAIN lines
            /\ \A m \in DOMAIN lines : lines'[m].speaker = IF m = n THEN a ELSE lines[m].speaker
        <5>1. n \in DOMAIN lines /\ lines \in Transcripts
          BY <1>1, <3>2
        <5>. DEFINE M == [lines EXCEPT ![n].speaker = a]
        <5>2. /\ M \in Transcripts /\ DOMAIN M = DOMAIN lines
              /\ \A m \in DOMAIN lines : M[m].speaker = IF m = n THEN a ELSE lines[m].speaker
          BY <4>2, <5>1, ChangedSpeaker
        <5>3. lines' = M
          BY <4>1
        <5>. HIDE DEF M
        <5>. QED
          BY <5>2, <5>3
      <4>5. \A m \in DOMAIN lines' : speakers'[lines'[m].speaker] > 0
        BY <1>1, <4>3, <4>4, EditFacts DEF Named
      <4>. QED
        BY <1>1, <4>1, <4>3, <4>4, <4>5 DEF ProjectTypes, Bound, Named, Grown
    <3>. QED
      BY <3>1, <3>2
  <2>. QED
    BY <1>6, <2>1, <2>2, <2>3 DEF ChangesLines
<1>. QED
  BY <1>3, <1>4, <1>5, <1>6, Leaves DEF LinesKept

LEMMA StepSnapshots == Typed /\ [Next]_vars => SnapshotTypes'
<1>. SUFFICES ASSUME Typed, [Next]_vars
              PROVE  SnapshotTypes'
  OBVIOUS
<1>1. /\ snapshots \in Seq(Copies) /\ written \in Nat /\ Grown
      /\ \A i \in DOMAIN snapshots : Whole(snapshots[i]) => Bound(snapshots[i].lines)
      /\ lines \in Transcripts /\ DOMAIN lines \subseteq 1 .. written
      /\ rewrites \in BOOLEAN
      /\ step \in {"vacuum", "read", "rewrite"} => snapshots # <<>>
  BY StepProject DEF Typed, SnapshotTypes, ProjectTypes, Bound, HistoryTypes
<1>2. ASSUME NEW L, Bound(L)
      PROVE  L \in Transcripts /\ DOMAIN L \subseteq 1 .. written'
  BY <1>1, <1>2 DEF Bound, Grown
<1>. DEFINE Keep(s) == \A i \in DOMAIN s :
                         s[i].lines # None => /\ s[i].lines \in Transcripts
                                              /\ DOMAIN s[i].lines \subseteq 1 .. written'
<1>3. Keep(snapshots)
  BY <1>1, <1>2 DEF Whole
<1>4. ASSUME Keep(snapshots'), snapshots' \in Seq(Copies),
             step' \in {"vacuum", "read", "rewrite"} => snapshots' # <<>>
      PROVE  SnapshotTypes'
  BY <1>4 DEF SnapshotTypes, Bound, Whole
<1>5. ASSUME UNCHANGED snapshots,
             step' \in {"vacuum", "read", "rewrite"} => snapshots # <<>>
      PROVE  SnapshotTypes'
  BY <1>1, <1>3, <1>4, <1>5
<1>6. ASSUME BeginSnapshot
      PROVE  SnapshotTypes'
  <2>. DEFINE x == [lines |-> None, original |-> ~rewrites]
  <2>1. x \in Copies /\ x.lines = None
    BY DEF Copies
  <2>2. snapshots' = Append(snapshots, x)
    BY <1>6 DEF BeginSnapshot
  <2>. HIDE DEF x
  <2>3. Len(snapshots) \in Nat /\ DOMAIN snapshots = 1 .. Len(snapshots)
    BY <1>1, LenProperties
  <2>4. /\ snapshots' \in Seq(Copies) /\ Len(snapshots') = Len(snapshots) + 1
        /\ DOMAIN snapshots' = 1 .. Len(snapshots) + 1
        /\ snapshots'[Len(snapshots) + 1] = x
        /\ \A i \in 1 .. Len(snapshots) : snapshots'[i] = snapshots[i]
    BY <1>1, <2>1, <2>2, <2>3
  <2>5. \A i \in DOMAIN snapshots' : i = Len(snapshots) + 1 \/ i \in DOMAIN snapshots
    BY <2>3, <2>4
  <2>6. Keep(snapshots') /\ snapshots' # <<>>
    BY <1>3, <2>1, <2>3, <2>4, <2>5
  <2>. QED
    BY <1>4, <2>4, <2>6
<1>7. ASSUME step = "vacuum"
      PROVE  /\ FinishedSnapshot \in Seq(Copies) /\ FinishedSnapshot # <<>>
             /\ Keep(FinishedSnapshot)
  <2>1. /\ FinishedSnapshot \in Seq(Copies) /\ FinishedSnapshot # <<>>
        /\ Len(FinishedSnapshot) = Len(snapshots)
        /\ \A i \in 1 .. Len(snapshots) - 1 : FinishedSnapshot[i] = snapshots[i]
        /\ FinishedSnapshot[Len(snapshots)] = [lines |-> lines, original |-> ~rewrites]
    BY <1>1, <1>7, FinishedIs
  <2>2. /\ Len(snapshots) \in Nat /\ DOMAIN snapshots = 1 .. Len(snapshots)
        /\ DOMAIN FinishedSnapshot = 1 .. Len(snapshots)
    BY <1>1, <2>1, LenProperties
  <2>3. FinishedSnapshot[Len(snapshots)].lines = lines
    BY <2>1
  <2>4. lines \in Transcripts /\ DOMAIN lines \subseteq 1 .. written'
    BY <1>1 DEF Grown
  <2>5. \A i \in 1 .. Len(snapshots) : i = Len(snapshots) \/ i \in 1 .. Len(snapshots) - 1
    <3>1. \A k \in Nat : \A i \in 1 .. k : i = k \/ i \in 1 .. k - 1
      OBVIOUS
    <3>. QED
      BY <2>2, <3>1
  <2>6. \A i \in 1 .. Len(snapshots) - 1 : i \in DOMAIN snapshots
    BY <2>2
  <2>. QED
    BY <1>3, <2>1, <2>2, <2>3, <2>4, <2>5, <2>6
<1>8. ASSUME Snapshot
      PROVE  SnapshotTypes'
  <2>1. snapshots' = Prune(FinishedSnapshot) /\ step = "vacuum"
    BY <1>8 DEF Snapshot
  <2>2. /\ snapshots' \in Seq(Copies) /\ snapshots' # <<>>
        /\ \A i \in DOMAIN snapshots' : \E j \in DOMAIN FinishedSnapshot :
              snapshots'[i] = FinishedSnapshot[j]
    BY <1>7, <2>1, PruneIs
  <2>3. Keep(snapshots')
    BY <1>7, <2>1, <2>2
  <2>. QED
    BY <1>4, <2>2, <2>3
<1>9. ASSUME Stop, step = "vacuum"
      PROVE  SnapshotTypes'
  BY <1>4, <1>7, <1>9 DEF Stop
<1>10. ASSUME UNCHANGED snapshots, ~BeginSnapshot, ~Snapshot
       PROVE  step' \in {"vacuum", "read", "rewrite"} => snapshots # <<>>
  <2>. DEFINE Goal == step' \in {"vacuum", "read", "rewrite"} => step \in {"vacuum", "read", "rewrite"}
  <2>1. ASSUME UNCHANGED run PROVE Goal
    BY <2>1
  <2>2. ASSUME HandlerStep PROVE Goal
    BY <1>10, <2>2 DEF HandlerStep, LookUpSpeaker, ImportLines, ReadLines, Rewrite, Digest,
       AskModel, PickNumber, AddSummary, Tag, Then, Fails, Succeeds, Over
  <2>3. ASSUME Raises \/ Stop \/ Crash \/ Restart PROVE Goal
    BY <2>3 DEF Raises, Stop, Crash, Restart, Fails, Over
  <2>4. ASSUME NEW t \in Tasks, Claim(t) PROVE Goal
    BY <2>4 DEF Claim
  <2>. QED
    BY <1>1, <2>1, <2>2, <2>3, <2>4, Leaves DEF RunKept, WorkerStep
<1>. QED
  BY <1>5, <1>6, <1>8, <1>9, <1>10, Leaves DEF SnapshotsStay

LEMMA StepRun == Typed /\ [Next]_vars => RunTypes'
<1>. SUFFICES ASSUME Typed, [Next]_vars
              PROVE  RunTypes'
  OBVIOUS
<1>1. /\ RunTypes /\ Grown /\ speakers \in [Names -> Nat] /\ written \in Nat
      /\ lines \in Transcripts /\ DOMAIN lines \subseteq 1 .. written /\ Named(lines)
  BY StepProject DEF Typed, ProjectTypes, Bound
<1>2. \A t \in Tasks : NameIn[t] \in Names /\ t # NoTask
  BY EditsAssumption
<1>3. ASSUME NEW t \in Tasks, Claim(t)
      PROVE  RunTypes'
  <2>1. /\ TypeOf[t] \in {"IMPORT", "CLEAN", "SUMMARIZE"} /\ Appending \subseteq Imports
        /\ t \in Imports <=> TypeOf[t] = "IMPORT"
    BY EditsAssumption DEF Imports
  <2>2. /\ cur' = t /\ held' = IF step' = "import" THEN FALSE ELSE None
        /\ step' = CASE TypeOf[t] = "CLEAN" -> "snapshot"
                     [] TypeOf[t] = "SUMMARIZE" -> "digest"
                     [] t \in Appending -> "look up"
                     [] OTHER -> "import"
    BY <1>3 DEF Claim
  <2>3. CASE TypeOf[t] = "IMPORT" /\ t \notin Appending
    BY <1>2, <2>1, <2>2, <2>3 DEF RunTypes, Step
  <2>4. CASE TypeOf[t] = "IMPORT" /\ t \in Appending
    BY <1>2, <2>1, <2>2, <2>4 DEF RunTypes, Step
  <2>5. CASE TypeOf[t] # "IMPORT"
    BY <1>2, <2>1, <2>2, <2>5 DEF RunTypes, Step
  <2>. QED
    BY <2>3, <2>4, <2>5
<1>4. Over => RunTypes'
  BY DEF Over, RunTypes, Step
<1>5. Succeeds \/ Fails => RunTypes'
  BY <1>4 DEF Succeeds, Fails
<1>6. ASSUME cur # NoTask, cur' = cur, held' = None,
             step' \in {"snapshot", "vacuum", "read", "digest", "model", "number", "tag"}
      PROVE  RunTypes'
  BY <1>1, <1>6 DEF RunTypes, Step
<1>7. step \notin {"down", "idle"} => cur # NoTask /\ cur \in Tasks
  BY <1>1 DEF RunTypes
<1>8. step \notin {"rewrite", "import", "add"} => held = None
  BY <1>1 DEF RunTypes
<1>9. ASSUME LookUpSpeaker
      PROVE  RunTypes'
  <2>1. CASE Fails
    BY <1>5, <2>1
  <2>2. ASSUME step = "look up", Then("import"), held' = (speakers[NameIn[cur]] = 0),
               speakers' = speakers
        PROVE  RunTypes'
    <3>1. cur' = cur /\ step' = "import" /\ cur \in Imports
      BY <1>1, <2>2 DEF Then, RunTypes
    <3>2. ~held' => speakers'[NameIn[cur]] > 0
      <4>1. ~held' => ~(speakers[NameIn[cur]] = 0)
        BY <2>2, Zenon
      <4>2. speakers[NameIn[cur]] \in Nat
        BY <1>1, <1>2, <1>7, <2>2
      <4>3. speakers' = speakers
        BY <2>2, Zenon
      <4>4. ~(speakers[NameIn[cur]] = 0) => speakers'[NameIn[cur]] > 0
        BY <4>2, <4>3
      <4>. QED
        BY <4>1, <4>4, Zenon
    <3>3. Imports' = Imports /\ cur \in Tasks /\ cur # NoTask
      BY <1>7, <2>2 DEF Imports
    <3>. QED
      BY <2>2, <3>1, <3>2, <3>3 DEF RunTypes, Step
  <2>. QED
    BY <1>9, <2>1, <2>2 DEF LookUpSpeaker
<1>10. ASSUME ImportLines
       PROVE  RunTypes'
  BY <1>5, <1>6, <1>7, <1>10 DEF ImportLines, Then
<1>11. ASSUME BeginSnapshot \/ Snapshot
       PROVE  RunTypes'
  BY <1>6, <1>7, <1>8, <1>11 DEF BeginSnapshot, Snapshot, Then
<1>12. ASSUME ReadLines
       PROVE  RunTypes'
  <2>1. /\ step' = "rewrite" /\ cur' = cur /\ held' = lines /\ step = "read"
        /\ written' = written /\ speakers' = speakers
    BY <1>12 DEF ReadLines, Then
  <2>2. Bound(held)' /\ Named(held)'
    BY <1>1, <2>1 DEF Bound, Named
  <2>. QED
    BY <1>7, <2>1, <2>2 DEF RunTypes, Step
<1>13. ASSUME Rewrite \/ AddSummary
       PROVE  RunTypes'
  BY <1>6, <1>7, <1>13 DEF Rewrite, AddSummary, Then
<1>14. ASSUME Digest \/ AskModel
       PROVE  RunTypes'
  BY <1>5, <1>6, <1>7, <1>8, <1>14 DEF Digest, AskModel, Then
<1>15. ASSUME PickNumber
       PROVE  RunTypes'
  <2>1. /\ step' = "add" /\ cur' = cur /\ held' = NextNumber /\ step = "number"
    BY <1>15 DEF PickNumber, Then
  <2>2. NextNumber \in Nat \ {0}
    <3>1. Greatest(summaries) \in Nat
      BY GreatestIs DEF Typed
    <3>. QED
      BY <3>1 DEF NextNumber
  <2>. QED
    BY <1>7, <2>1, <2>2 DEF RunTypes, Step
<1>16. ASSUME Tag \/ Raises
       PROVE  RunTypes'
  BY <1>5, <1>16 DEF Tag, Raises
<1>17. ASSUME Stop \/ Crash
       PROVE  RunTypes'
  BY <1>17 DEF Stop, Crash, RunTypes, Step
<1>18. ASSUME Restart
       PROVE  RunTypes'
  BY <1>1, <1>18 DEF Restart, RunTypes, Step
<1>19. ASSUME UNCHANGED run
       PROVE  RunTypes'
  <2>1. cur' = cur /\ step' = step /\ held' = held
    BY <1>19
  <2>2. ASSUME step = "rewrite"
        PROVE  Bound(held)' /\ Named(held)'
    <3>1. held \in Transcripts /\ DOMAIN held \subseteq 1 .. written /\ Named(held)
      BY <1>1, <2>2 DEF RunTypes, Bound
    <3>2. held \in [DOMAIN held -> Line]
      BY <3>1, TranscriptIs
    <3>3. \A n \in DOMAIN held : speakers'[held[n].speaker] > 0
      BY <1>1, <3>1, <3>2, LineIs DEF Grown, Named
    <3>4. DOMAIN held \subseteq 1 .. written'
      BY <1>1, <3>1 DEF Grown
    <3>. QED
      BY <2>1, <3>1, <3>3, <3>4 DEF Bound, Named
  <2>3. ASSUME cur \in Appending, speakers[NameIn[cur]] > 0
        PROVE  speakers'[NameIn[cur]] > 0
    BY <1>1, <1>2, <2>3, EditsAssumption DEF Grown, Imports
  <2>. QED
    BY <1>1, <2>1, <2>2, <2>3 DEF RunTypes
<1>20. ASSUME HandlerStep
       PROVE  RunTypes'
  BY <1>9, <1>10, <1>11, <1>12, <1>13, <1>14, <1>15, <1>16, <1>20 DEF HandlerStep
<1>. QED
  BY <1>3, <1>16, <1>17, <1>18, <1>19, <1>20, Leaves DEF RunKept, WorkerStep

LEMMA StepEditors == Typed /\ [Next]_vars => EditorTypes'
<1>. SUFFICES ASSUME Typed, [Next]_vars
              PROVE  EditorTypes'
  OBVIOUS
<1>1. /\ EditorTypes /\ Grown /\ speakers \in [Names -> Nat] /\ written \in Nat
      /\ shown \in [Clients -> Transcripts] /\ pending \in [Clients -> Saving \cup {None}]
  BY StepProject DEF Typed, ProjectTypes, EditorTypes
<1>2. ASSUME NEW v \in Clients
      PROVE  /\ DOMAIN shown[v] \subseteq 1 .. written'
             /\ pending[v] # None /\ ~pending[v].new => speakers'[pending[v].name] > 0
  BY <1>1, EditFacts DEF EditorTypes, Bound, Grown
<1>3. ASSUME UNCHANGED editors
      PROVE  EditorTypes'
  BY <1>1, <1>2, <1>3 DEF EditorTypes, Bound
<1>4. /\ lines' \in Transcripts /\ DOMAIN lines' \subseteq 1 .. written'
      /\ lines \in Transcripts /\ DOMAIN lines \subseteq 1 .. written'
  BY <1>1, StepProject DEF Typed, ProjectTypes, Bound, Grown
<1>5. ASSUME NEW v \in Clients, NEW L, L \in Transcripts, DOMAIN L \subseteq 1 .. written',
             shown' = [shown EXCEPT ![v] = L],
             pending' = pending \/ pending' = [pending EXCEPT ![v] = None]
      PROVE  EditorTypes'
  <2>1. shown' \in [Clients -> Transcripts] /\ pending' \in [Clients -> Saving \cup {None}]
    BY <1>1, <1>5
  <2>2. \A u \in Clients : shown'[u] \in Transcripts /\ DOMAIN shown'[u] \subseteq 1 .. written'
    BY <1>1, <1>2, <1>5
  <2>3. \A u \in Clients :
          pending'[u] # None /\ ~pending'[u].new => speakers'[pending'[u].name] > 0
    BY <1>1, <1>2, <1>5
  <2>. QED
    BY <2>1, <2>2, <2>3 DEF EditorTypes, Bound
<1>6. ASSUME NEW v \in Clients, LoadLines(v)
      PROVE  EditorTypes'
  BY <1>4, <1>5, <1>6 DEF LoadLines
<1>7. ASSUME NEW v \in Clients, NEW n \in DOMAIN shown[v], DeleteLine(v, n)
      PROVE  EditorTypes'
  <2>1. shown' = [shown EXCEPT ![v] = lines'] /\ pending' = pending
    BY <1>7 DEF DeleteLine
  <2>2. shown' \in [Clients -> Transcripts]
    BY <1>1, <1>4, <2>1
  <2>3. \A u \in Clients : shown'[u] \in Transcripts /\ DOMAIN shown'[u] \subseteq 1 .. written'
    BY <1>1, <1>2, <1>4, <2>1
  <2>. QED
    BY <1>1, <1>2, <2>1, <2>2, <2>3 DEF EditorTypes, Bound
<1>8. ASSUME NEW v \in Clients, NEW n \in DOMAIN shown[v], EditText(v, n)
      PROVE  EditorTypes'
  <2>. DEFINE text == Corrected(shown[v][n].text)
              M == [shown[v] EXCEPT ![n].text = text]
  <2>1. M \in Transcripts /\ DOMAIN M = DOMAIN shown[v]
    <3>1. shown[v] \in Transcripts /\ text \in SUBSET Piece
      BY EditFacts
    <3>. HIDE DEF text
    <3>. QED
      BY <3>1, ChangedText
  <2>2. shown' = [shown EXCEPT ![v] = M] /\ pending' = pending
    BY <1>8 DEF EditText
  <2>. HIDE DEF M
  <2>. QED
    BY <1>2, <1>5, <2>1, <2>2
<1>9. ASSUME NEW v \in Clients, SaveSpeaker(v)
      PROVE  EditorTypes'
  <2>. DEFINE n == pending[v].line
              a == pending[v].name
              M == [shown[v] EXCEPT ![n].speaker = a]
  <2>1. pending[v] # None /\ a \in Names /\ pending' = [pending EXCEPT ![v] = None]
    BY <1>9, EditFacts DEF SaveSpeaker
  <2>2. CASE n \in DOMAIN lines /\ n \in DOMAIN shown[v]
    <3>1. M \in Transcripts /\ DOMAIN M = DOMAIN shown[v]
      BY <2>1, <2>2, EditFacts, ChangedSpeaker
    <3>2. shown' = [shown EXCEPT ![v] = M]
      BY <1>9, <2>2 DEF SaveSpeaker
    <3>. HIDE DEF M
    <3>. QED
      BY <1>2, <1>5, <2>1, <3>1, <3>2
  <2>3. CASE ~(n \in DOMAIN lines /\ n \in DOMAIN shown[v])
    <3>1. shown' = shown
      BY <1>1, <1>9, <2>3 DEF SaveSpeaker
    <3>2. shown' = [shown EXCEPT ![v] = shown[v]] /\ shown[v] \in Transcripts
      BY <1>1, <3>1
    <3>. QED
      BY <1>2, <1>5, <2>1, <3>2
  <2>. QED
    BY <2>2, <2>3
<1>10. ASSUME NEW v \in Clients, NEW n \in DOMAIN shown[v], NEW a \in Names, ChooseSpeaker(v, n, a)
       PROVE  EditorTypes'
  <2>. DEFINE x == [line |-> n, name |-> a, new |-> speakers[a] = 0]
  <2>1. pending' = [pending EXCEPT ![v] = x] /\ shown' = shown
    BY <1>10 DEF ChooseSpeaker
  <2>2. n \in Nat /\ speakers[a] \in Nat /\ x.name = a /\ x.new = (speakers[a] = 0)
    BY <1>1, EditFacts
  <2>3. x \in Saving
    BY <2>2 DEF Saving
  <2>4. ~x.new => speakers'[x.name] > 0
    <3>1. ~x.new => ~(speakers[a] = 0)
      BY <2>2, Zenon
    <3>2. ~(speakers[a] = 0) => speakers'[a] > 0
      BY <1>1, <2>2 DEF Grown
    <3>. QED
      BY <2>2, <3>1, <3>2
  <2>. HIDE DEF x
  <2>5. pending' \in [Clients -> Saving \cup {None}]
    BY <1>1, <2>1, <2>3
  <2>6. \A u \in Clients :
          pending'[u] # None /\ ~pending'[u].new => speakers'[pending'[u].name] > 0
    BY <1>1, <1>2, <2>1, <2>4
  <2>. QED
    BY <1>1, <1>2, <2>1, <2>5, <2>6 DEF EditorTypes, Bound
<1>. QED
  BY <1>3, <1>6, <1>7, <1>8, <1>9, <1>10, Leaves DEF EditorsKept, ChangesEditor, ChangesLines

LEMMA StepHistory == Typed /\ [Next]_vars => HistoryTypes'
<1>. SUFFICES ASSUME Typed, [Next]_vars
              PROVE  HistoryTypes'
  OBVIOUS
<1>1. HistoryTypes
  BY DEF Typed
<1>2. touched' \in BOOLEAN
  BY <1>1, Leaves DEF HistoryTypes, HistoryKept, ChangesLines, Snapshot, SaveSpeaker, EditText,
                      DeleteLine
<1>3. rewrites' \in BOOLEAN
  BY <1>1, Leaves DEF HistoryTypes, HistoryKept, Rewrite
<1>4. torn' \in BOOLEAN
  BY <1>1, Leaves DEF HistoryTypes, HistoryKept, CutsShort
<1>5. ASSUME NEW k, Spend(k)
      PROVE  spent' \in [Bounded -> Nat]
  <2>1. spent \in [Bounded -> Nat] /\ spent' = [spent EXCEPT ![k] = spent[k] + 1]
    BY <1>1, <1>5 DEF Spend, HistoryTypes
  <2>2. k \in Bounded => spent[k] + 1 \in Nat
    BY <2>1
  <2>. QED
    BY <2>1, <2>2
<1>6. spent' \in [Bounded -> Nat]
  <2>1. ASSUME HandlerStep PROVE spent' = spent
    BY <2>1 DEF HandlerStep, LookUpSpeaker, ImportLines, BeginSnapshot, Snapshot, ReadLines,
       Rewrite, Digest, AskModel, PickNumber, AddSummary, Tag
  <2>2. ASSUME NEW t \in Tasks, Claim(t) \/ Ask(t) PROVE spent' = spent \/ \E k : Spend(k)
    BY <2>2 DEF Claim, Ask
  <2>3. ASSUME Raises \/ Stop \/ Crash \/ Restart PROVE spent' = spent \/ \E k : Spend(k)
    BY <2>3 DEF Raises, Stop, Crash, Restart
  <2>4. ASSUME NEW v \in Clients, EditorStep(v) PROVE spent' = spent \/ \E k : Spend(k)
    BY <2>4 DEF EditorStep, LoadLines, SaveSpeaker, EditText, DeleteLine, ChooseSpeaker
  <2>5. ASSUME NEW i, DeleteSummary(i) PROVE spent' = spent \/ \E k : Spend(k)
    BY <2>5 DEF DeleteSummary
  <2>6. ASSUME UNCHANGED vars PROVE spent' = spent
    BY <2>6 DEF vars
  <2>7. spent' = spent \/ \E k : Spend(k)
    BY <2>1, <2>2, <2>3, <2>4, <2>5, <2>6 DEF Next
  <2>. QED
    BY <1>1, <1>5, <2>7 DEF HistoryTypes
<1>. QED
  BY <1>2, <1>3, <1>4, <1>6 DEF HistoryTypes
-----------------------------------------------------------------------------
(* Summaries *)

NumbersHold == summaries \in Seq(Nat \ {0}) /\ NumbersApart

LEMMA StepSummaries == Typed /\ NumbersApart /\ [Next]_vars => NumbersHold'
<1>. SUFFICES ASSUME Typed, NumbersApart, [Next]_vars
              PROVE  NumbersHold'
  OBVIOUS
<1>1. summaries \in Seq(Nat \ {0}) /\ SummariesNumbered
  BY DEF Typed, NumbersApart
<1>2. /\ Len(summaries) \in Nat /\ DOMAIN summaries = 1 .. Len(summaries)
      /\ \A i \in 1 .. Len(summaries) : summaries[i] \in Nat \ {0}
  BY <1>1, LenProperties, ElementOfSeq
<1>3. CASE UNCHANGED summaries
  <2>1. SummariesNumbered' /\ summaries' \in Seq(Nat \ {0})
    BY <1>1, <1>3 DEF SummariesNumbered
  <2>2. CASE step' # "add"
    BY <2>1, <2>2 DEF NumbersHold, NumbersApart
  <2>3. CASE PickNumber
    <3>1. held' = Greatest(summaries) + 1
      BY <2>3 DEF PickNumber, NextNumber
    <3>2. Greatest(summaries) \in Nat /\ \A i \in DOMAIN summaries : summaries[i] <= Greatest(summaries)
      BY <1>1, GreatestIs
    <3>3. \A i \in DOMAIN summaries : summaries[i] < held'
      BY <1>2, <3>1, <3>2
    <3>. QED
      BY <1>3, <2>1, <3>3 DEF NumbersHold, NumbersApart
  <2>4. ASSUME step' = "add", ~PickNumber
        PROVE  step = "add" /\ held' = held
    <3>1. ASSUME HandlerStep PROVE FALSE
      <4>1. LookUpSpeaker => FALSE
        BY <2>4 DEF LookUpSpeaker, Then, Fails, Over
      <4>2. ImportLines => FALSE
        BY <2>4 DEF ImportLines, Then, Fails, Over
      <4>3. BeginSnapshot \/ Snapshot \/ ReadLines \/ Rewrite \/ AddSummary => FALSE
        BY <2>4 DEF BeginSnapshot, Snapshot, ReadLines, Rewrite, AddSummary, Then
      <4>4. Digest \/ AskModel \/ Tag => FALSE
        BY <2>4 DEF Digest, AskModel, Tag, Then, Fails, Succeeds, Over
      <4>. QED
        BY <2>4, <3>1, <4>1, <4>2, <4>3, <4>4 DEF HandlerStep
    <3>2. ASSUME Raises \/ Stop \/ Crash \/ Restart PROVE FALSE
      BY <2>4, <3>2 DEF Raises, Stop, Crash, Restart, Fails, Over
    <3>3. ASSUME NEW t \in Tasks, Claim(t) PROVE FALSE
      BY <2>4, <3>3 DEF Claim
    <3>4. UNCHANGED run
      BY <3>1, <3>2, <3>3, Leaves DEF RunKept, WorkerStep
    <3>. QED
      BY <2>4, <3>4
  <2>. QED
    BY <1>3, <2>1, <2>2, <2>3, <2>4 DEF NumbersHold, NumbersApart
<1>4. CASE AddSummary
  <2>1. /\ step = "add" /\ summaries' = Append(summaries, held) /\ step' = "tag"
        /\ held \in Nat \ {0} /\ \A i \in DOMAIN summaries : summaries[i] < held
    BY <1>4 DEF AddSummary, Then, Typed, RunTypes, NumbersApart
  <2>2. /\ summaries' \in Seq(Nat \ {0}) /\ DOMAIN summaries' = 1 .. Len(summaries) + 1
        /\ summaries'[Len(summaries) + 1] = held
        /\ \A i \in 1 .. Len(summaries) : summaries'[i] = summaries[i]
    BY <1>1, <1>2, <2>1
  <2>3. \A i \in 1 .. Len(summaries) + 1 : i = Len(summaries) + 1 \/ i \in 1 .. Len(summaries)
    <3>1. \A k \in Nat : \A i \in 1 .. k + 1 : i = k + 1 \/ i \in 1 .. k
      OBVIOUS
    <3>. QED
      BY <1>2, <3>1
  <2>4. \A i \in 1 .. Len(summaries) : summaries[i] # held
    BY <1>2, <2>1
  <2>5. SummariesNumbered'
    BY <1>1, <1>2, <2>2, <2>3, <2>4 DEF SummariesNumbered
  <2>. QED
    BY <2>1, <2>2, <2>5 DEF NumbersHold, NumbersApart
<1>5. ASSUME NEW i \in DOMAIN summaries, DeleteSummary(i)
      PROVE  NumbersHold'
  <2>. DEFINE n == Len(summaries)
              s == SubSeq(summaries, 1, i - 1)
              t == SubSeq(summaries, i + 1, n)
              at(j) == IF j < i THEN j ELSE j + 1
  <2>1. summaries' = s \o t /\ UNCHANGED run
    BY <1>5 DEF DeleteSummary
  <2>2. i \in Nat /\ 1 <= i /\ i <= n /\ n \in Nat
    BY <1>2
  <2>3. /\ s \in Seq(Nat \ {0}) /\ Len(s) = i - 1
        /\ \A j \in 1 .. i - 1 : s[j] = summaries[j]
    <3>. DEFINE k == i - 1
    <3>1. k \in Nat /\ \A j \in 1 .. k : summaries[j] \in Nat \ {0}
      BY <1>2, <2>2
    <3>. HIDE DEF k
    <3>2. /\ SubSeq(summaries, 1, k) \in Seq(Nat \ {0})
          /\ Len(SubSeq(summaries, 1, k)) = IF 1 <= k THEN k - 1 + 1 ELSE 0
          /\ \A j \in 1 .. k - 1 + 1 : SubSeq(summaries, 1, k)[j] = summaries[1 + j - 1]
      BY <3>1, SubSeqProperties
    <3>3. k - 1 + 1 = k /\ \A j \in 1 .. k : 1 + j - 1 = j
      BY <3>1
    <3>4. Len(SubSeq(summaries, 1, k)) = k
      BY <3>1, <3>2, <3>3
    <3>5. \A j \in 1 .. k : SubSeq(summaries, 1, k)[j] = summaries[j]
      BY <3>2, <3>3
    <3>. QED
      BY <3>2, <3>4, <3>5 DEF k
  <2>4. /\ t \in Seq(Nat \ {0}) /\ Len(t) = n - i
        /\ \A j \in 1 .. n - i : t[j] = summaries[i + j]
    <3>. DEFINE k == i + 1
    <3>1. k \in Nat /\ \A j \in k .. n : summaries[j] \in Nat \ {0}
      BY <1>2, <2>2
    <3>. HIDE DEF k
    <3>2. /\ SubSeq(summaries, k, n) \in Seq(Nat \ {0})
          /\ Len(SubSeq(summaries, k, n)) = IF k <= n THEN n - k + 1 ELSE 0
          /\ \A j \in 1 .. n - k + 1 : SubSeq(summaries, k, n)[j] = summaries[k + j - 1]
      BY <2>2, <3>1, SubSeqProperties
    <3>3. n - k + 1 = n - i /\ (~(k <= n) => n - i = 0) /\ \A j \in 1 .. n - i : k + j - 1 = i + j
      BY <2>2 DEF k
    <3>. HIDE DEF n
    <3>4. Len(SubSeq(summaries, k, n)) = n - i
      BY <3>2, <3>3
    <3>5. \A j \in 1 .. n - i : SubSeq(summaries, k, n)[j] = summaries[i + j]
      BY <3>2, <3>3
    <3>. QED
      BY <3>2, <3>4, <3>5 DEF k, n
  <2>5. /\ s \o t \in Seq(Nat \ {0}) /\ Len(s \o t) = Len(s) + Len(t)
        /\ \A j \in 1 .. Len(s) + Len(t) : (s \o t)[j] = IF j <= Len(s) THEN s[j] ELSE t[j - Len(s)]
    BY <2>3, <2>4, ConcatProperties
  <2>. HIDE DEF s, t, n
  <2>6. Len(s \o t) = n - 1 /\ DOMAIN (s \o t) = 1 .. n - 1
    <3>1. Len(s \o t) = n - 1 /\ Len(s) + Len(t) = n - 1
      BY <2>2, <2>3, <2>4, <2>5
    <3>. QED
      BY <2>5, <3>1, LenProperties
  <2>7. \A j \in 1 .. n - 1 : (s \o t)[j] = summaries[at(j)] /\ at(j) \in 1 .. n
    <3>1. ASSUME NEW j \in 1 .. n - 1, j < i
          PROVE  (s \o t)[j] = summaries[j] /\ j \in 1 .. n
      <4>1. j \in 1 .. n /\ j \in 1 .. i - 1 /\ j <= i - 1 /\ n - 1 = (i - 1) + (n - i)
        BY <2>2, <3>1
      <4>2. j \in 1 .. Len(s) + Len(t) /\ j <= Len(s)
        BY <2>3, <2>4, <4>1
      <4>. QED
        BY <2>3, <2>5, <4>1, <4>2
    <3>2. ASSUME NEW j \in 1 .. n - 1, ~(j < i)
          PROVE  (s \o t)[j] = summaries[j + 1] /\ j + 1 \in 1 .. n
      <4>1. j \in 1 .. Len(s) + Len(t) /\ ~(j <= Len(s)) /\ j - Len(s) = j - i + 1
        BY <2>2, <2>3, <2>4, <3>2
      <4>2. j - i + 1 \in 1 .. n - i /\ i + (j - i + 1) = j + 1 /\ j + 1 \in 1 .. n
        BY <2>2, <3>2
      <4>. QED
        BY <2>4, <2>5, <4>1, <4>2
    <3>. QED
      BY <3>1, <3>2
  <2>8. \A j, k \in 1 .. n - 1 : j # k => at(j) # at(k)
    BY <2>2
  <2>. HIDE DEF at
  <2>9. DOMAIN summaries = 1 .. n
    BY <1>2 DEF n
  <2>10. SummariesNumbered'
    BY <1>1, <2>1, <2>6, <2>7, <2>8, <2>9 DEF SummariesNumbered
  <2>11. step' = "add" => \A j \in DOMAIN summaries' : summaries'[j] < held'
    BY <2>1, <2>6, <2>7, <2>9 DEF NumbersApart
  <2>. QED
    BY <2>1, <2>5, <2>10, <2>11 DEF NumbersHold, NumbersApart
<1>. QED
  BY <1>3, <1>4, <1>5, Leaves DEF SummariesKept
-----------------------------------------------------------------------------
(* Types and numbers, together *)

TypesInv == Typed /\ NumbersApart

LEMMA TypesInit == Init => TypesInv
<1>. SUFFICES ASSUME Init
              PROVE  TypesInv
  OBVIOUS
<1>1. QueueTypes
  BY DEF Init, LInit, QueueTypes
<1>2. ProjectTypes
  BY EmptyTranscript DEF Init, ProjectTypes, Bound, Named
<1>3. /\ summaries \in Seq(Nat \ {0}) /\ DOMAIN summaries = {}
      /\ snapshots \in Seq(Copies) /\ DOMAIN snapshots = {}
  BY DEF Init
<1>4. RunTypes
  BY DEF Init, RunTypes, Step
<1>5. EditorTypes
  BY EmptyTranscript DEF Init, EditorTypes, Bound
<1>6. HistoryTypes
  BY DEF Init, HistoryTypes
<1>7. SnapshotTypes /\ NumbersApart
  BY <1>3 DEF Init, SnapshotTypes, NumbersApart, SummariesNumbered
<1>. QED
  BY <1>1, <1>2, <1>3, <1>4, <1>5, <1>6, <1>7 DEF TypesInv, Typed

LEMMA TypesStep == TypesInv /\ [Next]_vars => TypesInv'
BY StepQueue, StepProject, StepSnapshots, StepRun, StepEditors, StepHistory, StepSummaries
   DEF TypesInv, Typed, NumbersHold

LEMMA TypesInvariant == Spec => []TypesInv
BY TypesInit, TypesStep, PTL DEF Spec

LEMMA BoundIs == ASSUME NEW L, Bound(L)
                 PROVE  IsTranscript(L)
BY TranscriptIs DEF Bound, IsTranscript

LEMMA TypedIsTypeOK == Typed => TypeOK
<1>. SUFFICES ASSUME Typed
              PROVE  TypeOK
  OBVIOUS
<1>1. IsTranscript(lines) /\ \A n \in DOMAIN lines : speakers[lines[n].speaker] > 0
  BY BoundIs DEF Typed, ProjectTypes, Named
<1>2. \A i \in DOMAIN snapshots : Whole(snapshots[i]) => IsTranscript(snapshots[i].lines)
  BY BoundIs DEF Typed, SnapshotTypes
<1>3. \A v \in Clients : IsTranscript(shown[v])
  BY BoundIs DEF Typed, EditorTypes
<1>4. \A v \in Clients : pending[v] = None \/ pending[v] \in [line : Nat, name : Names, new : BOOLEAN]
  BY DEF Typed, EditorTypes, Saving
<1>5. step = "rewrite" => IsTranscript(held)
  BY BoundIs DEF Typed, RunTypes
<1>6. <<touched, rewrites, torn>> \in BOOLEAN \X BOOLEAN \X BOOLEAN /\ spent \in [Bounded -> Nat]
  BY DEF Typed, HistoryTypes
<1>7. cur = NoTask <=> step \in {"down", "idle"}
  BY DEF Typed, RunTypes
<1>8. (CASE step = "rewrite" -> IsTranscript(held)
         [] step = "import" -> held \in BOOLEAN
         [] step = "add" -> held \in Nat
         [] OTHER -> held = None)
  BY <1>5 DEF Typed, RunTypes
<1>. QED
  BY <1>1, <1>2, <1>3, <1>4, <1>6, <1>7, <1>8
     DEF TypeOK, Typed, QueueTypes, ProjectTypes, RunTypes, Bound

\* Type correctness: what a handler holds between two of its commits is always what it
\* read, every line's speaker has a row, and no line is numbered past the last imported.
THEOREM TranscriptTypes == Spec => []TypeOK
BY TypesInvariant, TypedIsTypeOK, PTL DEF TypesInv

\* Summaries have numbers of their own: however they are deleted while the next is being
\* written, it gets a number no other has.
THEOREM SummariesHaveNumbers == Spec => []SummariesNumbered
<1>1. TypesInv => SummariesNumbered
  BY DEF TypesInv, NumbersApart
<1>. QED
  BY <1>1, TypesInvariant, PTL
-----------------------------------------------------------------------------
(* The queue *)

\* What a step does to the queue: a handler ends its task, the worker takes, gives back
\* or recovers one, a user asks for one, or nothing.
HandlerEnds ==
    step \notin {"down", "idle"} /\ cur' = NoTask /\ (Succeed(cur) \/ LoseAttempt({cur}))
QueueMoves ==
    \/ UNCHANGED <<queue, cur>>
    \/ Crash
    \/ HandlerEnds
    \/ Stop
    \/ Restart
    \/ \E t \in Tasks : Claim(t) \/ Ask(t)

LEMMA StepQueueMoves == [Next]_vars => QueueMoves
<1>. SUFFICES ASSUME [Next]_vars
              PROVE  QueueMoves
  OBVIOUS
<1>. USE DEF QueueMoves
<1>1. CASE HandlerStep
  <2>1. ASSUME step \notin {"down", "idle"}, UNCHANGED <<queue, cur>>
        PROVE  QueueMoves
    BY <2>1
  <2>2. ASSUME step \notin {"down", "idle"}, Fails \/ Succeeds
        PROVE  QueueMoves
    BY <2>2 DEF HandlerEnds, Fails, Succeeds, Over
  <2>3. step \notin {"down", "idle"}
    BY <1>1 DEF HandlerStep, LookUpSpeaker, ImportLines, BeginSnapshot, Snapshot, ReadLines,
       Rewrite, Digest, AskModel, PickNumber, AddSummary, Tag
  <2>4. Fails \/ Succeeds \/ UNCHANGED <<queue, cur>>
    BY <1>1 DEF HandlerStep, LookUpSpeaker, ImportLines, BeginSnapshot, Snapshot, ReadLines,
       Rewrite, Digest, AskModel, PickNumber, AddSummary, Tag, Then
  <2>. QED
    BY <2>1, <2>2, <2>3, <2>4
<1>2. CASE Raises
  BY <1>2 DEF Raises, HandlerEnds, Fails, Over
<1>3. CASE Stop \/ Restart \/ \E t \in Tasks : Claim(t) \/ Ask(t)
  BY <1>3
<1>4. CASE Crash
  BY <1>4 DEF Crash
<1>5. ASSUME UNCHANGED <<queue, run>>
      PROVE  QueueMoves
  BY <1>5 DEF run
<1>6. ASSUME NEW v \in Clients, EditorStep(v)
      PROVE  QueueMoves
  BY <1>5, <1>6 DEF EditorStep, LoadLines, SaveSpeaker, EditText, DeleteLine, ChooseSpeaker
<1>7. ASSUME NEW i \in DOMAIN summaries, DeleteSummary(i)
      PROVE  QueueMoves
  BY <1>5, <1>7 DEF DeleteSummary
<1>8. CASE UNCHANGED vars
  BY <1>5, <1>8 DEF vars
<1>. QED
  BY <1>1, <1>2, <1>3, <1>4, <1>6, <1>7, <1>8 DEF Next

\* The task a handler is at is WORKING.
AtHeld == \A t \in Tasks : t = cur => status[t] = "WORKING"

LEMMA StepHeld ==
    ASSUME Typed, AtHeld, [Next]_vars
    PROVE  AtHeld'
<1>0. /\ status \in [Tasks -> {"none", "PENDING", "WORKING", "DONE", "FAILED"}]
      /\ cur = NoTask <=> step \in {"down", "idle"}
      /\ \A t \in Tasks : t # NoTask
  BY EditsAssumption DEF Typed, QueueTypes, RunTypes
<1>1. ASSUME cur' = NoTask
      PROVE  AtHeld'
  BY <1>0, <1>1 DEF AtHeld
<1>2. ASSUME UNCHANGED <<queue, cur>>
      PROVE  AtHeld'
  BY <1>2 DEF AtHeld, queue
<1>3. CASE Crash \/ HandlerEnds \/ Stop
  BY <1>1, <1>3 DEF Crash, HandlerEnds, Stop
<1>4. CASE Restart
  BY <1>0, <1>1, <1>4 DEF Restart
<1>5. ASSUME NEW t \in Tasks, Claim(t)
      PROVE  AtHeld'
  BY <1>0, <1>5 DEF AtHeld, Claim, Take, Move
<1>6. ASSUME NEW t \in Tasks, Ask(t)
      PROVE  AtHeld'
  BY <1>0, <1>6 DEF AtHeld, Ask, Submit, Retry, In, Move, run
<1>. QED
  BY <1>2, <1>3, <1>4, <1>5, <1>6, StepQueueMoves DEF QueueMoves

\* The queue's own guards hold no handler up: the row of the task it ends is WORKING, as
\* it was claimed, at every step of it, whoever asks for what meanwhile.
THEOREM TaskIsHeld == Spec => [](cur # NoTask => cur \in In("WORKING"))
<1>1. Init => AtHeld
  BY EditsAssumption DEF Init, AtHeld
<1>2. TypesInv /\ AtHeld /\ [Next]_vars => AtHeld'
  BY StepHeld DEF TypesInv
<1>3. TypesInv /\ AtHeld => (cur # NoTask => cur \in In("WORKING"))
  BY DEF TypesInv, Typed, RunTypes, AtHeld, In
<1>. QED
  BY <1>1, <1>2, <1>3, TypesInvariant, PTL DEF Spec
-----------------------------------------------------------------------------
(* Snapshots *)

\* None is no transcript, so that a snapshot with lines is seen to be whole.
CopiesHeld == CopiesKept /\ NewestIsLines

LEMMA CopiesInit == Init => CopiesHeld
<1>. SUFFICES ASSUME Init
              PROVE  CopiesHeld
  OBVIOUS
<1>1. DOMAIN snapshots = {} /\ snapshots = <<>> /\ ~rewrites /\ step = "idle"
  BY DEF Init
<1>. QED
  BY <1>1 DEF CopiesHeld, CopiesKept, NewestIsLines

\* Where the worker goes from a step that takes no snapshot.
LEMMA StepPlaces ==
    ASSUME [Next]_vars
    PROVE  /\ step' = "vacuum" => (step = "vacuum" /\ UNCHANGED run) \/ BeginSnapshot
           /\ step' = "read" => (step = "read" /\ UNCHANGED run) \/ Snapshot
           /\ step' = "rewrite" => (step = "rewrite" /\ UNCHANGED run) \/ ReadLines
           /\ Rewrite => step' = "tag" /\ step = "rewrite"
           /\ step = "vacuum" /\ step' # "vacuum" => Snapshot \/ Stop \/ Crash \/ Raises
<1>. DEFINE Goal ==
        /\ step' = "vacuum" => (step = "vacuum" /\ UNCHANGED run) \/ BeginSnapshot
        /\ step' = "read" => (step = "read" /\ UNCHANGED run) \/ Snapshot
        /\ step' = "rewrite" => (step = "rewrite" /\ UNCHANGED run) \/ ReadLines
        /\ Rewrite => step' = "tag" /\ step = "rewrite"
        /\ step = "vacuum" /\ step' # "vacuum" => Snapshot \/ Stop \/ Crash \/ Raises
<1>1. Rewrite => step' = "tag" /\ step = "rewrite"
  BY DEF Rewrite, Then
<1>2. LookUpSpeaker => step = "look up" /\ step' \in {"import", "idle"}
  BY DEF LookUpSpeaker, Then, Fails, Over
<1>3. ImportLines => step = "import" /\ step' \in {"tag", "idle"}
  BY DEF ImportLines, Then, Fails, Over
<1>4. /\ BeginSnapshot => step = "snapshot" /\ step' = "vacuum"
      /\ Snapshot => step = "vacuum" /\ step' = "read"
      /\ ReadLines => step = "read" /\ step' = "rewrite"
      /\ PickNumber => step = "number" /\ step' = "add"
      /\ AddSummary => step = "add" /\ step' = "tag"
  BY DEF BeginSnapshot, Snapshot, ReadLines, PickNumber, AddSummary, Then
<1>5. Digest \/ AskModel => step \in {"digest", "model"} /\ step' \in {"model", "number", "idle"}
  BY DEF Digest, AskModel, Then, Fails, Over
<1>6. Tag => step = "tag" /\ step' = "idle"
  BY DEF Tag, Succeeds, Over
<1>7. Raises => step' = "idle"
  BY DEF Raises, Fails, Over
<1>8. Stop \/ Crash => step' = "down"
  BY DEF Stop, Crash
<1>9. Restart => step = "down" /\ step' = "idle"
  BY DEF Restart
<1>10. \A t \in Tasks : Claim(t) => /\ step = "idle"
                                     /\ step' \in {"snapshot", "digest", "look up", "import"}
  BY DEF Claim
<1>11. UNCHANGED run => Goal
  BY <1>1
<1>12. HandlerStep => Goal
  BY <1>1, <1>2, <1>3, <1>4, <1>5, <1>6 DEF HandlerStep
<1>13. WorkerStep => Goal
  BY <1>1, <1>7, <1>8, <1>9, <1>10, <1>12 DEF WorkerStep
<1>. QED
  BY <1>11, <1>13, Leaves DEF RunKept

LEMMA StepCopies ==
    ASSUME None \notin Transcripts, Typed, CopiesHeld, [Next]_vars
    PROVE  CopiesHeld'
<1>1. /\ snapshots \in Seq(Copies) /\ lines \in Transcripts /\ rewrites \in BOOLEAN
      /\ torn \in BOOLEAN
      /\ step \in {"vacuum", "read", "rewrite"} => snapshots # <<>>
  BY DEF Typed, SnapshotTypes, ProjectTypes, Bound, HistoryTypes
<1>2. /\ Len(snapshots) \in Nat /\ DOMAIN snapshots = 1 .. Len(snapshots)
      /\ snapshots # <<>> => Len(snapshots) >= 1
  BY <1>1, LenProperties, EmptySeq
<1>3. torn' = torn \/ CutsShort
  BY Leaves DEF HistoryKept
<1>4. rewrites' = rewrites \/ (Rewrite /\ snapshots' = snapshots)
  BY Leaves DEF HistoryKept, Rewrite
<1>5. ASSUME BeginSnapshot
      PROVE  CopiesHeld'
  <2>. DEFINE x == [lines |-> None, original |-> ~rewrites]
  <2>1. /\ x \in Copies /\ x.original = ~rewrites
        /\ snapshots' = Append(snapshots, x)
        /\ step = "snapshot" /\ step' = "vacuum" /\ torn' = torn /\ rewrites' = rewrites
    BY <1>5 DEF BeginSnapshot, Copies, Then
  <2>. HIDE DEF x
  <2>2. /\ Len(snapshots') = Len(snapshots) + 1 /\ DOMAIN snapshots' = 1 .. Len(snapshots) + 1
        /\ snapshots'[Len(snapshots) + 1] = x
        /\ \A i \in 1 .. Len(snapshots) : snapshots'[i] = snapshots[i]
    BY <1>1, <1>2, <2>1
  <2>3. ASSUME ~torn', NEW i \in DOMAIN snapshots', i < Len(snapshots')
        PROVE  Whole(snapshots'[i])
    <3>1. i \in 1 .. Len(snapshots)
      BY <1>2, <2>2, <2>3
    <3>. QED
      BY <1>2, <2>1, <2>2, <2>3, <3>1 DEF CopiesHeld, CopiesKept
  <2>4. rewrites' => Len(snapshots') >= 2
    BY <1>2, <2>1, <2>2 DEF CopiesHeld, CopiesKept
  <2>5. snapshots'[1].original
    <3>1. CASE Len(snapshots) = 0
      <4>1. ~rewrites /\ snapshots'[1] = x
        BY <2>2, <3>1 DEF CopiesHeld, CopiesKept
      <4>. QED
        BY <2>1, <4>1
    <3>2. CASE Len(snapshots) # 0
      <4>1. snapshots'[1] = snapshots[1] /\ snapshots # <<>>
        BY <1>2, <2>2, <3>2
      <4>. QED
        BY <4>1 DEF CopiesHeld, CopiesKept
    <3>. QED
      BY <3>1, <3>2
  <2>. QED
    BY <2>1, <2>3, <2>4, <2>5 DEF CopiesHeld, CopiesKept, NewestIsLines
<1>6. ASSUME step = "vacuum"
      PROVE  /\ FinishedSnapshot \in Seq(Copies) /\ FinishedSnapshot # <<>>
             /\ DOMAIN FinishedSnapshot = 1 .. Len(snapshots)
             /\ Len(FinishedSnapshot) = Len(snapshots)
             /\ ~torn => \A i \in 1 .. Len(snapshots) : Whole(FinishedSnapshot[i])
             /\ FinishedSnapshot[1].original
             /\ FinishedSnapshot[Len(snapshots)].lines = lines
  <2>1. /\ FinishedSnapshot \in Seq(Copies) /\ FinishedSnapshot # <<>>
        /\ Len(FinishedSnapshot) = Len(snapshots)
        /\ \A i \in 1 .. Len(snapshots) - 1 : FinishedSnapshot[i] = snapshots[i]
        /\ FinishedSnapshot[Len(snapshots)] = [lines |-> lines, original |-> ~rewrites]
    BY <1>1, <1>6, FinishedIs
  <2>2. /\ FinishedSnapshot[Len(snapshots)].lines = lines
        /\ FinishedSnapshot[Len(snapshots)].original = ~rewrites
    BY <2>1
  <2>3. Len(snapshots) >= 1
    BY <1>1, <1>2, <1>6
  <2>4. ASSUME ~torn, NEW i \in 1 .. Len(snapshots)
        PROVE  Whole(FinishedSnapshot[i])
    <3>1. CASE i = Len(snapshots)
      BY <1>1, <2>2, <3>1 DEF Whole
    <3>2. CASE i # Len(snapshots)
      <4>1. i \in 1 .. Len(snapshots) - 1 /\ i \in DOMAIN snapshots /\ i < Len(snapshots)
        <5>1. \A k \in Nat : \A j \in 1 .. k : j # k => j \in 1 .. k - 1 /\ j < k
          OBVIOUS
        <5>2. i \in 1 .. Len(snapshots) - 1 /\ i < Len(snapshots)
          BY <1>2, <3>2, <5>1
        <5>. QED
          BY <1>2, <5>2
      <4>. QED
        BY <2>1, <2>4, <4>1 DEF CopiesHeld, CopiesKept
    <3>. QED
      BY <3>1, <3>2
  <2>5. FinishedSnapshot[1].original
    <3>1. CASE Len(snapshots) = 1
      <4>1. ~rewrites
        BY <1>6, <3>1 DEF CopiesHeld, CopiesKept
      <4>. QED
        BY <2>2, <3>1, <4>1
    <3>2. CASE Len(snapshots) # 1
      <4>1. 1 \in 1 .. Len(snapshots) - 1 /\ snapshots # <<>>
        BY <1>1, <1>2, <1>6, <2>3, <3>2
      <4>. QED
        BY <2>1, <4>1 DEF CopiesHeld, CopiesKept
    <3>. QED
      BY <3>1, <3>2
  <2>. QED
    BY <2>1, <2>2, <2>4, <2>5, LenProperties
<1>7. ASSUME Snapshot
      PROVE  CopiesHeld'
  <2>1. /\ step = "vacuum" /\ step' = "read" /\ snapshots' = Prune(FinishedSnapshot)
        /\ torn' = torn /\ rewrites' = rewrites /\ lines' = lines
    BY <1>7 DEF Snapshot, Then
  <2>2. /\ snapshots' \in Seq(Copies) /\ snapshots' # <<>>
        /\ snapshots'[1] = FinishedSnapshot[1]
        /\ snapshots'[Len(snapshots')] = FinishedSnapshot[Len(snapshots)]
        /\ \A i \in DOMAIN snapshots' : \E j \in DOMAIN FinishedSnapshot :
              snapshots'[i] = FinishedSnapshot[j]
    BY <1>6, <2>1, PruneIs
  <2>3. ~torn' => \A i \in DOMAIN snapshots' : Whole(snapshots'[i])
    BY <1>6, <2>1, <2>2
  <2>4. Len(snapshots') >= 1
    <3>1. Len(snapshots') \in Nat \ {0}
      BY <2>2, EmptySeq
    <3>. QED
      BY <3>1
  <2>. QED
    BY <1>6, <2>1, <2>2, <2>3, <2>4 DEF CopiesHeld, CopiesKept, NewestIsLines
<1>8. ASSUME Stop, step = "vacuum"
      PROVE  CopiesHeld'
  <2>1. /\ step' = "down" /\ snapshots' = FinishedSnapshot
        /\ torn' = torn /\ rewrites' = rewrites
    BY <1>8 DEF Stop
  <2>2. rewrites => Len(snapshots) >= 1
    BY <1>2, <1>8 DEF CopiesHeld, CopiesKept
  <2>. QED
    BY <1>6, <1>8, <2>1, <2>2 DEF CopiesHeld, CopiesKept, NewestIsLines
<1>9. ASSUME UNCHANGED snapshots, ~BeginSnapshot, ~Snapshot, ~(Stop /\ step = "vacuum")
      PROVE  CopiesHeld'
  <2>1. /\ step' = "vacuum" => step = "vacuum"
        /\ step' = "read" => step = "read"
        /\ step' = "rewrite" => step \in {"rewrite", "read"}
        /\ Rewrite => step' = "tag" /\ step = "rewrite"
        /\ step = "vacuum" /\ step' # "vacuum" => Crash \/ Raises
    BY <1>9, StepPlaces DEF ReadLines
  <2>2. ~torn' => ~torn /\ (step = "vacuum" => step' = "vacuum")
    <3>1. Crash \/ Raises => torn' = (torn \/ step = "vacuum")
      BY DEF Crash, Raises
    <3>2. ~torn' => ~torn
      BY <1>3, Zenon DEF CutsShort
    <3>3. ~torn' => ~((Crash \/ Raises) /\ step = "vacuum")
      BY <3>1, Zenon
    <3>. QED
      BY <2>1, <3>2, <3>3, Zenon
  <2>3. ~torn' => \A i \in DOMAIN snapshots :
                    i < Len(snapshots) \/ step' # "vacuum" => Whole(snapshots[i])
    BY <2>1, <2>2 DEF CopiesHeld, CopiesKept
  <2>4. rewrites' => Len(snapshots) >= IF step' = "vacuum" THEN 2 ELSE 1
    <3>1. CASE rewrites
      BY <1>2, <2>1, <3>1 DEF CopiesHeld, CopiesKept
    <3>2. CASE ~rewrites
      BY <1>1, <1>2, <1>4, <2>1, <3>2
    <3>. QED
      BY <3>1, <3>2
  <2>5. ASSUME step' \in {"read", "rewrite"}, ~touched'
        PROVE  snapshots[Len(snapshots)].lines = lines'
    <3>1. step \in {"read", "rewrite"} /\ ~Rewrite /\ ~ImportLines
      BY <2>1, <2>5 DEF ImportLines
    <3>2. ASSUME NEW v \in Clients, ChangesLines(v)
          PROVE  ~touched /\ lines' = lines
      BY <2>5, <3>2 DEF ChangesLines, SaveSpeaker, EditText, DeleteLine
    <3>3. ~touched /\ lines' = lines
      BY <1>9, <2>5, <3>1, <3>2, Leaves DEF LinesKept, HistoryKept
    <3>. QED
      BY <3>1, <3>3 DEF CopiesHeld, NewestIsLines
  <2>. QED
    BY <1>9, <2>3, <2>4, <2>5 DEF CopiesHeld, CopiesKept, NewestIsLines
<1>. QED
  BY <1>5, <1>7, <1>8, <1>9, Leaves DEF SnapshotsStay

LEMMA CopiesInvariant ==
    ASSUME None \notin Transcripts
    PROVE  Spec => [](TypesInv /\ CopiesHeld)
<1>1. Init => TypesInv /\ CopiesHeld
  BY TypesInit, CopiesInit
<1>2. (TypesInv /\ CopiesHeld) /\ [Next]_vars => (TypesInv /\ CopiesHeld)'
  BY TypesStep, StepCopies DEF TypesInv
<1>. QED
  BY <1>1, <1>2, PTL DEF Spec

\* The oldest snapshot is the transcript as it was before any clean, whatever is pruned,
\* interrupted or retried, as long as no crash or failure cut a snapshot short.
THEOREM OldestIsOriginal ==
    ASSUME None \notin Transcripts
    PROVE  Spec => []OriginalKept
<1>1. TypesInv /\ CopiesHeld => OriginalKept
  <2>. SUFFICES ASSUME TypesInv, CopiesHeld, rewrites, ~torn
                PROVE  Whole(snapshots[1]) /\ snapshots[1].original
    BY DEF OriginalKept
  <2>1. /\ Len(snapshots) \in Nat /\ DOMAIN snapshots = 1 .. Len(snapshots)
        /\ Len(snapshots) >= IF step = "vacuum" THEN 2 ELSE 1
    BY LenProperties DEF TypesInv, Typed, SnapshotTypes, CopiesHeld, CopiesKept
  <2>2. 1 \in DOMAIN snapshots /\ (1 < Len(snapshots) \/ step # "vacuum") /\ snapshots # <<>>
    BY <2>1
  <2>. QED
    BY <2>2 DEF CopiesHeld, CopiesKept
<1>. QED
  BY <1>1, CopiesInvariant, PTL

\* A clean rewrites lines that no user changed since the snapshot only where a snapshot
\* holds just these lines: of nothing else it wrote over is there no copy.
THEOREM RewritesHaveCopies ==
    ASSUME None \notin Transcripts
    PROVE  Spec => UntouchedHasCopy
<1>1. (TypesInv /\ CopiesHeld) /\ [Next]_vars => [Rewrite /\ ~touched => HasCopy]_vars
  <2>. SUFFICES ASSUME TypesInv, CopiesHeld, Rewrite, ~touched
                PROVE  HasCopy
    OBVIOUS
  <2>1. step = "rewrite"
    BY DEF Rewrite
  <2>2. snapshots # <<>> /\ snapshots[Len(snapshots)].lines = lines
    BY <2>1 DEF TypesInv, Typed, SnapshotTypes, CopiesHeld, NewestIsLines
  <2>3. Len(snapshots) \in DOMAIN snapshots
    BY <2>2, EmptySeq, LenProperties DEF TypesInv, Typed, SnapshotTypes
  <2>. QED
    BY <2>2, <2>3 DEF HasCopy
<1>. QED
  BY <1>1, CopiesInvariant, PTL DEF Spec, UntouchedHasCopy
-----------------------------------------------------------------------------
(* The pieces of the lines *)

\* Every piece has the number and the origin of one there was.
Inherits(L, S, H, busy, M, T, G, now) ==
    \A p : IsLive(p, M, T, G, now) =>
              \E q : IsLive(q, L, S, H, busy) /\ q.no = p.no /\ q.of = p.of

LEMMA PieceIs ==
    ASSUME NEW L \in Transcripts, NEW n \in DOMAIN L
    PROVE  n \in Nat /\ L[n].text \in SUBSET Piece /\ \A p \in L[n].text : p.no \in Nat
<1>1. L \in [DOMAIN L -> Line] /\ DOMAIN L \subseteq Nat \ {0}
  BY TranscriptIs
<1>2. L[n].text \in SUBSET Piece
  BY <1>1, LineIs
<1>3. \A p \in Piece : p.no \in Nat
  BY DEF Piece
<1>. QED
  BY <1>1, <1>2, <1>3

LEMMA FewerApart ==
    ASSUME NEW X, NEW Y, NEW V, NEW Z, Apart(X, Y),
           DOMAIN V \subseteq DOMAIN X, DOMAIN Z \subseteq DOMAIN Y,
           \A n \in DOMAIN V : V[n].text = X[n].text
    PROVE  Apart(V, Z)
BY DEF Apart

LEMMA EditedApart ==
    ASSUME NEW X, NEW Y, NEW V, NEW W \in Transcripts, NEW k \in DOMAIN W,
           Apart(X, Y), Apart(W, Y), DOMAIN V = DOMAIN X,
           \A n \in DOMAIN X : V[n].text = IF n = k THEN Corrected(W[k].text) ELSE X[n].text
    PROVE  Apart(V, Y)
<1>1. \A q \in Corrected(W[k].text) : \E p \in W[k].text : q.no = p.no
  BY PieceIs, CorrectedIs
<1>2. ASSUME NEW n \in DOMAIN V \cap DOMAIN Y, NEW m \in DOMAIN Y, n < m, NEW p \in V[n].text
      PROVE  p.no < m
  <2>1. CASE n = k
    BY <1>1, <1>2, <2>1 DEF Apart
  <2>2. CASE n # k
    BY <1>2, <2>2 DEF Apart
  <2>. QED
    BY <2>1, <2>2
<1>. QED
  BY <1>2 DEF Apart

LEMMA EditedPlaced ==
    ASSUME NEW w, NEW X, NEW V, NEW W \in Transcripts, NEW k \in DOMAIN W,
           Placed(w, X), Placed(w, W), DOMAIN V = DOMAIN X,
           \A n \in DOMAIN X : V[n].text = IF n = k THEN Corrected(W[k].text) ELSE X[n].text
    PROVE  Placed(w, V)
<1>1. /\ \A q \in Corrected(W[k].text) : \E p \in W[k].text : q.no = p.no
      /\ Single(W[k].text) => Single(Corrected(W[k].text))
  BY PieceIs, CorrectedIs
<1>2. ASSUME NEW n \in DOMAIN V
      PROVE  Single(V[n].text) /\ \A p \in V[n].text : n <= p.no /\ p.no <= w
  <2>1. CASE n = k
    BY <1>1, <2>1 DEF Placed
  <2>2. CASE n # k
    BY <2>2 DEF Placed
  <2>. QED
    BY <2>1, <2>2
<1>. QED
  BY <1>2 DEF Placed

\* X is Y with another text in line k.
WithText(X, Y, k, text) ==
    DOMAIN X = DOMAIN Y /\ \A n \in DOMAIN Y : X[n].text = IF n = k THEN text ELSE Y[n].text

\* Lines are edited: a text that one editor shows, corrected, is saved.
LEMMA EditKeepsPlace ==
    ASSUME NEW w, NEW L, NEW S \in [Clients -> Transcripts], NEW H, NEW busy,
           NEW v \in Clients, NEW k \in DOMAIN S[v], k \in DOMAIN L,
           NEW M, NEW R, NEW T, T = [S EXCEPT ![v] = R],
           WithText(M, L, k, Corrected(S[v][k].text)),
           WithText(R, S[v], k, Corrected(S[v][k].text)),
           InPlace(w, L, S, H, busy)
    PROVE  InPlace(w, M, T, H, busy) /\ Inherits(L, S, H, busy, M, T, H, busy)
<1>. USE DEF WithText
<1>1. S[v] \in Transcripts /\ \A u \in Clients : T[u] = IF u = v THEN R ELSE S[u]
  OBVIOUS
<1>2. /\ Placed(w, L) /\ Apart(L, L)
      /\ \A u \in Clients : Placed(w, S[u]) /\ Apart(S[u], L)
      /\ busy => /\ Placed(w, H) /\ Apart(H, H) /\ Apart(L, H)
                 /\ \A u \in Clients : Apart(S[u], H)
                 /\ DOMAIN L \subseteq DOMAIN H
  BY DEF InPlace
<1>3. Placed(w, M) /\ Placed(w, R)
  BY <1>1, <1>2, EditedPlaced
<1>4. Apart(M, L) /\ Apart(R, L)
  BY <1>1, <1>2, EditedApart
<1>5. busy => Apart(M, H) /\ Apart(R, H)
  BY <1>1, <1>2, EditedApart
<1>6. Apart(M, M) /\ Apart(R, M) /\ \A u \in Clients : Apart(S[u], M)
  BY <1>2, <1>4 DEF Apart
<1>7. InPlace(w, M, T, H, busy)
  BY <1>1, <1>2, <1>3, <1>5, <1>6 DEF InPlace
<1>8. \A q \in Corrected(S[v][k].text) : \E p \in S[v][k].text : q.no = p.no /\ q.of = p.of
  BY <1>1, PieceIs, CorrectedIs
<1>9. \A q \in S[v][k].text : IsLive(q, L, S, H, busy)
  BY DEF IsLive
<1>10. ASSUME NEW p, IsLive(p, M, T, H, busy)
       PROVE  \E q : IsLive(q, L, S, H, busy) /\ q.no = p.no /\ q.of = p.of
  <2>1. ASSUME NEW n \in DOMAIN M, p \in M[n].text
        PROVE  \E q : IsLive(q, L, S, H, busy) /\ q.no = p.no /\ q.of = p.of
    <3>1. CASE n = k
      BY <1>8, <1>9, <2>1, <3>1
    <3>2. CASE n # k
      BY <2>1, <3>2 DEF IsLive
    <3>. QED
      BY <3>1, <3>2
  <2>2. ASSUME busy, NEW n \in DOMAIN H, p \in H[n].text
        PROVE  \E q : IsLive(q, L, S, H, busy) /\ q.no = p.no /\ q.of = p.of
    BY <2>2 DEF IsLive
  <2>3. ASSUME NEW u \in Clients, NEW n \in DOMAIN T[u],
               n \in DOMAIN M \/ (busy /\ n \in DOMAIN H), p \in T[u][n].text
        PROVE  \E q : IsLive(q, L, S, H, busy) /\ q.no = p.no /\ q.of = p.of
    <3>1. CASE u = v /\ n = k
      BY <1>1, <1>8, <1>9, <2>3, <3>1
    <3>2. CASE ~(u = v /\ n = k)
      <4>1. n \in DOMAIN S[u] /\ p \in S[u][n].text
        BY <1>1, <2>3, <3>2
      <4>. QED
        BY <2>3, <4>1 DEF IsLive
    <3>. QED
      BY <3>1, <3>2
  <2>. QED
    BY <1>10, <2>1, <2>2, <2>3 DEF IsLive
<1>. QED
  BY <1>7, <1>10 DEF Inherits
LEMMA InheritedRuns ==
    ASSUME NEW L, NEW S, NEW H, NEW busy, NEW M, NEW T, NEW G, NEW now,
           Runs(L, S, H, busy), Inherits(L, S, H, busy, M, T, G, now)
    PROVE  Runs(M, T, G, now)
<1>. SUFFICES ASSUME NEW t \in Imports \ Appending
              PROVE  \E b \in Nat : \A p : IsLive(p, M, T, G, now) /\ p.of = t =>
                                       b < p.no /\ p.no <= b + Len(TextOf[t])
  BY DEF Runs
<1>1. PICK b \in Nat : \A p : IsLive(p, L, S, H, busy) /\ p.of = t =>
                                 b < p.no /\ p.no <= b + Len(TextOf[t])
  BY DEF Runs
<1>2. ASSUME NEW p, IsLive(p, M, T, G, now), p.of = t
      PROVE  b < p.no /\ p.no <= b + Len(TextOf[t])
  <2>1. PICK q : IsLive(q, L, S, H, busy) /\ q.no = p.no /\ q.of = p.of
    BY <1>2 DEF Inherits
  <2>. QED
    BY <1>1, <1>2, <2>1
<1>. QED
  BY <1>2

\* X has the texts of some lines of Y.
PartOf(X, Y) == DOMAIN X \subseteq DOMAIN Y /\ \A n \in DOMAIN X : X[n].text = Y[n].text

\* Lines are loaded, deleted or given another speaker.
LEMMA PartsKeepPlace ==
    ASSUME NEW w, NEW L, NEW S, NEW H, NEW busy, NEW M, NEW T, NEW now,
           InPlace(w, L, S, H, busy), now => busy, PartOf(M, L),
           \A v \in Clients : PartOf(T[v], S[v]) \/ PartOf(T[v], L)
    PROVE  InPlace(w, M, T, H, now) /\ Inherits(L, S, H, busy, M, T, H, now)
<1>1. /\ Placed(w, L) /\ Apart(L, L)
      /\ \A v \in Clients : Placed(w, S[v]) /\ Apart(S[v], L)
      /\ busy => /\ Placed(w, H) /\ Apart(H, H) /\ Apart(L, H)
                 /\ \A v \in Clients : Apart(S[v], H)
                 /\ DOMAIN L \subseteq DOMAIN H
  BY DEF InPlace
<1>2. ASSUME NEW X, NEW Y, PartOf(X, Y), Placed(w, Y)
      PROVE  Placed(w, X)
  BY <1>2 DEF PartOf, Placed
<1>3. ASSUME NEW X, NEW Y, NEW Z, NEW V, PartOf(X, Y), Apart(Y, Z), DOMAIN V \subseteq DOMAIN Z
      PROVE  Apart(X, V)
  BY <1>3, FewerApart DEF PartOf
<1>4. DOMAIN M \subseteq DOMAIN L
  BY DEF PartOf
<1>5. Placed(w, M) /\ Apart(M, M)
  BY <1>1, <1>2, <1>3, <1>4
<1>6. \A v \in Clients : Placed(w, T[v]) /\ Apart(T[v], M)
  BY <1>1, <1>2, <1>3, <1>4
<1>7. busy => /\ Apart(M, H) /\ DOMAIN M \subseteq DOMAIN H
              /\ \A v \in Clients : Apart(T[v], H)
  BY <1>1, <1>3, <1>4
<1>8. InPlace(w, M, T, H, now)
  BY <1>1, <1>5, <1>6, <1>7 DEF InPlace
<1>9. ASSUME NEW p, IsLive(p, M, T, H, now)
      PROVE  IsLive(p, L, S, H, busy)
  <2>1. ASSUME NEW n \in DOMAIN M, p \in M[n].text
        PROVE  IsLive(p, L, S, H, busy)
    BY <2>1 DEF PartOf, IsLive
  <2>2. ASSUME now, NEW n \in DOMAIN H, p \in H[n].text
        PROVE  IsLive(p, L, S, H, busy)
    BY <2>2 DEF IsLive
  <2>3. ASSUME NEW v \in Clients, NEW n \in DOMAIN T[v],
               n \in DOMAIN M \/ (now /\ n \in DOMAIN H), p \in T[v][n].text
        PROVE  IsLive(p, L, S, H, busy)
    <3>1. CASE PartOf(T[v], S[v])
      <4>1. n \in DOMAIN S[v] /\ p \in S[v][n].text
        BY <2>3, <3>1 DEF PartOf
      <4>. QED
        BY <1>4, <2>3, <4>1 DEF IsLive
    <3>2. CASE PartOf(T[v], L)
      BY <2>3, <3>2 DEF PartOf, IsLive
    <3>. QED
      BY <3>1, <3>2
  <2>. QED
    BY <1>9, <2>1, <2>2, <2>3 DEF IsLive
<1>. QED
  BY <1>8, <1>9 DEF Inherits

\* A clean reads the lines.
LEMMA ReadKeepsPlace ==
    ASSUME NEW w, NEW L, NEW S, NEW H, NEW busy, InPlace(w, L, S, H, busy)
    PROVE  InPlace(w, L, S, L, TRUE) /\ Inherits(L, S, H, busy, L, S, L, TRUE)
<1>1. InPlace(w, L, S, L, TRUE)
  BY DEF InPlace
<1>2. \A p : IsLive(p, L, S, L, TRUE) => IsLive(p, L, S, H, busy)
  BY DEF IsLive
<1>. QED
  BY <1>1, <1>2 DEF Inherits

\* The line a turn is joined into begins after every line of the turn before.
LEMMA TurnEnds ==
    ASSUME NEW H \in Transcripts, NEW n \in Firsts(H), NEW m \in Firsts(H), n < m,
           NEW k \in Turn(H, n)
    PROVE  k < m
<1>1. DOMAIN H \subseteq Nat /\ Survivors(H) \subseteq DOMAIN H
  BY TranscriptIs DEF Survivors
<1>2. /\ n \in Survivors(H) /\ m \in Survivors(H) /\ ~SameTurn(H, n, m)
      /\ k \in Survivors(H) /\ SameTurn(H, n, k)
  BY DEF Firsts, Turn
<1>3. ASSUME m <= k
      PROVE  FALSE
  <2>1. \A j \in Survivors(H) : n <= j /\ j <= m => n <= j /\ j <= k
    BY <1>1, <1>2, <1>3
  <2>2. SameTurn(H, n, m)
    BY <1>2, <2>1 DEF SameTurn
  <2>. QED
    BY <1>2, <2>2
<1>. QED
  BY <1>1, <1>2, <1>3

\* A clean writes what it read.
LEMMA RewriteKeepsPlace ==
    ASSUME NEW w, NEW L, NEW S, NEW H \in Transcripts, InPlace(w, L, S, H, TRUE), NEW G
    PROVE  /\ InPlace(w, Cleaned(H), S, G, FALSE)
           /\ Inherits(L, S, H, TRUE, Cleaned(H), S, G, FALSE)
<1>. DEFINE M == Cleaned(H)
<1>1. /\ Placed(w, H) /\ Apart(H, H)
      /\ \A v \in Clients : Placed(w, S[v]) /\ Apart(S[v], H)
  BY DEF InPlace
<1>2. /\ DOMAIN M = Firsts(H) /\ Firsts(H) \subseteq DOMAIN H /\ DOMAIN H \subseteq Nat
      /\ \A n \in Firsts(H) : M[n].text = UNION {H[k].text : k \in Turn(H, n)}
      /\ \A n \in Firsts(H) : \A k \in Turn(H, n) : k \in DOMAIN H /\ n <= k
  BY CleanedIs, TranscriptIs DEF Turn, Survivors
<1>. HIDE DEF M
<1>3. \A n \in DOMAIN M : \A p \in M[n].text : \E k \in Turn(H, n) : p \in H[k].text
  BY <1>2
<1>4. ASSUME NEW n \in DOMAIN M, NEW p \in M[n].text
      PROVE  n <= p.no /\ p.no <= w
  <2>1. PICK k \in Turn(H, n) : p \in H[k].text
    BY <1>3
  <2>2. k \in DOMAIN H /\ n <= k /\ k <= p.no /\ p.no <= w
    BY <1>1, <1>2, <2>1 DEF Placed
  <2>3. p.no \in Nat /\ k \in Nat /\ n \in Nat
    BY <1>2, <2>1, <2>2, PieceIs
  <2>. QED
    BY <2>2, <2>3
<1>5. ASSUME NEW n \in DOMAIN M, NEW p \in M[n].text, NEW q \in M[n].text, p.no = q.no
      PROVE  p = q
  <2>1. PICK k \in Turn(H, n) : p \in H[k].text
    BY <1>3
  <2>2. PICK j \in Turn(H, n) : q \in H[j].text
    BY <1>3
  <2>3. k \in DOMAIN H /\ j \in DOMAIN H /\ k \in Nat /\ j \in Nat
    BY <1>2, <2>1, <2>2
  <2>4. p.no \in Nat /\ k <= p.no /\ j <= p.no
    BY <1>1, <1>5, <2>1, <2>2, <2>3, PieceIs DEF Placed
  <2>5. ~(k < j) /\ ~(j < k)
    BY <1>1, <1>5, <2>1, <2>2, <2>3, <2>4 DEF Apart
  <2>6. k = j
    BY <2>3, <2>5
  <2>. QED
    BY <1>1, <1>5, <2>1, <2>2, <2>3, <2>6 DEF Placed, Single
<1>6. Placed(w, M)
  BY <1>4, <1>5 DEF Placed, Single
<1>7. ASSUME NEW n \in DOMAIN M, NEW m \in DOMAIN M, n < m, NEW p \in M[n].text
      PROVE  p.no < m
  <2>1. PICK k \in Turn(H, n) : p \in H[k].text
    BY <1>3
  <2>2. k < m /\ k \in DOMAIN H /\ m \in DOMAIN H
    BY <1>2, <1>7, <2>1, TurnEnds
  <2>. QED
    BY <1>1, <2>1, <2>2 DEF Apart
<1>8. Apart(M, M)
  BY <1>7 DEF Apart
<1>9. \A v \in Clients : Apart(S[v], M)
  BY <1>1, <1>2 DEF Apart
<1>10. InPlace(w, M, S, G, FALSE)
  BY <1>1, <1>6, <1>8, <1>9 DEF InPlace
<1>11. ASSUME NEW p, IsLive(p, M, S, G, FALSE)
       PROVE  IsLive(p, L, S, H, TRUE)
  <2>1. ASSUME NEW n \in DOMAIN M, p \in M[n].text
        PROVE  IsLive(p, L, S, H, TRUE)
    BY <1>2, <1>3, <2>1 DEF IsLive
  <2>2. ASSUME NEW v \in Clients, NEW n \in DOMAIN S[v], n \in DOMAIN M, p \in S[v][n].text
        PROVE  IsLive(p, L, S, H, TRUE)
    BY <1>2, <2>2 DEF IsLive
  <2>. QED
    BY <1>11, <2>1, <2>2 DEF IsLive
<1>. QED
  BY <1>10, <1>11 DEF Inherits, M
\* An import adds lines, and takes the others away unless it appends.
LEMMA ImportKeepsPlace ==
    ASSUME Typed, cur \in Imports, NEW H, NEW busy, NEW G,
           InPlace(written, lines, shown, H, busy), Runs(lines, shown, H, busy)
    PROVE  /\ InPlace(written + Len(TextOf[cur]), Joined, shown, G, FALSE)
           /\ Runs(Joined, shown, G, FALSE)
<1>. DEFINE w == written + Len(TextOf[cur])
<1>1. /\ Joined \in Transcripts
      /\ Len(TextOf[cur]) \in Nat
      /\ DOMAIN Joined = DOMAIN KeptLines \cup New
      /\ DOMAIN KeptLines \subseteq DOMAIN lines
      /\ \A n \in DOMAIN KeptLines : n <= written /\ Joined[n] = lines[n]
      /\ \A n \in New : n > written
      /\ \A n \in New : \E is : Joined[n].text = {[of |-> cur, no |-> n, is |-> is]}
  BY JoinedIs DEF Typed
<1>2. /\ written \in Nat /\ lines \in Transcripts /\ DOMAIN lines \subseteq 1 .. written
      /\ \A v \in Clients : shown[v] \in Transcripts /\ DOMAIN shown[v] \subseteq 1 .. written
  BY DEF Typed, ProjectTypes, EditorTypes, Bound
<1>3. /\ Placed(written, lines) /\ Apart(lines, lines)
      /\ \A v \in Clients : Placed(written, shown[v]) /\ Apart(shown[v], lines)
  BY DEF InPlace
<1>4. /\ w \in Nat /\ written <= w
      /\ \A n \in New : n \in Nat /\ n <= w
      /\ \A n \in 1 .. written : n \in Nat /\ n <= written
  BY <1>1, <1>2 DEF New
<1>. HIDE DEF w
<1>5. \A n \in New : \A p \in Joined[n].text : p.no = n /\ p.of = cur
  BY <1>1
<1>6. ASSUME NEW n \in New, NEW p \in Joined[n].text, NEW q \in Joined[n].text
      PROVE  p = q
  BY <1>1
<1>7. ASSUME NEW L \in Transcripts, Placed(written, L)
      PROVE  /\ Placed(w, L)
             /\ \A n \in DOMAIN L : \A p \in L[n].text : p.no \in Nat /\ p.no <= written
  <2>1. ASSUME NEW n \in DOMAIN L
        PROVE  /\ Single(L[n].text)
               /\ \A p \in L[n].text : p.no \in Nat /\ n <= p.no /\ p.no <= written
    BY <1>7, PieceIs DEF Placed
  <2>2. \A n \in DOMAIN L : \A p \in L[n].text : p.no <= w
    BY <1>2, <1>4, <2>1
  <2>. QED
    BY <2>1, <2>2 DEF Placed
<1>8. Placed(w, Joined)
  <2>1. ASSUME NEW n \in DOMAIN KeptLines
        PROVE  Single(Joined[n].text) /\ \A p \in Joined[n].text : n <= p.no /\ p.no <= w
    BY <1>1, <1>2, <1>3, <1>7, <2>1 DEF Placed
  <2>2. ASSUME NEW n \in New
        PROVE  Single(Joined[n].text) /\ \A p \in Joined[n].text : n <= p.no /\ p.no <= w
    <3>1. Single(Joined[n].text)
      BY <1>6 DEF Single
    <3>2. \A p \in Joined[n].text : n <= p.no /\ p.no <= w
      BY <1>4, <1>5
    <3>. QED
      BY <3>1, <3>2
  <2>. QED
    BY <1>1, <2>1, <2>2 DEF Placed
<1>9. Apart(Joined, Joined)
  <2>. SUFFICES ASSUME NEW n \in DOMAIN Joined, NEW m \in DOMAIN Joined, n < m,
                       NEW p \in Joined[n].text
                PROVE  p.no < m
    BY DEF Apart
  <2>1. CASE n \in New
    BY <1>5, <2>1
  <2>2. CASE n \in DOMAIN KeptLines /\ m \in DOMAIN KeptLines
    BY <1>1, <1>3, <2>2 DEF Apart
  <2>3. CASE n \in DOMAIN KeptLines /\ m \in New
    <3>1. p.no \in Nat /\ p.no <= written
      BY <1>1, <1>2, <1>3, <1>7, <2>3
    <3>2. m \in Nat /\ written < m
      BY <1>1, <1>2, <1>4, <2>3
    <3>. QED
      BY <1>2, <3>1, <3>2
  <2>. QED
    BY <1>1, <2>1, <2>2, <2>3
<1>10. ASSUME NEW v \in Clients, NEW n \in DOMAIN shown[v], n \in DOMAIN Joined
       PROVE  n \in DOMAIN KeptLines
  <2>1. n \in Nat /\ n <= written
    BY <1>2, <1>4
  <2>2. n \notin New
    BY <1>1, <1>2, <1>4, <2>1
  <2>. QED
    BY <1>1, <1>10, <2>2
<1>11. ASSUME NEW v \in Clients
       PROVE  Apart(shown[v], Joined)
  <2>. SUFFICES ASSUME NEW n \in DOMAIN shown[v] \cap DOMAIN Joined, NEW m \in DOMAIN Joined, n < m,
                       NEW p \in shown[v][n].text
                PROVE  p.no < m
    BY DEF Apart
  <2>1. n \in DOMAIN lines
    BY <1>1, <1>10
  <2>2. CASE m \in DOMAIN KeptLines
    BY <1>1, <1>3, <2>1, <2>2 DEF Apart
  <2>3. CASE m \in New
    <3>1. p.no \in Nat /\ p.no <= written
      BY <1>2, <1>3, <1>7
    <3>2. m \in Nat /\ written < m
      BY <1>1, <1>2, <1>4, <2>3
    <3>. QED
      BY <1>2, <3>1, <3>2
  <2>. QED
    BY <1>1, <2>2, <2>3
<1>12. InPlace(w, Joined, shown, G, FALSE)
  BY <1>2, <1>3, <1>7, <1>8, <1>9, <1>11 DEF InPlace
<1>13. ASSUME NEW p, IsLive(p, Joined, shown, G, FALSE)
       PROVE  \/ p.of = cur /\ p.no \in New
              \/ IsLive(p, lines, shown, H, busy)
  <2>1. ASSUME NEW n \in New, p \in Joined[n].text
        PROVE  p.of = cur /\ p.no \in New
    BY <1>5, <2>1
  <2>2. ASSUME NEW n \in DOMAIN KeptLines, p \in Joined[n].text
        PROVE  IsLive(p, lines, shown, H, busy)
    BY <1>1, <2>2 DEF IsLive
  <2>3. ASSUME NEW v \in Clients, NEW n \in DOMAIN shown[v], n \in DOMAIN Joined,
               p \in shown[v][n].text
        PROVE  IsLive(p, lines, shown, H, busy)
    <3>1. n \in DOMAIN KeptLines /\ n \in DOMAIN lines
      BY <1>1, <1>10, <2>3
    <3>. QED
      BY <2>3, <3>1 DEF IsLive
  <2>4. \/ \E n \in DOMAIN Joined : p \in Joined[n].text
        \/ \E v \in Clients : \E n \in DOMAIN shown[v] : n \in DOMAIN Joined /\ p \in shown[v][n].text
    BY <1>13 DEF IsLive
  <2>. QED
    BY <1>1, <2>1, <2>2, <2>3, <2>4
<1>14. Runs(Joined, shown, G, FALSE)
  <2>. SUFFICES ASSUME NEW t \in Imports \ Appending
                PROVE  \E b \in Nat : \A p : IsLive(p, Joined, shown, G, FALSE) /\ p.of = t =>
                                         b < p.no /\ p.no <= b + Len(TextOf[t])
    BY DEF Runs
  <2>1. CASE t = cur
    <3>1. KeptLines = <<>> /\ DOMAIN KeptLines = {}
      BY <2>1, EmptyTranscript DEF KeptLines
    <3>2. ASSUME NEW p, IsLive(p, Joined, shown, G, FALSE)
          PROVE  p.of = cur /\ p.no \in New
      <4>1. ASSUME NEW n \in DOMAIN Joined, p \in Joined[n].text
            PROVE  p.of = cur /\ p.no \in New
        BY <1>1, <1>5, <3>1, <4>1
      <4>2. ~\E v \in Clients : \E n \in DOMAIN shown[v] : n \in DOMAIN Joined
        BY <1>10, <3>1
      <4>. QED
        BY <3>2, <4>1, <4>2 DEF IsLive
    <3>3. \A p : IsLive(p, Joined, shown, G, FALSE) /\ p.of = t => p.no \in New
      BY <3>2
    <3>4. \A i \in New : written < i /\ i <= written + Len(TextOf[t])
      BY <1>1, <1>2, <2>1 DEF New
    <3>. QED
      BY <1>2, <3>3, <3>4
  <2>2. CASE t # cur
    <3>1. PICK b \in Nat : \A p : IsLive(p, lines, shown, H, busy) /\ p.of = t =>
                                     b < p.no /\ p.no <= b + Len(TextOf[t])
      BY DEF Runs
    <3>. QED
      BY <1>13, <2>2, <3>1
  <2>. QED
    BY <2>1, <2>2
<1>. QED
  BY <1>12, <1>14 DEF w
PiecesHeld == PiecesApart /\ OneRun

LEMMA StepPieces == Typed /\ PiecesHeld /\ [Next]_vars => PiecesHeld'
<1>. SUFFICES ASSUME Typed, PiecesHeld, [Next]_vars
              PROVE  PiecesHeld'
  OBVIOUS
<1>1. ASSUME NEW busy \in BOOLEAN, busy <=> step = "rewrite"
      PROVE  InPlace(written, lines, shown, held, busy) /\ Runs(lines, shown, held, busy)
  BY <1>1 DEF PiecesHeld, PiecesApart, OneRun, InPlace, Runs, IsLive
<1>2. PICK busy \in BOOLEAN :
        /\ busy <=> step = "rewrite"
        /\ InPlace(written, lines, shown, held, busy) /\ Runs(lines, shown, held, busy)
  <2>1. \E busy \in BOOLEAN : busy <=> step = "rewrite"
    OBVIOUS
  <2>. QED
    BY <1>1, <2>1
<1>3. ASSUME NEW M, NEW T, NEW G, NEW now \in BOOLEAN,
             lines' = M, shown' = T, now <=> step' = "rewrite", now => held' = G,
             InPlace(written', M, T, G, now), Runs(M, T, G, now)
      PROVE  PiecesHeld'
  <2>1. PiecesApart'
    BY <1>3 DEF PiecesApart, InPlace
  <2>2. OneRun'
    BY <1>3 DEF OneRun, Runs, IsLive
  <2>. QED
    BY <2>1, <2>2 DEF PiecesHeld
<1>4. ASSUME NEW M, NEW T, lines' = M, shown' = T, UNCHANGED written, ~ReadLines,
             PartOf(M, lines),
             \A v \in Clients : PartOf(T[v], shown[v]) \/ PartOf(T[v], lines)
      PROVE  PiecesHeld'
  <2>1. PICK now \in BOOLEAN : now <=> step' = "rewrite"
    OBVIOUS
  <2>2. (now => busy) /\ (now => held' = held)
    BY <1>2, <1>4, <2>1, StepPlaces
  <2>3. InPlace(written, M, T, held, now) /\ Runs(M, T, held, now)
    <3>1. InPlace(written, M, T, held, now) /\ Inherits(lines, shown, held, busy, M, T, held, now)
      BY <1>2, <1>4, <2>2, PartsKeepPlace
    <3>. QED
      BY <1>2, <3>1, InheritedRuns
  <2>. QED
    BY <1>3, <1>4, <2>1, <2>2, <2>3
<1>5. \A X : PartOf(X, X)
  BY DEF PartOf
<1>6. CASE UNCHANGED <<lines, written, shown>> /\ ~ReadLines
  BY <1>4, <1>5, <1>6
<1>7. CASE ReadLines
  <2>1. /\ UNCHANGED <<lines, written, shown>>
        /\ held' = lines /\ step' = "rewrite"
    BY <1>7 DEF ReadLines, Then
  <2>2. InPlace(written, lines, shown, lines, TRUE) /\ Runs(lines, shown, lines, TRUE)
    BY <1>2, ReadKeepsPlace, InheritedRuns
  <2>. QED
    BY <1>3, <2>1, <2>2
<1>8. CASE Rewrite
  <2>1. /\ lines' = Cleaned(held) /\ UNCHANGED <<written, shown>>
        /\ step = "rewrite" /\ step' = "tag"
    BY <1>8 DEF Rewrite, Then
  <2>2. busy = TRUE /\ held \in Transcripts
    BY <1>2, <2>1 DEF Typed, RunTypes, Bound
  <2>3. /\ InPlace(written, Cleaned(held), shown, held, FALSE)
        /\ Runs(Cleaned(held), shown, held, FALSE)
    BY <1>2, <2>2, RewriteKeepsPlace, InheritedRuns
  <2>. QED
    BY <1>3, <2>1, <2>3
<1>9. CASE ImportLines
  <2>1. cur \in Imports /\ step = "import" /\ step' \in {"tag", "idle"} /\ UNCHANGED shown
    BY <1>9 DEF ImportLines, Typed, RunTypes, Then, Fails, Over
  <2>2. CASE UNCHANGED <<lines, written>>
    BY <1>6, <2>1, <2>2 DEF ReadLines
  <2>3. CASE lines' = Joined /\ written' = written + Len(TextOf[cur])
    <3>1. /\ InPlace(written + Len(TextOf[cur]), Joined, shown, held, FALSE)
          /\ Runs(Joined, shown, held, FALSE)
      BY <1>2, <2>1, ImportKeepsPlace
    <3>. QED
      BY <1>3, <2>1, <2>3, <3>1
  <2>. QED
    BY <1>9, <2>2, <2>3 DEF ImportLines, Joined
<1>10. ASSUME NEW v \in Clients, NEW n \in DOMAIN shown[v], EditText(v, n)
       PROVE  PiecesHeld'
  <2>. DEFINE text == Corrected(shown[v][n].text)
              M == [lines EXCEPT ![n].text = text]
              R == [shown[v] EXCEPT ![n].text = text]
              T == [shown EXCEPT ![v] = R]
  <2>1. /\ n \in DOMAIN lines /\ lines' = M /\ shown' = T
        /\ UNCHANGED <<written, step, held>>
    BY <1>10 DEF EditText
  <2>2. /\ lines \in Transcripts /\ shown[v] \in Transcripts /\ text \in SUBSET Piece
        /\ shown \in [Clients -> Transcripts]
    BY EditFacts DEF Typed, EditorTypes
  <2>3. WithText(M, lines, n, text)
    BY <2>1, <2>2, ChangedText DEF WithText
  <2>4. WithText(R, shown[v], n, text)
    BY <2>2, ChangedText DEF WithText
  <2>. HIDE DEF M, R
  <2>5. /\ InPlace(written, M, T, held, busy)
        /\ Inherits(lines, shown, held, busy, M, T, held, busy)
    BY <1>2, <2>1, <2>2, <2>3, <2>4, EditKeepsPlace
  <2>. HIDE DEF T
  <2>6. Runs(M, T, held, busy)
    BY <1>2, <2>5, InheritedRuns
  <2>7. (busy <=> step' = "rewrite") /\ held' = held /\ written' = written
    BY <1>2, <2>1
  <2>. QED
    BY <1>3, <2>1, <2>5, <2>6, <2>7
<1>11. ASSUME NEW v \in Clients, ChangesEditor(v), ~\E n \in DOMAIN shown[v] : EditText(v, n)
       PROVE  PiecesHeld'
  <2>1. UNCHANGED <<written, step, held>> /\ ~ReadLines
    BY <1>11 DEF ChangesEditor, ChangesLines, LoadLines, SaveSpeaker, EditText, DeleteLine,
                 ChooseSpeaker, ReadLines, Then
  <2>2. /\ shown \in [Clients -> Transcripts]
        /\ lines \in Transcripts /\ shown[v] \in Transcripts
    BY EditFacts DEF Typed, EditorTypes
  <2>3. ASSUME NEW M, NEW R, lines' = M, PartOf(M, lines), PartOf(R, shown[v]) \/ PartOf(R, lines),
               shown' = [shown EXCEPT ![v] = R]
        PROVE  PiecesHeld'
    <3>1. \A u \in Clients :
            LET X == [shown EXCEPT ![v] = R][u]
            IN  PartOf(X, shown[u]) \/ PartOf(X, lines)
      BY <1>5, <2>2, <2>3
    <3>. QED
      BY <1>4, <2>1, <2>3, <3>1
  <2>4. CASE LoadLines(v)
    BY <1>5, <2>3, <2>4 DEF LoadLines
  <2>5. ASSUME NEW n \in DOMAIN shown[v], DeleteLine(v, n)
        PROVE  PiecesHeld'
    <3>. DEFINE M == [m \in DOMAIN lines \ {n} |-> lines[m]]
    <3>1. lines' = M /\ shown' = [shown EXCEPT ![v] = M]
      BY <2>5 DEF DeleteLine
    <3>2. PartOf(M, lines)
      BY DEF PartOf
    <3>. HIDE DEF M
    <3>. QED
      BY <2>3, <3>1, <3>2
  <2>6. CASE SaveSpeaker(v)
    <3>. DEFINE n == pending[v].line
                a == pending[v].name
                M == [lines EXCEPT ![n].speaker = a]
                R == IF n \in DOMAIN shown[v] THEN [shown[v] EXCEPT ![n].speaker = a] ELSE shown[v]
    <3>1. CASE n \notin DOMAIN lines
      BY <1>6, <2>1, <2>6, <3>1 DEF SaveSpeaker
    <3>2. CASE n \in DOMAIN lines
      <4>1. lines' = M /\ shown' = [shown EXCEPT ![v] = R] /\ a \in Names
        BY <2>2, <2>6, <3>2, EditFacts DEF SaveSpeaker
      <4>2. PartOf(M, lines)
        BY <2>2, <3>2, <4>1, ChangedSpeaker DEF PartOf
      <4>3. PartOf(R, shown[v])
        BY <1>5, <2>2, <4>1, ChangedSpeaker DEF PartOf
      <4>. HIDE DEF M, R
      <4>. QED
        BY <2>3, <4>1, <4>2, <4>3
    <3>. QED
      BY <3>1, <3>2
  <2>7. ASSUME NEW n \in DOMAIN shown[v], NEW a \in Names, ChooseSpeaker(v, n, a)
        PROVE  PiecesHeld'
    BY <1>6, <2>1, <2>7 DEF ChooseSpeaker
  <2>. QED
    BY <1>11, <2>4, <2>5, <2>6, <2>7 DEF ChangesEditor, ChangesLines
<1>. QED
  BY <1>6, <1>7, <1>8, <1>9, <1>10, <1>11, Leaves
     DEF LinesKept, EditorsKept, ChangesEditor, ReadLines

LEMMA PiecesInit == Init => PiecesHeld
<1>. SUFFICES ASSUME Init
              PROVE  PiecesHeld
  OBVIOUS
<1>1. /\ DOMAIN lines = {} /\ \A v \in Clients : DOMAIN shown[v] = {}
      /\ step = "idle"
  BY EmptyTranscript DEF Init
<1>2. PiecesApart
  BY <1>1 DEF PiecesApart, InPlace, Placed, Apart
<1>3. \A p : ~IsLive(p, lines, shown, held, step = "rewrite")
  BY <1>1 DEF IsLive
<1>. QED
  BY <1>2, <1>3 DEF PiecesHeld, OneRun, Runs

LEMMA PiecesInvariant == Spec => [](TypesInv /\ PiecesHeld)
<1>1. Init => TypesInv /\ PiecesHeld
  BY TypesInit, PiecesInit
<1>2. (TypesInv /\ PiecesHeld) /\ [Next]_vars => (TypesInv /\ PiecesHeld)'
  BY TypesStep, StepPieces DEF TypesInv
<1>. QED
  BY <1>1, <1>2, PTL DEF Spec

\* However often an overwriting import ran, beside cleans and editors that save what they
\* loaded before, the transcript has each line of its file once.
THEOREM ImportsOverwrite == Spec => []OverwritesOnce
<1>1. TypesInv /\ PiecesHeld => OverwritesOnce
  <2>. SUFFICES ASSUME TypesInv, PiecesHeld, NEW t \in Imports \ Appending
                PROVE  /\ Cardinality({p.no : p \in Imported(t)}) <= Len(TextOf[t])
                       /\ \A p, q \in Imported(t) : p.no = q.no => p = q
    BY DEF OverwritesOnce, HasItsLinesOnce
  <2>. DEFINE Numbers == {p.no : p \in Imported(t)}
  <2>1. lines \in Transcripts /\ DOMAIN lines \subseteq Nat
    BY TranscriptIs DEF TypesInv, Typed, ProjectTypes, Bound
  <2>2. Placed(written, lines) /\ Apart(lines, lines)
    BY DEF PiecesHeld, PiecesApart, InPlace
  <2>3. \A p \in Imported(t) : p.of = t /\ \E n \in DOMAIN lines : p \in lines[n].text
    BY DEF Imported, Pieces
  <2>4. PICK b \in Nat : \A p : IsLive(p, lines, shown, held, step = "rewrite") /\ p.of = t =>
                                   b < p.no /\ p.no <= b + Len(TextOf[t])
    BY DEF PiecesHeld, OneRun, Runs
  <2>5. Len(TextOf[t]) \in Nat
    BY EditsAssumption, LenProperties DEF Imports
  <2>6. ASSUME NEW p \in Imported(t)
        PROVE  p.no \in b + 1 .. b + Len(TextOf[t])
    <3>1. PICK n \in DOMAIN lines : p \in lines[n].text
      BY <2>3
    <3>2. p.no \in Nat
      BY <2>1, <3>1, PieceIs
    <3>3. b < p.no /\ p.no <= b + Len(TextOf[t])
      BY <2>3, <2>4, <3>1 DEF IsLive
    <3>. QED
      BY <2>5, <3>2, <3>3
  <2>7. Cardinality(Numbers) <= Len(TextOf[t])
    <3>. DEFINE Run == b + 1 .. b + Len(TextOf[t])
    <3>1. Numbers \subseteq Run
      BY <2>6
    <3>2. IsFiniteSet(Run) /\ Cardinality(Run) = Len(TextOf[t])
      <4>1. b + 1 \in Int /\ b + Len(TextOf[t]) \in Int
        BY <2>5
      <4>. HIDE DEF Run
      <4>2. /\ IsFiniteSet(b + 1 .. b + Len(TextOf[t]))
            /\ Cardinality(b + 1 .. b + Len(TextOf[t])) =
                 IF b + 1 > b + Len(TextOf[t]) THEN 0 ELSE (b + Len(TextOf[t])) - (b + 1) + 1
        BY <4>1, FS_Interval
      <4>. QED
        BY <2>5, <4>2 DEF Run
    <3>. HIDE DEF Run, Numbers
    <3>. QED
      BY <3>1, <3>2, FS_Subset
  <2>8. ASSUME NEW p \in Imported(t), NEW q \in Imported(t), p.no = q.no
        PROVE  p = q
    <3>1. PICK n \in DOMAIN lines : p \in lines[n].text
      BY <2>3
    <3>2. PICK m \in DOMAIN lines : q \in lines[m].text
      BY <2>3
    <3>3. p.no \in Nat /\ n <= p.no /\ m <= p.no
      BY <2>1, <2>2, <2>8, <3>1, <3>2, PieceIs DEF Placed
    <3>4. ~(n < m) /\ ~(m < n)
      BY <2>1, <2>2, <2>8, <3>1, <3>2, <3>3 DEF Apart
    <3>5. n = m
      BY <2>1, <3>4
    <3>. QED
      BY <2>2, <2>8, <3>1, <3>2, <3>5 DEF Placed, Single
  <2>. QED
    BY <2>7, <2>8
<1>. QED
  BY <1>1, PiecesInvariant, PTL
=============================================================================

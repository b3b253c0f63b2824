----------------------- MODULE SupervisedProcessProofs -----------------------
(***************************************************************************)
(* Theorems about SupervisedProcess, for every set of streams, every size  *)
(* of the chunks and of the memory, and with or without failures of the    *)
(* spill file.                                                             *)
(***************************************************************************)
EXTENDS SupervisedProcessProps, FiniteSetTheorems, TLAPS

Types ==
  /\ child \in [at : {"none", "running", "exited", "reaped"}, code : {-1, 0, 1}, killed : BOOLEAN]
  /\ written \in [Stream -> 0 .. MaxOutput]
  /\ taken \in [Stream -> Nat]
  /\ pipes \in BOOLEAN
  /\ reader \in [Stream -> {Reading, Ended} \cup {Holding(n) : n \in 1 .. ChunkUnits}]
  /\ ctx \in {"open", "deadline", "canceled"}
  /\ waiter \in {"waiting", "sent"}
  /\ supervisor \in {"start", "select", "grace", "await", "drain", "done", "refused"}
  /\ next \in Nat
  /\ memory \in Seq(Chunk)
  /\ spill \in Seq(Chunk \cup {Broken})
  /\ spilled \in BOOLEAN /\ failed \in BOOLEAN
  /\ outcome \in [code : {-1, 0, 1}, timedOut : BOOLEAN, canceled : BOOLEAN,
                  truncated : BOOLEAN, spilled : BOOLEAN]
  /\ client \in Seq(Nat)

\* What a reader holds is the end of what it took, which was written.
Taking ==
  \A s \in Stream : taken[s] <= written[s] /\ reader[s].units <= taken[s]

\* Chunks are in memory or in the file, and in memory they fit.
Storing ==
  /\ Units(memory) <= MemoryUnits
  /\ spilled => memory = <<>>
  /\ ~spilled => spill = <<>>

\* The chunks among the lines are in the order of their cursors, and within a
\* stream as they were read.
InOrder(lines) ==
  \A i, j \in 1 .. Len(lines) :
    j < i /\ lines[i] # Broken /\ lines[j] # Broken =>
      /\ lines[j].cursor < lines[i].cursor
      /\ lines[j].stream = lines[i].stream => lines[j].from + lines[j].units <= lines[i].from

\* What a chunk holds was taken before what its reader holds now.
Given(c) == c.cursor <= next /\ c.from + c.units <= taken[c.stream] - reader[c.stream].units

\* What is broken ends the file.
Keeping ==
  /\ \A i \in 1 .. Len(Kept) : Kept[i] = Broken => i = Len(Kept)
  /\ InOrder(Kept)
  /\ \A i \in 1 .. Len(Kept) : Kept[i] # Broken => Given(Kept[i])

\* A client has read every kept chunk up to where it is.
Following ==
  /\ \A i \in 1 .. Len(client) : client[i] <= next
  /\ \A i, j \in 1 .. Len(client) : i < j => client[i] < client[j]
  /\ \A i \in 1 .. Len(Kept) : Kept[i] # Broken /\ Kept[i].cursor <= Seen =>
       \E k \in 1 .. Len(client) : client[k] = Kept[i].cursor

\* Without a failure every chunk is where its cursor says.
NothingLost ==
  ~failed =>
    /\ Len(Kept) = next
    /\ \A i \in 1 .. Len(Kept) : Kept[i].cursor = i
    /\ \A i \in 1 .. Len(client) : client[i] = i

\* Nobody is left who could add to the output once the outcome is known.
Final ==
  supervisor = "done" => ReadersDone /\ outcome.spilled = spilled

Inv == Types /\ Taking /\ Storing /\ Keeping /\ Following /\ NothingLost /\ Final

-----------------------------------------------------------------------------
(* Induction and folds.                                                    *)

\* Induction up to n, with a set for the predicate.
LEMMA UpTo ==
  ASSUME NEW n \in Nat, NEW good, 0 \in good, \A k \in 1 .. n : k - 1 \in good => k \in good
  PROVE  \A k \in 0 .. n : k \in good
<1> DEFINE bad == {k \in 0 .. n : k \notin good}
<1> SUFFICES ASSUME bad # {} PROVE FALSE
  OBVIOUS
<1>1. bad \subseteq Nat
  OBVIOUS
<1>2. PICK k \in bad : \A i \in bad : <<i, k>> \notin OpToRel(<, Nat)
  <2> HIDE DEF bad
  <2> QED
    BY <1>1, NatLessThanWellFounded, WFMin
<1>3. k # 0 /\ k \in 1 .. n
  OBVIOUS
<1>4. <<k - 1, k>> \in OpToRel(<, Nat)
  BY <1>3 DEF OpToRel
<1>5. k - 1 \in 0 .. n /\ k - 1 \notin bad
  <2>1. k - 1 \in 0 .. n
    BY <1>3
  <2> HIDE DEF bad
  <2> QED
    BY <1>2, <1>4, <2>1, Zenon
<1> QED
  BY <1>3, <1>5

LEMMA MaxIsIn ==
  ASSUME NEW n \in Nat, NEW s \in SUBSET (1 .. n), s # {}
  PROVE  Max(s) \in s /\ \A x \in s : x <= Max(s)
<1> DEFINE good == {k \in 0 .. n : \A t \in SUBSET (1 .. k) : t # {} => \E x \in t : \A y \in t : x >= y}
<1>1. \A k \in 0 .. n : k \in good
  <2>1. 0 \in good
    <3>1. \A t \in SUBSET (1 .. 0) : t = {}
      OBVIOUS
    <3>2. 0 \in 0 .. n
      OBVIOUS
    <3> QED
      BY <3>1, <3>2, Zenon
  <2>2. ASSUME NEW k \in 1 .. n, k - 1 \in good
        PROVE  k \in good
    <3> SUFFICES ASSUME NEW t \in SUBSET (1 .. k), t # {}
                 PROVE  \E x \in t : \A y \in t : x >= y
      OBVIOUS
    <3>1. CASE k \in t
      BY <3>1
    <3>2. CASE k \notin t
      <4>1. t \in SUBSET (1 .. k - 1)
        BY <3>2
      <4> QED
        BY <2>2, <4>1
    <3> QED
      BY <3>1, <3>2
  <2> HIDE DEF good
  <2> QED
    BY <2>1, <2>2, UpTo
<1>2. \E x \in s : \A y \in s : x >= y
  BY <1>1
<1>3. Max(s) \in s /\ \A y \in s : Max(s) >= y
  BY <1>2 DEF Max
<1> QED
  BY <1>3

LEMMA MaxOfPrefix ==
  ASSUME NEW k \in Nat \ {0}
  PROVE  Max(1 .. k) = k /\ (1 .. k) \ {Max(1 .. k)} = 1 .. k - 1
<1>1. Max(1 .. k) \in 1 .. k /\ \A x \in 1 .. k : x <= Max(1 .. k)
  <2>1. k \in Nat /\ (1 .. k) \in SUBSET (1 .. k) /\ 1 .. k # {}
    OBVIOUS
  <2> QED
    BY <2>1, MaxIsIn
<1>2. Max(1 .. k) = k
  BY <1>1
<1> QED
  BY <1>2

\* What folds compute, over each set of positions; step takes the position.
IsFold(F, n, X, base, step) ==
  /\ F \in [SUBSET (1 .. n) -> X]
  /\ \A s \in SUBSET (1 .. n) :
       F[s] = IF s = {} THEN base ELSE step[Max(s)][F[s \ {Max(s)}]]

\* There is one.
LEMMA FoldExists ==
  ASSUME NEW n \in Nat, NEW X, NEW base \in X, NEW step \in [1 .. n -> [X -> X]]
  PROVE  \E F : IsFold(F, n, X, base, step)
<1> DEFINE folds(F, k) ==
             \A s \in SUBSET (1 .. k) : F[s] = IF s = {} THEN base ELSE step[Max(s)][F[s \ {Max(s)}]]
           good == {k \in 0 .. n : \E F \in [SUBSET (1 .. k) -> X] : folds(F, k)}
<1>1. 0 \in good
  <2> DEFINE F == [s \in SUBSET (1 .. 0) |-> base]
  <2>1. \A s \in SUBSET (1 .. 0) : s = {}
    OBVIOUS
  <2>2. F \in [SUBSET (1 .. 0) -> X] /\ folds(F, 0)
    BY <2>1, Zenon
  <2>3. 0 \in 0 .. n
    OBVIOUS
  <2> HIDE DEF F, folds
  <2> QED
    BY <2>2, <2>3, Zenon
<1>2. ASSUME NEW k \in 1 .. n, k - 1 \in good
      PROVE  k \in good
  <2>1. PICK G \in [SUBSET (1 .. k - 1) -> X] : folds(G, k - 1)
    BY <1>2
  <2> DEFINE F == [s \in SUBSET (1 .. k) |-> IF k \in s THEN step[k][G[s \ {k}]] ELSE G[s]]
  <2>2. \A s \in SUBSET (1 .. k) : s \ {k} \in SUBSET (1 .. k - 1)
    OBVIOUS
  <2>3. \A s \in SUBSET (1 .. k) : k \notin s => s \in SUBSET (1 .. k - 1)
    OBVIOUS
  <2>4. F \in [SUBSET (1 .. k) -> X]
    <3> SUFFICES ASSUME NEW s \in SUBSET (1 .. k)
                 PROVE  (IF k \in s THEN step[k][G[s \ {k}]] ELSE G[s]) \in X
      OBVIOUS
    <3>1. k \in s => G[s \ {k}] \in X
      BY <2>2
    <3> QED
      BY <2>3, <3>1
  <2>5. ASSUME NEW s \in SUBSET (1 .. k), s # {}
        PROVE  F[s] = step[Max(s)][F[s \ {Max(s)}]]
    <3>1. Max(s) \in s /\ \A x \in s : x <= Max(s)
      <4>1. k \in Nat
        OBVIOUS
      <4> HIDE DEF F
      <4> QED
        BY <2>5, <4>1, MaxIsIn
    <3>2. CASE k \in s
      <4>1. Max(s) = k
        <5>1. Max(s) \in 1 .. k /\ k <= Max(s)
          BY <3>1, <3>2, Zenon
        <5> QED
          BY <5>1
      <4>2. F[s] = step[k][G[s \ {k}]]
        BY <3>2
      <4>3. s \ {k} \in SUBSET (1 .. k) /\ k \notin s \ {k}
        OBVIOUS
      <4>4. F[s \ {k}] = G[s \ {k}]
        BY <4>3
      <4> QED
        BY <4>1, <4>2, <4>4
    <3>3. CASE k \notin s
      <4>1. s \in SUBSET (1 .. k - 1)
        BY <2>3, <3>3
      <4>2. F[s] = G[s] /\ F[s \ {Max(s)}] = G[s \ {Max(s)}]
        <5>1. s \ {Max(s)} \in SUBSET (1 .. k) /\ k \notin s \ {Max(s)}
          BY <3>3
        <5> QED
          BY <3>3, <5>1
      <4>3. G[s] = step[Max(s)][G[s \ {Max(s)}]]
        BY <2>1, <2>5, <4>1
      <4> QED
        BY <4>2, <4>3
    <3> QED
      BY <3>2, <3>3
  <2>6. F[{}] = base
    BY <2>1
  <2>7. folds(F, k)
    <3> HIDE DEF F
    <3> QED
      BY <2>5, <2>6
  <2> QED
    <3> HIDE DEF F, folds
    <3> QED
      BY <2>4, <2>7
<1>3. n \in good
  <2> HIDE DEF good
  <2>1. \A k \in 0 .. n : k \in good
    BY <1>1, <1>2, UpTo
  <2> QED
    BY <2>1
<1>4. PICK F \in [SUBSET (1 .. n) -> X] : folds(F, n)
  BY <1>3
<1> QED
  BY <1>4 DEF IsFold

\* The fold over the first positions, one after the other.
Walks(f, F, n, X, base, step) ==
  /\ f \in [0 .. n -> X]
  /\ f[0] = base /\ f[n] = F[1 .. n]
  /\ \A k \in 1 .. n : f[k] = step[k][f[k - 1]]

LEMMA FoldWalks ==
  ASSUME NEW n \in Nat, NEW X, NEW base, NEW step, NEW F, IsFold(F, n, X, base, step)
  PROVE  \E f : Walks(f, F, n, X, base, step)
<1> DEFINE f == [k \in 0 .. n |-> F[1 .. k]]
<1>1. ASSUME NEW k \in 0 .. n
      PROVE  (1 .. k) \in SUBSET (1 .. n)
  OBVIOUS
<1>2. f \in [0 .. n -> X]
  BY <1>1 DEF IsFold
<1>3. f[0] = base
  <2>1. 1 .. 0 = {} /\ 0 \in 0 .. n
    OBVIOUS
  <2>2. F[{}] = base
    BY DEF IsFold
  <2> QED
    BY <2>1, <2>2
<1>4. ASSUME NEW k \in 1 .. n
      PROVE  f[k] = step[k][f[k - 1]]
  <2>1. Max(1 .. k) = k /\ (1 .. k) \ {Max(1 .. k)} = 1 .. k - 1
    BY MaxOfPrefix
  <2>2. k \in 0 .. n /\ k - 1 \in 0 .. n /\ k \in 1 .. k
    OBVIOUS
  <2>3. F[1 .. k] = step[Max(1 .. k)][F[(1 .. k) \ {Max(1 .. k)}]]
    BY <1>1, <2>2 DEF IsFold
  <2> QED
    BY <2>1, <2>2, <2>3
<1> QED
  <2> HIDE DEF f
  <2>1. f[n] = F[1 .. n]
    BY DEF f
  <2> QED
    BY <1>2, <1>3, <1>4, <2>1 DEF Walks

\* Two functions that go on alike are alike.
LEMMA OneFold ==
  ASSUME NEW n \in Nat, NEW F, NEW G, F[{}] = G[{}],
         \A s \in SUBSET (1 .. n) :
           s # {} /\ F[s \ {Max(s)}] = G[s \ {Max(s)}] => F[s] = G[s]
  PROVE  F[1 .. n] = G[1 .. n]
<1> DEFINE good == {k \in 0 .. n : F[1 .. k] = G[1 .. k]}
<1>1. 0 \in good
  <2>1. 1 .. 0 = {} /\ 0 \in 0 .. n
    OBVIOUS
  <2> QED
    BY <2>1
<1>2. ASSUME NEW k \in 1 .. n, k - 1 \in good
      PROVE  k \in good
  <2>1. Max(1 .. k) = k /\ (1 .. k) \ {Max(1 .. k)} = 1 .. k - 1
    BY MaxOfPrefix
  <2>2. (1 .. k) \in SUBSET (1 .. n) /\ 1 .. k # {} /\ k \in 0 .. n
    <3>1. k \in 1 .. k /\ \A i \in 1 .. k : i \in 1 .. n
      OBVIOUS
    <3> QED
      BY <3>1
  <2>3. F[1 .. k - 1] = G[1 .. k - 1]
    BY <1>2
  <2> QED
    BY <2>1, <2>2, <2>3
<1>3. n \in 0 .. n
  OBVIOUS
<1> HIDE DEF good
<1>4. n \in good
  BY <1>1, <1>2, <1>3, UpTo
<1> QED
  BY <1>4 DEF good

\* The units of a list of chunks, added one by one.
LEMMA UnitsFold ==
  ASSUME NEW cs \in Seq(Chunk)
  PROVE  \E f \in [0 .. Len(cs) -> Nat] :
           /\ f[0] = 0
           /\ \A k \in 1 .. Len(cs) : f[k] = f[k - 1] + cs[k].units
           /\ Units(cs) = f[Len(cs)]
<1> DEFINE n == Len(cs)
           step == [k \in 1 .. n |-> [x \in Nat |-> x + cs[k].units]]
           body(G) == [s \in SUBSET (DOMAIN cs) |->
                         IF s = {} THEN 0 ELSE G[s \ {Max(s)}] + cs[Max(s)].units]
           iter == CHOOSE G : G = body(G)
<1>1. Units(cs) = iter[DOMAIN cs]
  BY DEF Units, FoldLeft, MapThenFoldSet
<1>2. n \in Nat /\ DOMAIN cs = 1 .. n
  OBVIOUS
<1>3. 0 \in Nat /\ \A x \in Nat, k \in 1 .. n : x + cs[k].units \in Nat
  <2>1. \A c \in Chunk : c.units \in Nat
    BY ProcessAssumption DEF Chunk
  <2>2. \A k \in 1 .. n : cs[k] \in Chunk
    OBVIOUS
  <2> QED
    BY <2>1, <2>2
<1>4. step \in [1 .. n -> [Nat -> Nat]]
  BY <1>3
<1>5. PICK F : IsFold(F, n, Nat, 0, step)
  <2> HIDE DEF step, n
  <2> QED
    BY <1>2, <1>3, <1>4, FoldExists
<1>6. \A s \in SUBSET (DOMAIN cs) :
        F[s] = IF s = {} THEN 0 ELSE F[s \ {Max(s)}] + cs[Max(s)].units
  <2> SUFFICES ASSUME NEW s \in SUBSET (1 .. n), s # {}
               PROVE  F[s] = F[s \ {Max(s)}] + cs[Max(s)].units
    BY <1>2, <1>5 DEF IsFold
  <2>1. Max(s) \in 1 .. n
    <3> HIDE DEF n
    <3> QED
      BY <1>2, MaxIsIn
  <2>2. F[s \ {Max(s)}] \in Nat
    BY <1>5 DEF IsFold
  <2> QED
    BY <1>5, <2>1, <2>2 DEF IsFold
<1>7. iter = body(iter)
  <2>1. F = [s \in SUBSET (DOMAIN cs) |-> F[s]]
    BY <1>2, <1>5 DEF IsFold
  <2>2. F = body(F)
    BY <1>6, <2>1
  <2> HIDE DEF body
  <2> QED
    BY <2>2
<1> HIDE DEF iter
<1>8. \A s \in SUBSET (1 .. n) :
        iter[s] = IF s = {} THEN 0 ELSE iter[s \ {Max(s)}] + cs[Max(s)].units
  BY <1>2, <1>7, Zenon
<1>9. iter[1 .. n] = F[1 .. n]
  <2>1. F[{}] = iter[{}]
    BY <1>2, <1>6, <1>8
  <2>2. \A s \in SUBSET (1 .. n) :
          s # {} /\ F[s \ {Max(s)}] = iter[s \ {Max(s)}] => F[s] = iter[s]
    BY <1>2, <1>6, <1>8
  <2> HIDE DEF n
  <2> QED
    BY <1>2, <2>1, <2>2, OneFold
<1>10. PICK f : Walks(f, F, n, Nat, 0, step)
  <2> HIDE DEF step, n
  <2> QED
    BY <1>2, <1>5, FoldWalks
<1>11. \A k \in 1 .. n : f[k] = f[k - 1] + cs[k].units
  <2> SUFFICES ASSUME NEW k \in 1 .. n PROVE f[k] = f[k - 1] + cs[k].units
    OBVIOUS
  <2>1. f[k - 1] \in Nat
    BY <1>10 DEF Walks
  <2> QED
    BY <1>10, <2>1 DEF Walks
<1> QED
  BY <1>1, <1>2, <1>9, <1>10, <1>11 DEF Walks

\* What lies after a cursor, found line by line.
LEMMA AfterFold ==
  ASSUME NEW X, NEW lines \in Seq(X), NEW cursor
  PROVE  \E f \in [0 .. Len(lines) -> Seq(X)] :
           /\ f[0] = <<>>
           /\ \A k \in 1 .. Len(lines) : f[k] = (IF lines[k].cursor > cursor THEN Append(f[k - 1], lines[k]) ELSE f[k - 1])
           /\ After(lines, cursor) = f[Len(lines)]
<1> DEFINE n == Len(lines)
           step == [k \in 1 .. n |-> [x \in Seq(X) |-> (IF lines[k].cursor > cursor THEN Append(x, lines[k]) ELSE x)]]
           body(G) == [s \in SUBSET (DOMAIN lines) |->
                         IF s = {} THEN <<>> ELSE (IF lines[Max(s)].cursor > cursor THEN Append(G[s \ {Max(s)}], lines[Max(s)]) ELSE G[s \ {Max(s)}])]
           iter == CHOOSE G : G = body(G)
<1>1. After(lines, cursor) = iter[DOMAIN lines]
  BY DEF After, FoldLeft, MapThenFoldSet
<1>2. n \in Nat /\ DOMAIN lines = 1 .. n
  OBVIOUS
<1>3. <<>> \in Seq(X) /\ \A x \in Seq(X), k \in 1 .. n : (IF lines[k].cursor > cursor THEN Append(x, lines[k]) ELSE x) \in Seq(X)
  OBVIOUS
<1>4. step \in [1 .. n -> [Seq(X) -> Seq(X)]]
  BY <1>3
<1>5. PICK F : IsFold(F, n, Seq(X), <<>>, step)
  <2> HIDE DEF step, n
  <2> QED
    BY <1>2, <1>3, <1>4, FoldExists
<1>6. \A s \in SUBSET (DOMAIN lines) :
        F[s] = IF s = {} THEN <<>> ELSE (IF lines[Max(s)].cursor > cursor THEN Append(F[s \ {Max(s)}], lines[Max(s)]) ELSE F[s \ {Max(s)}])
  <2> SUFFICES ASSUME NEW s \in SUBSET (1 .. n), s # {}
               PROVE  F[s] = (IF lines[Max(s)].cursor > cursor THEN Append(F[s \ {Max(s)}], lines[Max(s)]) ELSE F[s \ {Max(s)}])
    BY <1>2, <1>5 DEF IsFold
  <2>1. Max(s) \in 1 .. n
    <3> HIDE DEF n
    <3> QED
      BY <1>2, MaxIsIn
  <2>2. F[s \ {Max(s)}] \in Seq(X)
    BY <1>5 DEF IsFold
  <2> QED
    BY <1>5, <2>1, <2>2 DEF IsFold
<1>7. iter = body(iter)
  <2>1. F = [s \in SUBSET (DOMAIN lines) |-> F[s]]
    BY <1>2, <1>5 DEF IsFold
  <2>2. F = body(F)
    BY <1>6, <2>1
  <2> HIDE DEF body
  <2> QED
    BY <2>2
<1> HIDE DEF iter
<1>8. \A s \in SUBSET (1 .. n) :
        iter[s] = IF s = {} THEN <<>> ELSE (IF lines[Max(s)].cursor > cursor THEN Append(iter[s \ {Max(s)}], lines[Max(s)]) ELSE iter[s \ {Max(s)}])
  BY <1>2, <1>7, Zenon
<1>9. iter[1 .. n] = F[1 .. n]
  <2>1. F[{}] = iter[{}]
    BY <1>2, <1>6, <1>8
  <2>2. \A s \in SUBSET (1 .. n) :
          s # {} /\ F[s \ {Max(s)}] = iter[s \ {Max(s)}] => F[s] = iter[s]
    BY <1>2, <1>6, <1>8
  <2> HIDE DEF n
  <2> QED
    BY <1>2, <2>1, <2>2, OneFold
<1>10. PICK f : Walks(f, F, n, Seq(X), <<>>, step)
  <2> HIDE DEF step, n
  <2> QED
    BY <1>2, <1>5, FoldWalks
<1>11. \A k \in 1 .. n : f[k] = (IF lines[k].cursor > cursor THEN Append(f[k - 1], lines[k]) ELSE f[k - 1])
  <2> SUFFICES ASSUME NEW k \in 1 .. n PROVE f[k] = (IF lines[k].cursor > cursor THEN Append(f[k - 1], lines[k]) ELSE f[k - 1])
    OBVIOUS
  <2>1. f[k - 1] \in Seq(X)
    BY <1>10 DEF Walks
  <2> QED
    BY <1>10, <2>1 DEF Walks
<1> QED
  BY <1>1, <1>2, <1>9, <1>10, <1>11 DEF Walks

\* Lines are written one by one.
LEMMA CompleteFold ==
  ASSUME NEW X, NEW lines \in Seq(X), NEW cs \in Seq(X)
  PROVE  \E f \in [0 .. Len(cs) -> Seq(X)] :
           /\ f[0] = lines
           /\ \A k \in 1 .. Len(cs) : f[k] = Line(f[k - 1], cs[k])
           /\ Complete(lines, cs) = f[Len(cs)]
<1> DEFINE n == Len(cs)
           step == [k \in 1 .. n |-> [x \in Seq(X) |-> Line(x, cs[k])]]
           body(G) == [s \in SUBSET (DOMAIN cs) |->
                         IF s = {} THEN lines ELSE Line(G[s \ {Max(s)}], cs[Max(s)])]
           iter == CHOOSE G : G = body(G)
<1>1. Complete(lines, cs) = iter[DOMAIN cs]
  BY DEF Complete, FoldLeft, MapThenFoldSet
<1>2. n \in Nat /\ DOMAIN cs = 1 .. n
  OBVIOUS
<1>3. lines \in Seq(X) /\ \A x \in Seq(X), k \in 1 .. n : Line(x, cs[k]) \in Seq(X)
  BY DEF Line
<1>4. step \in [1 .. n -> [Seq(X) -> Seq(X)]]
  BY <1>3
<1>5. PICK F : IsFold(F, n, Seq(X), lines, step)
  <2> HIDE DEF step, n
  <2> QED
    BY <1>2, <1>3, <1>4, FoldExists
<1>6. \A s \in SUBSET (DOMAIN cs) :
        F[s] = IF s = {} THEN lines ELSE Line(F[s \ {Max(s)}], cs[Max(s)])
  <2> SUFFICES ASSUME NEW s \in SUBSET (1 .. n), s # {}
               PROVE  F[s] = Line(F[s \ {Max(s)}], cs[Max(s)])
    BY <1>2, <1>5 DEF IsFold
  <2>1. Max(s) \in 1 .. n
    <3> HIDE DEF n
    <3> QED
      BY <1>2, MaxIsIn
  <2>2. F[s \ {Max(s)}] \in Seq(X)
    BY <1>5 DEF IsFold
  <2> QED
    BY <1>5, <2>1, <2>2 DEF IsFold
<1>7. iter = body(iter)
  <2>1. F = [s \in SUBSET (DOMAIN cs) |-> F[s]]
    BY <1>2, <1>5 DEF IsFold
  <2>2. F = body(F)
    BY <1>6, <2>1
  <2> HIDE DEF body
  <2> QED
    BY <2>2
<1> HIDE DEF iter
<1>8. \A s \in SUBSET (1 .. n) :
        iter[s] = IF s = {} THEN lines ELSE Line(iter[s \ {Max(s)}], cs[Max(s)])
  BY <1>2, <1>7, Zenon
<1>9. iter[1 .. n] = F[1 .. n]
  <2>1. F[{}] = iter[{}]
    BY <1>2, <1>6, <1>8
  <2>2. \A s \in SUBSET (1 .. n) :
          s # {} /\ F[s \ {Max(s)}] = iter[s \ {Max(s)}] => F[s] = iter[s]
    BY <1>2, <1>6, <1>8
  <2> HIDE DEF n
  <2> QED
    BY <1>2, <2>1, <2>2, OneFold
<1>10. PICK f : Walks(f, F, n, Seq(X), lines, step)
  <2> HIDE DEF step, n
  <2> QED
    BY <1>2, <1>5, FoldWalks
<1>11. \A k \in 1 .. n : f[k] = Line(f[k - 1], cs[k])
  <2> SUFFICES ASSUME NEW k \in 1 .. n PROVE f[k] = Line(f[k - 1], cs[k])
    OBVIOUS
  <2>1. f[k - 1] \in Seq(X) /\ f[k] = step[k][f[k - 1]]
    <3> HIDE DEF step, n
    <3> QED
      BY <1>2, <1>10 DEF Walks
  <2> QED
    BY <2>1
<1> QED
  BY <1>1, <1>2, <1>9, <1>10, <1>11 DEF Walks

\* Each line may fail.
LEMMA FilesFold ==
  ASSUME NEW X, Broken \in X, NEW lines \in Seq(X), NEW cs \in Seq(X)
  PROVE  \E f \in [0 .. Len(cs) -> (SUBSET Seq(X))] :
           /\ f[0] = {lines}
           /\ \A k \in 1 .. Len(cs) : f[k] = UNION {Lines(file, cs[k]) : file \in f[k - 1]}
           /\ Files(lines, cs) = f[Len(cs)]
<1> DEFINE n == Len(cs)
           step == [k \in 1 .. n |-> [x \in (SUBSET Seq(X)) |-> UNION {Lines(file, cs[k]) : file \in x}]]
           body(G) == [s \in SUBSET (DOMAIN cs) |->
                         IF s = {} THEN {lines} ELSE UNION {Lines(file, cs[Max(s)]) : file \in G[s \ {Max(s)}]}]
           iter == CHOOSE G : G = body(G)
<1>1. Files(lines, cs) = iter[DOMAIN cs]
  BY DEF Files, FoldLeft, MapThenFoldSet
<1>2. n \in Nat /\ DOMAIN cs = 1 .. n
  OBVIOUS
<1>3. {lines} \in (SUBSET Seq(X)) /\ \A x \in (SUBSET Seq(X)), k \in 1 .. n : UNION {Lines(file, cs[k]) : file \in x} \in (SUBSET Seq(X))
  <2>1. \A x \in Seq(X), c \in X : Lines(x, c) \in SUBSET Seq(X)
    <3> SUFFICES ASSUME NEW x \in Seq(X), NEW c \in X PROVE Lines(x, c) \in SUBSET Seq(X)
      OBVIOUS
    <3>1. Line(x, c) \in Seq(X) /\ Line(x, Broken) \in Seq(X)
      BY DEF Line
    <3> QED
      BY <3>1 DEF Lines
  <2>2. \A k \in 1 .. n : cs[k] \in X
    OBVIOUS
  <2> HIDE DEF n
  <2> QED
    BY <2>1, <2>2
<1>4. step \in [1 .. n -> [(SUBSET Seq(X)) -> (SUBSET Seq(X))]]
  BY <1>3
<1>5. PICK F : IsFold(F, n, (SUBSET Seq(X)), {lines}, step)
  <2> HIDE DEF step, n
  <2> QED
    BY <1>2, <1>3, <1>4, FoldExists
<1>6. \A s \in SUBSET (DOMAIN cs) :
        F[s] = IF s = {} THEN {lines} ELSE UNION {Lines(file, cs[Max(s)]) : file \in F[s \ {Max(s)}]}
  <2> SUFFICES ASSUME NEW s \in SUBSET (1 .. n), s # {}
               PROVE  F[s] = UNION {Lines(file, cs[Max(s)]) : file \in F[s \ {Max(s)}]}
    BY <1>2, <1>5 DEF IsFold
  <2>1. Max(s) \in 1 .. n
    <3> HIDE DEF n
    <3> QED
      BY <1>2, MaxIsIn
  <2>2. F[s \ {Max(s)}] \in (SUBSET Seq(X))
    BY <1>5 DEF IsFold
  <2> QED
    BY <1>5, <2>1, <2>2 DEF IsFold
<1>7. iter = body(iter)
  <2>1. F = [s \in SUBSET (DOMAIN cs) |-> F[s]]
    BY <1>2, <1>5 DEF IsFold
  <2>2. F = body(F)
    BY <1>6, <2>1
  <2> HIDE DEF body
  <2> QED
    BY <2>2
<1> HIDE DEF iter
<1>8. \A s \in SUBSET (1 .. n) :
        iter[s] = IF s = {} THEN {lines} ELSE UNION {Lines(file, cs[Max(s)]) : file \in iter[s \ {Max(s)}]}
  BY <1>2, <1>7, Zenon
<1>9. iter[1 .. n] = F[1 .. n]
  <2>1. F[{}] = iter[{}]
    BY <1>2, <1>6, <1>8
  <2>2. \A s \in SUBSET (1 .. n) :
          s # {} /\ F[s \ {Max(s)}] = iter[s \ {Max(s)}] => F[s] = iter[s]
    BY <1>2, <1>6, <1>8
  <2> HIDE DEF n
  <2> QED
    BY <1>2, <2>1, <2>2, OneFold
<1>10. PICK f : Walks(f, F, n, (SUBSET Seq(X)), {lines}, step)
  <2> HIDE DEF step, n
  <2> QED
    BY <1>2, <1>5, FoldWalks
<1>11. \A k \in 1 .. n : f[k] = UNION {Lines(file, cs[k]) : file \in f[k - 1]}
  <2> SUFFICES ASSUME NEW k \in 1 .. n PROVE f[k] = UNION {Lines(file, cs[k]) : file \in f[k - 1]}
    OBVIOUS
  <2>1. f[k - 1] \in (SUBSET Seq(X))
    BY <1>10 DEF Walks
  <2> QED
    BY <1>10, <2>1 DEF Walks
<1> QED
  BY <1>1, <1>2, <1>9, <1>10, <1>11 DEF Walks

-----------------------------------------------------------------------------
(* What the folds compute.                                                 *)

LEMMA UnitsOfNone == Units(<<>>) = 0
<1>1. <<>> \in Seq(Chunk) /\ Len(<<>>) = 0
  OBVIOUS
<1> QED
  BY <1>1, UnitsFold

LEMMA UnitsOfMore ==
  ASSUME NEW cs \in Seq(Chunk), NEW c \in Chunk
  PROVE  Units(cs) \in Nat /\ Units(Append(cs, c)) = Units(cs) + c.units
<1> DEFINE n == Len(cs)
           more == Append(cs, c)
<1>1. PICK f \in [0 .. n -> Nat] :
        f[0] = 0 /\ Units(cs) = f[n] /\ \A k \in 1 .. n : f[k] = f[k - 1] + cs[k].units
  BY UnitsFold
<1>2. more \in Seq(Chunk) /\ Len(more) = n + 1 /\ n \in Nat
  OBVIOUS
<1>3. (\A k \in 1 .. n : more[k] = cs[k]) /\ more[n + 1] = c
  OBVIOUS
<1> HIDE DEF n, more
<1>4. PICK g \in [0 .. Len(more) -> Nat] :
        /\ g[0] = 0 /\ Units(more) = g[Len(more)]
        /\ \A k \in 1 .. Len(more) : g[k] = g[k - 1] + more[k].units
  BY <1>2, UnitsFold
<1>5. f[n] = g[n]
  <2> DEFINE good == {k \in 0 .. n : f[k] = g[k]}
  <2>1. 0 \in good
    BY <1>1, <1>2, <1>4
  <2>2. ASSUME NEW k \in 1 .. n, k - 1 \in good
        PROVE  k \in good
    <3>1. k \in 1 .. n + 1 /\ k \in 0 .. n
      BY <1>2
    <3>2. f[k] = f[k - 1] + cs[k].units /\ g[k] = g[k - 1] + more[k].units
      BY <1>1, <1>2, <1>4, <3>1
    <3>3. f[k - 1] = g[k - 1] /\ more[k] = cs[k]
      BY <1>3, <2>2
    <3> QED
      BY <3>1, <3>2, <3>3
  <2> HIDE DEF good
  <2>3. \A k \in 0 .. n : k \in good
    BY <1>2, <2>1, <2>2, UpTo
  <2>4. n \in good
    BY <1>2, <2>3
  <2> QED
    BY <2>4 DEF good
<1>6. n + 1 \in 1 .. n + 1 /\ (n + 1) - 1 = n /\ n \in 0 .. n
  BY <1>2
<1>7. g[n + 1] = g[n] + c.units
  BY <1>2, <1>3, <1>4, <1>6
<1>8. Units(more) = g[n + 1] /\ f[n] \in Nat
  BY <1>2, <1>4, <1>6
<1> QED
  BY <1>1, <1>5, <1>7, <1>8 DEF more

\* The result holds what lies after the cursor among the first k lines.
Selects(pos, result, lines, k, cursor) ==
  /\ pos \in [1 .. Len(result) -> 1 .. k]
  /\ \A i, j \in 1 .. Len(result) : i < j => pos[i] < pos[j]
  /\ \A i \in 1 .. Len(result) : result[i] = lines[pos[i]]
  /\ \A p \in 1 .. k : lines[p].cursor > cursor <=> \E i \in 1 .. Len(result) : pos[i] = p

LEMMA AfterSelects ==
  ASSUME NEW X, NEW lines \in Seq(X), NEW cursor
  PROVE  /\ After(lines, cursor) \in Seq(X)
         /\ \E pos : Selects(pos, After(lines, cursor), lines, Len(lines), cursor)
<1> DEFINE n == Len(lines)
<1>1. PICK f \in [0 .. n -> Seq(X)] :
        /\ f[0] = <<>> /\ After(lines, cursor) = f[n]
        /\ \A k \in 1 .. n :
             f[k] = IF lines[k].cursor > cursor THEN Append(f[k - 1], lines[k]) ELSE f[k - 1]
  BY AfterFold
<1> DEFINE good == {k \in 0 .. n : \E pos : Selects(pos, f[k], lines, k, cursor)}
<1>2. n \in Nat /\ \A k \in 1 .. n : lines[k] \in X
  OBVIOUS
<1> HIDE DEF n
<1>3. 0 \in good
  <2>1. Selects(<<>>, <<>>, lines, 0, cursor)
    BY DEF Selects
  <2> QED
    BY <1>1, <1>2, <2>1
<1>4. ASSUME NEW k \in 1 .. n, k - 1 \in good
      PROVE  k \in good
  <2>1. k \in 0 .. n /\ k - 1 \in 0 .. n /\ f[k - 1] \in Seq(X)
    BY <1>2
  <2>2. PICK pos : Selects(pos, f[k - 1], lines, k - 1, cursor)
    BY <1>4
  <2>3. CASE ~(lines[k].cursor > cursor)
    <3>1. f[k] = f[k - 1]
      BY <1>1, <2>3
    <3>2. Selects(pos, f[k - 1], lines, k, cursor)
      <4>1. pos \in [1 .. Len(f[k - 1]) -> 1 .. k]
        BY <2>1, <2>2 DEF Selects
      <4>2. \A i \in 1 .. Len(f[k - 1]) : pos[i] # k
        BY <2>1, <2>2 DEF Selects
      <4>3. ASSUME NEW q \in 1 .. k
            PROVE  lines[q].cursor > cursor <=> \E i \in 1 .. Len(f[k - 1]) : pos[i] = q
        <5>1. CASE q = k
          BY <2>3, <4>2, <5>1
        <5>2. CASE q \in 1 .. k - 1
          BY <2>2, <5>2 DEF Selects
        <5> QED
          BY <5>1, <5>2
      <4> QED
        BY <2>2, <4>1, <4>3 DEF Selects
    <3> QED
      BY <2>1, <3>1, <3>2
  <2>4. CASE lines[k].cursor > cursor
    <3> DEFINE m == Len(f[k - 1])
               more == [i \in 1 .. m + 1 |-> IF i <= m THEN pos[i] ELSE k]
    <3>1. f[k] = Append(f[k - 1], lines[k])
      BY <1>1, <2>4
    <3>2. /\ m \in Nat /\ Len(f[k]) = m + 1 /\ f[k][m + 1] = lines[k]
          /\ \A i \in 1 .. m : f[k][i] = f[k - 1][i]
      BY <2>1, <3>1
    <3>3. pos \in [1 .. m -> 1 .. k - 1]
      BY <2>2 DEF Selects
    <3> HIDE DEF m
    <3>4. more \in [1 .. m + 1 -> 1 .. k]
      BY <3>2, <3>3
    <3>5. \A i, j \in 1 .. m + 1 : i < j => more[i] < more[j]
      <4>1. \A i, j \in 1 .. m : i < j => pos[i] < pos[j]
        BY <2>2 DEF Selects, m
      <4> QED
        BY <3>2, <3>3, <4>1
    <3>6. \A i \in 1 .. m + 1 : f[k][i] = lines[more[i]]
      <4>1. \A i \in 1 .. m : f[k - 1][i] = lines[pos[i]]
        BY <2>2 DEF Selects, m
      <4> QED
        BY <3>2, <4>1
    <3>7. \A p \in 1 .. k : lines[p].cursor > cursor <=> \E i \in 1 .. m + 1 : more[i] = p
      <4>1. \A p \in 1 .. k - 1 : lines[p].cursor > cursor <=> \E i \in 1 .. m : pos[i] = p
        BY <2>2 DEF Selects, m
      <4>2. more[m + 1] = k /\ \A i \in 1 .. m : more[i] = pos[i]
        BY <3>2
      <4> HIDE DEF more
      <4>3. ASSUME NEW p \in 1 .. k - 1
            PROVE  lines[p].cursor > cursor <=> \E i \in 1 .. m + 1 : more[i] = p
        <5>1. lines[p].cursor > cursor <=> \E i \in 1 .. m : pos[i] = p
          BY <4>1
        <5>2. \A i \in 1 .. m + 1 : more[i] = p => i \in 1 .. m /\ pos[i] = p
          BY <3>2, <4>2
        <5>3. \A i \in 1 .. m : i \in 1 .. m + 1 /\ more[i] = pos[i]
          BY <3>2, <4>2
        <5> QED
          BY <5>1, <5>2, <5>3, Zenon
      <4>4. lines[k].cursor > cursor <=> \E i \in 1 .. m + 1 : more[i] = k
        BY <2>4, <3>2, <4>2
      <4> QED
        BY <4>3, <4>4
    <3> HIDE DEF more
    <3>8. Selects(more, f[k], lines, k, cursor)
      BY <3>2, <3>4, <3>5, <3>6, <3>7 DEF Selects
    <3> QED
      BY <2>1, <3>8
  <2> QED
    BY <2>3, <2>4
<1>5. n \in good
  <2> HIDE DEF good
  <2>1. \A k \in 0 .. n : k \in good
    BY <1>2, <1>3, <1>4, UpTo
  <2> QED
    BY <1>2, <2>1
<1> QED
  BY <1>1, <1>2, <1>5 DEF n

\* A file holds some of n lines in their order, the last one perhaps broken.
Thins(pos, file, lines, n) ==
  /\ pos \in [1 .. Len(file) -> 1 .. n]
  /\ \A i, j \in 1 .. Len(file) : i < j => pos[i] < pos[j]
  /\ \A i \in 1 .. Len(file) : file[i] \in {lines[pos[i]], Broken}
  /\ \A i \in 1 .. Len(file) : file[i] = Broken => i = Len(file)

LEMMA LineThins ==
  ASSUME NEW X, Broken \in X, NEW lines, NEW file \in Seq(X), NEW n \in Nat,
         NEW pos, Thins(pos, file, lines, n), lines[n + 1] \in X,
         NEW g \in Lines(file, lines[n + 1])
  PROVE  g \in Seq(X) /\ \E p : Thins(p, g, lines, n + 1)
<1>1. CASE g = file
  <2>1. Thins(pos, g, lines, n + 1)
    BY <1>1 DEF Thins
  <2> QED
    BY <1>1, <2>1
<1>2. ASSUME NEW x \in {lines[n + 1], Broken}, g = Append(file, x),
             ~(file # <<>> /\ Last(file) = Broken)
      PROVE  g \in Seq(X) /\ \E p : Thins(p, g, lines, n + 1)
  <2> DEFINE m == Len(file)
             p == [i \in 1 .. m + 1 |-> IF i <= m THEN pos[i] ELSE n + 1]
  <2>1. /\ m \in Nat /\ g \in Seq(X) /\ Len(g) = m + 1 /\ g[m + 1] = x
        /\ \A i \in 1 .. m : g[i] = file[i]
    BY <1>2
  <2>2. \A i \in 1 .. m : file[i] # Broken
    <3> SUFFICES ASSUME NEW i \in 1 .. m, file[i] = Broken PROVE FALSE
      OBVIOUS
    <3>1. i = Len(file) /\ file # <<>>
      BY DEF Thins
    <3> QED
      BY <1>2, <3>1 DEF Last
  <2>3. /\ pos \in [1 .. m -> 1 .. n]
        /\ \A i, j \in 1 .. m : i < j => pos[i] < pos[j]
        /\ \A i \in 1 .. m : file[i] \in {lines[pos[i]], Broken}
    BY DEF Thins
  <2> HIDE DEF m
  <2>4. p \in [1 .. m + 1 -> 1 .. n + 1]
    BY <2>1, <2>3
  <2>5. \A i, j \in 1 .. m + 1 : i < j => p[i] < p[j]
    BY <2>1, <2>3
  <2>6. \A i \in 1 .. m + 1 : g[i] \in {lines[p[i]], Broken}
    BY <1>2, <2>1, <2>3
  <2>7. \A i \in 1 .. m + 1 : g[i] = Broken => i = m + 1
    BY <2>1, <2>2
  <2> HIDE DEF p
  <2>8. Thins(p, g, lines, n + 1)
    BY <2>1, <2>4, <2>5, <2>6, <2>7 DEF Thins
  <2> QED
    BY <2>1, <2>8
<1>3. \/ g = file
      \/ /\ ~(file # <<>> /\ Last(file) = Broken)
         /\ \E x \in {lines[n + 1], Broken} : g = Append(file, x)
  BY DEF Lines, Line
<1> QED
  BY <1>1, <1>2, <1>3

\* Whatever fails, the file is a thinning of what was to be written.
LEMMA FilesThin ==
  ASSUME NEW X, Broken \in X, NEW lines \in Seq(X), NEW cs \in Seq(X),
         \A i \in 1 .. Len(lines) : lines[i] = Broken => i = Len(lines),
         NEW file \in Files(lines, cs)
  PROVE  file \in Seq(X) /\ \E pos : Thins(pos, file, lines \o cs, Len(lines \o cs))
<1> DEFINE n == Len(cs)
           m == Len(lines)
           all == lines \o cs
<1>1. PICK F \in [0 .. n -> SUBSET Seq(X)] :
        /\ F[0] = {lines} /\ Files(lines, cs) = F[n]
        /\ \A k \in 1 .. n : F[k] = UNION {Lines(g, cs[k]) : g \in F[k - 1]}
  BY FilesFold
<1> DEFINE good == {k \in 0 .. n : \A g \in F[k] : \E pos : Thins(pos, g, all, m + k)}
<1>2. /\ n \in Nat /\ m \in Nat /\ Len(all) = m + n /\ all \in Seq(X)
      /\ \A i \in 1 .. m : all[i] = lines[i]
      /\ \A k \in 1 .. n : all[m + k] = cs[k] /\ cs[k] \in X
  OBVIOUS
<1>3. 0 \in good
  <2> DEFINE pos == [i \in 1 .. m |-> i]
  <2>1. Thins(pos, lines, all, m + 0)
    BY <1>2 DEF Thins
  <2> HIDE DEF pos
  <2> QED
    BY <1>1, <1>2, <2>1
<1> HIDE DEF all, n, m
<1>4. ASSUME NEW k \in 1 .. n, k - 1 \in good
      PROVE  k \in good
  <2> SUFFICES ASSUME NEW h \in F[k] PROVE \E pos : Thins(pos, h, all, m + k)
    BY <1>2
  <2>1. PICK g \in F[k - 1] : h \in Lines(g, cs[k])
    BY <1>1
  <2>2. k - 1 \in 0 .. n /\ g \in Seq(X)
    BY <1>2
  <2>3. PICK pos : Thins(pos, g, all, m + (k - 1))
    BY <1>4
  <2>4. m + (k - 1) \in Nat /\ m + (k - 1) + 1 = m + k /\ all[m + k] = cs[k] /\ cs[k] \in X
    BY <1>2
  <2> QED
    BY <2>1, <2>2, <2>3, <2>4, LineThins
<1>5. n \in good
  <2> HIDE DEF good
  <2>1. \A k \in 0 .. n : k \in good
    BY <1>2, <1>3, <1>4, UpTo
  <2> QED
    BY <1>2, <2>1
<1> QED
  <2>1. n \in 0 .. n /\ file \in F[n]
    BY <1>1, <1>2
  <2>2. file \in Seq(X)
    BY <2>1
  <2>3. \E pos : Thins(pos, file, all, m + n)
    BY <1>5, <2>1
  <2> QED
    BY <1>2, <2>2, <2>3 DEF all

\* Nothing failed.
LEMMA CompleteIsAFile ==
  ASSUME NEW X, Broken \in X, NEW lines \in Seq(X), NEW cs \in Seq(X)
  PROVE  Complete(lines, cs) \in Files(lines, cs)
<1> DEFINE n == Len(cs)
<1>1. PICK F \in [0 .. n -> SUBSET Seq(X)] :
        /\ F[0] = {lines} /\ Files(lines, cs) = F[n]
        /\ \A k \in 1 .. n : F[k] = UNION {Lines(g, cs[k]) : g \in F[k - 1]}
  BY FilesFold
<1>2. PICK f \in [0 .. n -> Seq(X)] :
        /\ f[0] = lines /\ Complete(lines, cs) = f[n]
        /\ \A k \in 1 .. n : f[k] = Line(f[k - 1], cs[k])
  BY CompleteFold
<1> DEFINE good == {k \in 0 .. n : f[k] \in F[k]}
<1>3. n \in Nat
  OBVIOUS
<1> HIDE DEF n
<1>4. 0 \in good
  BY <1>1, <1>2, <1>3
<1>5. ASSUME NEW k \in 1 .. n, k - 1 \in good
      PROVE  k \in good
  <2>1. k \in 0 .. n /\ f[k - 1] \in F[k - 1]
    BY <1>3, <1>5
  <2>2. f[k] \in Lines(f[k - 1], cs[k])
    BY <1>2 DEF Lines
  <2>3. F[k] = UNION {Lines(g, cs[k]) : g \in F[k - 1]}
    BY <1>1
  <2> QED
    BY <2>1, <2>2, <2>3
<1>6. n \in good
  <2> HIDE DEF good
  <2>1. \A k \in 0 .. n : k \in good
    BY <1>3, <1>4, <1>5, UpTo
  <2> QED
    BY <1>3, <2>1
<1> QED
  BY <1>1, <1>2, <1>6

LEMMA AppendAt ==
  ASSUME NEW X, NEW list \in Seq(X), NEW e \in X
  PROVE  /\ Len(Append(list, e)) = Len(list) + 1
         /\ Append(list, e)[Len(list) + 1] = e
         /\ \A i \in 1 .. Len(list) : Append(list, e)[i] = list[i]
OBVIOUS

LEMMA SameSeq ==
  ASSUME NEW X, NEW left \in Seq(X), NEW right \in Seq(X), Len(left) = Len(right),
         \A i \in 1 .. Len(left) : left[i] = right[i]
  PROVE  left = right
OBVIOUS

LEMMA CompleteIsAll ==
  ASSUME NEW X, NEW lines \in Seq(X), NEW cs \in Seq(X),
         \A i \in 1 .. Len(lines) : lines[i] # Broken, \A i \in 1 .. Len(cs) : cs[i] # Broken
  PROVE  Complete(lines, cs) = lines \o cs
<1> DEFINE n == Len(cs)
           m == Len(lines)
           all == lines \o cs
<1>1. PICK f \in [0 .. n -> Seq(X)] :
        /\ f[0] = lines /\ Complete(lines, cs) = f[n]
        /\ \A k \in 1 .. n : f[k] = Line(f[k - 1], cs[k])
  BY CompleteFold
<1> DEFINE good == {k \in 0 .. n : Len(f[k]) = m + k /\ \A i \in 1 .. m + k : f[k][i] = all[i]}
<1>2. /\ n \in Nat /\ m \in Nat /\ Len(all) = m + n /\ all \in Seq(X)
      /\ \A i \in 1 .. m : all[i] = lines[i]
      /\ \A k \in 1 .. n : all[m + k] = cs[k] /\ cs[k] \in X
      /\ \A i \in 1 .. m + n : all[i] # Broken
  OBVIOUS
<1>3. 0 \in good
  BY <1>1, <1>2
<1> HIDE DEF all, n, m
<1>4. ASSUME NEW k \in 1 .. n, k - 1 \in good
      PROVE  k \in good
  <2>1. /\ k - 1 \in 0 .. n /\ f[k - 1] \in Seq(X) /\ Len(f[k - 1]) = m + k - 1
        /\ \A i \in 1 .. m + k - 1 : f[k - 1][i] = all[i]
    BY <1>2, <1>4
  <2>2. ~(f[k - 1] # <<>> /\ Last(f[k - 1]) = Broken)
    <3> SUFFICES ASSUME f[k - 1] # <<>>, Last(f[k - 1]) = Broken PROVE FALSE
      OBVIOUS
    <3> DEFINE q == Len(f[k - 1])
    <3>1. q \in 1 .. m + k - 1 /\ q \in 1 .. m + n
      BY <1>2, <2>1
    <3>2. f[k - 1][q] = Broken
      BY DEF Last
    <3> HIDE DEF q
    <3>3. f[k - 1][q] = all[q]
      BY <2>1, <3>1
    <3>4. all[q] # Broken
      BY <1>2, <3>1
    <3> QED
      BY <3>2, <3>3, <3>4
  <2>3. f[k] = Append(f[k - 1], cs[k])
    BY <1>1, <2>2 DEF Line
  <2>4. Len(f[k]) = m + k /\ f[k][m + k] = cs[k] /\ \A i \in 1 .. m + k - 1 : f[k][i] = f[k - 1][i]
    <3>1. cs[k] \in X
      BY <1>2
    <3>2. /\ Len(f[k]) = (m + k - 1) + 1 /\ f[k][(m + k - 1) + 1] = cs[k]
          /\ \A i \in 1 .. m + k - 1 : f[k][i] = f[k - 1][i]
      BY <2>1, <2>3, <3>1, AppendAt
    <3>3. (m + k - 1) + 1 = m + k
      BY <1>2
    <3> QED
      BY <3>2, <3>3
  <2>5. ASSUME NEW i \in 1 .. m + k
        PROVE  f[k][i] = all[i]
    <3>1. CASE i = m + k
      BY <1>2, <2>4, <3>1
    <3>2. CASE i \in 1 .. m + k - 1
      BY <2>1, <2>4, <3>2
    <3>3. m \in Nat /\ k \in Nat /\ i \in 1 .. m + k
      BY <1>2
    <3>4. i = m + k \/ i \in 1 .. m + k - 1
      BY <3>3
    <3> QED
      BY <3>1, <3>2, <3>4, Zenon
  <2>6. k \in 0 .. n
    BY <1>2
  <2> QED
    BY <2>4, <2>5, <2>6
<1>5. n \in good
  <2> HIDE DEF good
  <2>1. \A k \in 0 .. n : k \in good
    BY <1>2, <1>3, <1>4, UpTo
  <2> QED
    BY <1>2, <2>1
<1>6. f[n] \in Seq(X) /\ Len(f[n]) = Len(all) /\ \A i \in 1 .. Len(all) : f[n][i] = all[i]
  BY <1>2, <1>5
<1>7. f[n] = all
  BY <1>2, <1>6, SameSeq
<1> QED
  BY <1>1, <1>7 DEF all

-----------------------------------------------------------------------------
(* What one append does to the chunks that are kept.                       *)

Item == Chunk \cup {Broken}

LEMMA NoChunkIsBroken == \A c \in Chunk : c # Broken
BY DEF Chunk, Broken

LEMMA ReaderUnits ==
  ASSUME NEW r \in {Reading, Ended} \cup {Holding(n) : n \in 1 .. ChunkUnits}
  PROVE  r.units \in Nat /\ (r.at = "holding" => r.units \in 1 .. ChunkUnits)
BY ProcessAssumption DEF Reading, Ended, Holding

\* The chunk that reader s has for the store.
IsHeld(c, s) ==
  /\ c \in Chunk
  /\ c.cursor = next + 1 /\ c.stream = s
  /\ c.units = reader[s].units /\ c.from = taken[s] - reader[s].units

LEMMA HeldIsChunk ==
  ASSUME Types, Taking, NEW s \in Stream, reader[s].at = "holding", NEW long \in BOOLEAN
  PROVE  IsHeld([cursor |-> next + 1, stream |-> s, from |-> taken[s] - reader[s].units,
                 units |-> reader[s].units, long |-> long], s)
<1>1. reader[s].units \in 1 .. ChunkUnits /\ next \in Nat
  BY ReaderUnits DEF Types
<1>2. taken[s] \in Nat /\ written[s] \in 0 .. MaxOutput /\ taken[s] <= written[s] /\ reader[s].units <= taken[s]
  BY DEF Types, Taking
<1>3. taken[s] - reader[s].units \in 0 .. MaxOutput
  BY <1>1, <1>2, ProcessAssumption
<1>4. next + 1 \in Nat \ {0}
  BY <1>1
<1> QED
  BY <1>1, <1>3, <1>4 DEF IsHeld, Chunk

\* What a step of the store leaves: the kept lines thin out to all of them.
Stores(c) ==
  /\ memory' \in Seq(Chunk) /\ spill' \in Seq(Item)
  /\ spilled' \in BOOLEAN /\ failed' \in BOOLEAN
  /\ Storing'
  /\ \E pos : Thins(pos, Kept', Append(Kept, c), Len(Append(Kept, c)))
  /\ ~failed' => ~failed /\ Kept' = Append(Kept, c)

LEMMA KeptIsSeq == Types => Kept \in Seq(Item)
BY DEF Types, Kept, Item

\* Nothing that is broken precedes the last of the lines.
LEMMA ThinsItself ==
  ASSUME NEW file, NEW x, file \in Seq(Item),
         \A i \in 1 .. Len(file) : file[i] = Broken => i = Len(file)
  PROVE  \E pos : Thins(pos, file, Append(file, x), Len(Append(file, x)))
<1> DEFINE pos == [i \in 1 .. Len(file) |-> i]
<1>1. Len(file) \in Nat /\ Len(Append(file, x)) = Len(file) + 1
  BY DEF Item
<1>2. \A i \in 1 .. Len(file) : Append(file, x)[i] = file[i]
  OBVIOUS
<1>3. Thins(pos, file, Append(file, x), Len(Append(file, x)))
  BY <1>1, <1>2 DEF Thins
<1> QED
  BY <1>3

LEMMA MemoryStores ==
  ASSUME Types, Storing, NEW c \in Chunk, KeepInMemory(c)
  PROVE  Stores(c)
<1>1. /\ ~spilled /\ memory' = Append(memory, c) /\ spill' = spill /\ spilled' = spilled
      /\ failed' = failed /\ Units(memory) + c.units <= MemoryUnits
  BY DEF KeepInMemory, Fits
<1>2. memory \in Seq(Chunk) /\ spill = <<>> /\ spilled \in BOOLEAN /\ failed \in BOOLEAN
  BY <1>1 DEF Types, Storing
<1>3. memory' \in Seq(Chunk) /\ memory' \in Seq(Item) /\ spill' \in Seq(Item)
  BY <1>1, <1>2 DEF Item
<1>4. Units(memory') <= MemoryUnits
  BY <1>1, <1>2, UnitsOfMore
<1>5. Storing'
  BY <1>1, <1>2, <1>4 DEF Storing
<1>6. Kept = memory /\ Kept' = memory'
  BY <1>1, <1>2, <1>3 DEF Kept
<1>7. \A i \in 1 .. Len(memory') : memory'[i] # Broken
  BY <1>3, NoChunkIsBroken
<1>8. \E pos : Thins(pos, memory', memory', Len(memory'))
  <2> DEFINE pos == [i \in 1 .. Len(memory') |-> i]
  <2>1. Thins(pos, memory', memory', Len(memory'))
    BY <1>3, <1>7 DEF Thins
  <2> QED
    BY <2>1
<1> QED
  BY <1>1, <1>2, <1>3, <1>5, <1>6, <1>8 DEF Stores

\* What is written to the file, whether it fails or not.
LEMMA WriteChunksThin ==
  ASSUME NEW lines \in Seq(Item), NEW cs \in Seq(Chunk), WriteChunks(lines, cs), failed \in BOOLEAN,
         \A i \in 1 .. Len(lines) : lines[i] = Broken => i = Len(lines)
  PROVE  /\ spill' \in Seq(Item) /\ failed' \in BOOLEAN
         /\ \E pos : Thins(pos, spill', lines \o cs, Len(lines \o cs))
         /\ ~failed' => ~failed /\ spill' = Complete(lines, cs)
<1>1. Broken \in Item /\ cs \in Seq(Item)
  BY DEF Item
<1>2. Complete(lines, cs) \in Files(lines, cs)
  BY <1>1, CompleteIsAFile
<1>3. spill' \in Files(lines, cs)
  BY <1>2 DEF WriteChunks
<1>4. spill' \in Seq(Item) /\ \E pos : Thins(pos, spill', lines \o cs, Len(lines \o cs))
  BY <1>1, <1>3, FilesThin
<1>5. failed' \in BOOLEAN /\ (~failed' => ~failed /\ spill' = Complete(lines, cs))
  <2>1. \/ spill' = Complete(lines, cs) /\ failed' = failed
        \/ failed' = TRUE
    BY DEF WriteChunks
  <2> QED
    BY <2>1, Zenon
<1> QED
  BY <1>4, <1>5

LEMMA OpenStores ==
  ASSUME Types, Storing, NEW c \in Chunk, OpenSpill(c)
  PROVE  Stores(c)
<1>1. /\ ~spilled /\ spilled' = TRUE /\ memory' = <<>>
      /\ WriteChunks(<<>>, Append(memory, c))
  BY DEF OpenSpill
<1>2. memory \in Seq(Chunk) /\ spill = <<>> /\ failed \in BOOLEAN /\ Append(memory, c) \in Seq(Chunk)
  BY <1>1 DEF Types, Storing
<1>3. <<>> \in Seq(Item) /\ <<>> \o Append(memory, c) = Append(memory, c)
  BY <1>2
<1>4. /\ spill' \in Seq(Item) /\ failed' \in BOOLEAN
      /\ \E pos : Thins(pos, spill', Append(memory, c), Len(Append(memory, c)))
      /\ ~failed' => ~failed /\ spill' = Complete(<<>>, Append(memory, c))
  <2>1. \A i \in 1 .. Len(<<>>) : <<>>[i] = Broken => i = Len(<<>>)
    OBVIOUS
  <2>2. /\ spill' \in Seq(Item) /\ failed' \in BOOLEAN
        /\ \E pos : Thins(pos, spill', <<>> \o Append(memory, c), Len(<<>> \o Append(memory, c)))
        /\ ~failed' => ~failed /\ spill' = Complete(<<>>, Append(memory, c))
    BY <1>1, <1>2, <1>3, <2>1, WriteChunksThin
  <2> QED
    BY <1>3, <2>2
<1>5. Kept = memory /\ Kept' = spill'
  BY <1>1, <1>2, <1>4 DEF Kept, Item
<1>6. Complete(<<>>, Append(memory, c)) = Append(memory, c)
  <2>1. \A i \in 1 .. Len(Append(memory, c)) : Append(memory, c)[i] # Broken
    BY <1>2, NoChunkIsBroken
  <2>2. \A i \in 1 .. Len(<<>>) : <<>>[i] # Broken
    OBVIOUS
  <2>3. <<>> \in Seq(Chunk)
    OBVIOUS
  <2>4. Complete(<<>>, Append(memory, c)) = <<>> \o Append(memory, c)
    BY <1>2, <2>1, <2>2, <2>3, CompleteIsAll
  <2> QED
    BY <1>3, <2>4
<1>7. Storing'
  BY <1>1, UnitsOfNone, ProcessAssumption DEF Storing
<1>8. memory' \in Seq(Chunk) /\ spilled' \in BOOLEAN
  BY <1>1
<1> QED
  BY <1>4, <1>5, <1>6, <1>7, <1>8 DEF Stores

LEMMA SpillStores ==
  ASSUME Types, Storing, Keeping, NothingLost, NEW c \in Chunk, AppendSpill(c)
  PROVE  Stores(c)
<1>1. spilled /\ memory' = memory /\ spilled' = spilled /\ WriteChunks(spill, <<c>>)
  BY DEF AppendSpill
<1>2. spill \in Seq(Item) /\ memory = <<>> /\ failed \in BOOLEAN /\ <<c>> \in Seq(Chunk)
  BY <1>1 DEF Types, Storing, Item
<1>3. Kept = spill /\ spill \o <<c>> = Append(spill, c)
  BY <1>2 DEF Kept
<1>4. \A i \in 1 .. Len(spill) : spill[i] = Broken => i = Len(spill)
  BY <1>3 DEF Keeping
<1>5. /\ spill' \in Seq(Item) /\ failed' \in BOOLEAN
      /\ \E pos : Thins(pos, spill', spill \o <<c>>, Len(spill \o <<c>>))
      /\ ~failed' => ~failed /\ spill' = Complete(spill, <<c>>)
  BY <1>1, <1>2, <1>4, WriteChunksThin
<1>6. Kept' = spill'
  BY <1>1, <1>2, <1>5 DEF Kept, Item
<1>7. ~failed => Complete(spill, <<c>>) = spill \o <<c>>
  <2> SUFFICES ASSUME ~failed PROVE Complete(spill, <<c>>) = spill \o <<c>>
    OBVIOUS
  <2>1. \A i \in 1 .. Len(spill) : spill[i] # Broken
    BY <1>3 DEF NothingLost, Broken
  <2>2. \A i \in 1 .. Len(<<c>>) : <<c>>[i] # Broken
    BY NoChunkIsBroken
  <2>3. <<c>> \in Seq(Item)
    BY DEF Item
  <2> QED
    BY <1>2, <2>1, <2>2, <2>3, CompleteIsAll
<1>8. Storing'
  BY <1>1, <1>2, UnitsOfNone, ProcessAssumption DEF Storing
<1>9. memory' \in Seq(Chunk) /\ spilled' \in BOOLEAN
  BY <1>1, <1>2 DEF Types
<1> QED
  BY <1>3, <1>5, <1>6, <1>7, <1>8, <1>9 DEF Stores

LEMMA DropStores ==
  ASSUME Types, Storing, Keeping, NEW c \in Chunk, DropChunk(c)
  PROVE  Stores(c)
<1>1. memory' = memory /\ spill' = spill /\ spilled' = spilled /\ failed' = TRUE
  BY DEF DropChunk
<1>2. memory' \in Seq(Chunk) /\ spill' \in Seq(Item) /\ spilled' \in BOOLEAN /\ failed' \in BOOLEAN
  BY <1>1 DEF Types, Item
<1>3. Storing' /\ Kept' = Kept
  BY <1>1 DEF Storing, Kept
<1>4. \E pos : Thins(pos, Kept, Append(Kept, c), Len(Append(Kept, c)))
  BY KeptIsSeq, ThinsItself DEF Keeping
<1> QED
  BY <1>1, <1>2, <1>3, <1>4 DEF Stores

\* The four outcomes of an append.
LEMMA AppendStores ==
  ASSUME Inv, NEW s \in Stream, AppendChunk(s)
  PROVE  \E c : /\ IsHeld(c, s) /\ Stores(c)
               /\ outcome' \in {outcome, [outcome EXCEPT !.truncated = TRUE]}
<1> DEFINE chunk(long) == [cursor |-> next + 1, stream |-> s, from |-> taken[s] - reader[s].units,
                           units |-> reader[s].units, long |-> long]
<1>1. PICK long \in {FALSE} \cup {reader[s].units = ChunkUnits} :
        \/ KeepInMemory(chunk(long)) \/ OpenSpill(chunk(long))
        \/ AppendSpill(chunk(long)) \/ DropChunk(chunk(long))
  BY DEF AppendChunk
<1>2. long \in BOOLEAN
  BY Zenon
<1>3. IsHeld(chunk(long), s)
  BY <1>2, HeldIsChunk DEF Inv, AppendChunk
<1> HIDE DEF chunk
<1>4. chunk(long) \in Chunk
  BY <1>3 DEF IsHeld
<1>5. Stores(chunk(long))
  BY <1>1, <1>4, MemoryStores, OpenStores, SpillStores, DropStores DEF Inv
<1>6. outcome' \in {outcome, [outcome EXCEPT !.truncated = TRUE]}
  BY <1>1 DEF KeepInMemory, OpenSpill, AppendSpill, DropChunk
<1> QED
  BY <1>3, <1>5, <1>6

-----------------------------------------------------------------------------
(* The steps.                                                              *)

LEMMA InitInv == Init => Inv
<1> SUFFICES ASSUME Init PROVE Inv
  OBVIOUS
<1>1. Kept = <<>>
  BY DEF Init, Kept
<1>2. Types
  <2>1. /\ written \in [Stream -> 0 .. MaxOutput] /\ taken \in [Stream -> Nat]
        /\ reader \in [Stream -> {Reading, Ended} \cup {Holding(n) : n \in 1 .. ChunkUnits}]
    BY ProcessAssumption DEF Init
  <2>2. memory \in Seq(Chunk) /\ spill \in Seq(Chunk \cup {Broken}) /\ client \in Seq(Nat)
    BY DEF Init
  <2>3. /\ child \in [at : {"none", "running", "exited", "reaped"}, code : {-1, 0, 1}, killed : BOOLEAN]
        /\ outcome \in [code : {-1, 0, 1}, timedOut : BOOLEAN, canceled : BOOLEAN,
                        truncated : BOOLEAN, spilled : BOOLEAN]
    BY DEF Init
  <2>4. /\ pipes \in BOOLEAN /\ ctx \in {"open", "deadline", "canceled"} /\ waiter \in {"waiting", "sent"}
        /\ supervisor \in {"start", "select", "grace", "await", "drain", "done", "refused"}
        /\ next \in Nat /\ spilled \in BOOLEAN /\ failed \in BOOLEAN
    BY DEF Init
  <2> QED
    BY <2>1, <2>2, <2>3, <2>4 DEF Types
<1>3. Taking
  BY DEF Init, Taking, Ended
<1>4. Storing
  BY UnitsOfNone, ProcessAssumption DEF Init, Storing
<1>5. Keeping /\ Following /\ NothingLost
  BY <1>1 DEF Init, Keeping, InOrder, Following, NothingLost
<1>6. Final
  BY DEF Init, Final
<1> QED
  BY <1>2, <1>3, <1>4, <1>5, <1>6 DEF Inv

\* Steps that leave the store and the client alone, and give nothing back.
LEMMA QuietKeeps ==
  ASSUME Inv, UNCHANGED <<store, client>>, \A c \in Chunk : Given(c) => Given(c)'
  PROVE  Storing' /\ Keeping' /\ Following' /\ NothingLost'
<1>1. /\ memory' = memory /\ spill' = spill /\ next' = next /\ spilled' = spilled
      /\ failed' = failed /\ client' = client /\ Kept' = Kept
  BY DEF store, Kept
<1>2. Storing' /\ Following' /\ NothingLost'
  BY <1>1 DEF Inv, Storing, Following, NothingLost, Seen
<1>3. Keeping'
  <2>1. ASSUME NEW i \in 1 .. Len(Kept), Kept[i] # Broken
        PROVE  Given(Kept[i])'
    <3>1. PICK c \in Chunk : c = Kept[i]
      BY <2>1, KeptIsSeq DEF Inv, Item
    <3>2. Given(c)
      BY <2>1, <3>1 DEF Inv, Keeping
    <3>3. Given(c)'
      BY <3>2
    <3> QED
      BY <1>1, <3>1, <3>3 DEF Given
  <2> QED
    BY <1>1, <2>1 DEF Inv, Keeping
<1> QED
  BY <1>2, <1>3

\* A reader's chunk comes after all that was kept before it.
LEMMA AppendKeeps ==
  ASSUME Inv, NEW s \in Stream, AppendChunk(s), Types',
         NEW c, IsHeld(c, s), Stores(c)
  PROVE  Keeping' /\ Following' /\ NothingLost'
<1> DEFINE all == Append(Kept, c)
           n == Len(Kept)
<1>1. /\ Kept \in Seq(Item) /\ n \in Nat /\ Len(all) = n + 1 /\ all[n + 1] = c
      /\ \A i \in 1 .. n : all[i] = Kept[i] /\ Kept[i] \in Item
  BY KeptIsSeq DEF Inv
<1>2. /\ next' = next + 1 /\ client' = client /\ taken' = taken
      /\ reader' = [reader EXCEPT ![s] = Reading]
  BY DEF AppendChunk
<1>3. /\ c \in Chunk /\ c # Broken /\ c.cursor = next + 1 /\ next \in Nat
      /\ c.stream = s /\ c.from + c.units = taken[s] /\ c.from = taken[s] - reader[s].units
  <2>1. c \in Chunk /\ c # Broken /\ next \in Nat
    BY NoChunkIsBroken DEF IsHeld, Inv, Types
  <2>2. /\ c.cursor = next + 1 /\ c.stream = s
        /\ c.units = reader[s].units /\ c.from = taken[s] - reader[s].units
    BY DEF IsHeld
  <2>3. taken[s] \in Nat /\ reader[s].units \in Nat
    BY ReaderUnits DEF Inv, Types
  <2> QED
    BY <2>1, <2>2, <2>3
<1>4. \A i \in 1 .. n : Kept[i] # Broken => Kept[i] \in Chunk /\ Given(Kept[i])
  BY <1>1 DEF Inv, Keeping, Item
<1> HIDE DEF n
<1>5. InOrder(all)
  <2> SUFFICES ASSUME NEW i \in 1 .. n + 1, NEW j \in 1 .. n + 1,
                      j < i, all[i] # Broken, all[j] # Broken
               PROVE  /\ all[j].cursor < all[i].cursor
                      /\ all[j].stream = all[i].stream => all[j].from + all[j].units <= all[i].from
    BY <1>1 DEF InOrder
  <2>1. j \in 1 .. n
    BY <1>1
  <2>2. CASE i \in 1 .. n
    BY <1>1, <2>1, <2>2 DEF Inv, Keeping, InOrder, n
  <2>3. CASE i = n + 1
    <3>1. all[i] = c /\ all[j] = Kept[j] /\ Kept[j] \in Chunk /\ Given(Kept[j])
      BY <1>1, <1>4, <2>1, <2>3
    <3>2. Kept[j].cursor \in Nat /\ Kept[j].cursor <= next
      BY <3>1 DEF Given, Chunk
    <3>3. Kept[j].from + Kept[j].units <= taken[Kept[j].stream] - reader[Kept[j].stream].units
      BY <3>1 DEF Given
    <3> QED
      BY <1>3, <3>1, <3>2, <3>3
  <2> QED
    BY <1>1, <2>2, <2>3
<1> HIDE DEF all
<1>6. PICK pos : Thins(pos, Kept', all, n + 1)
  BY <1>1 DEF Stores, all
<1>7. \A i \in 1 .. Len(Kept') : Kept'[i] # Broken => pos[i] \in 1 .. n + 1 /\ Kept'[i] = all[pos[i]]
  BY <1>6 DEF Thins
<1>8. InOrder(Kept')
  <2> SUFFICES ASSUME NEW i \in 1 .. Len(Kept'), NEW j \in 1 .. Len(Kept'),
                      j < i, Kept'[i] # Broken, Kept'[j] # Broken
               PROVE  /\ Kept'[j].cursor < Kept'[i].cursor
                      /\ Kept'[j].stream = Kept'[i].stream =>
                           Kept'[j].from + Kept'[j].units <= Kept'[i].from
    BY DEF InOrder
  <2>1. pos[j] < pos[i] /\ pos[i] \in 1 .. n + 1 /\ pos[j] \in 1 .. n + 1
    BY <1>6 DEF Thins
  <2>2. Kept'[i] = all[pos[i]] /\ Kept'[j] = all[pos[j]]
    BY <1>7
  <2> QED
    BY <1>1, <1>5, <2>1, <2>2 DEF InOrder
<1>9. ASSUME NEW i \in 1 .. Len(Kept'), Kept'[i] # Broken
      PROVE  /\ Kept'[i].cursor <= next'
             /\ Kept'[i].from + Kept'[i].units <= taken'[Kept'[i].stream] - reader'[Kept'[i].stream].units
             /\ Kept'[i].cursor > next => Kept'[i] = c
             /\ Kept'[i].cursor <= next => \E k \in 1 .. n : Kept[k] = Kept'[i]
  <2>1. pos[i] \in 1 .. n + 1 /\ Kept'[i] = all[pos[i]]
    BY <1>7, <1>9
  <2>2. reader'[s] = Reading /\ Reading.units = 0 /\ taken[s] \in Nat
    BY <1>2 DEF Reading, Inv, Types
  <2>3. CASE pos[i] = n + 1
    <3>1. Kept'[i] = c
      BY <1>1, <2>1, <2>3
    <3> QED
      BY <1>2, <1>3, <2>2, <3>1
  <2>4. CASE pos[i] \in 1 .. n
    <3> DEFINE m == Kept[pos[i]]
    <3>1. Kept'[i] = m /\ m \in Chunk /\ Given(m)
      BY <1>1, <1>4, <1>9, <2>1, <2>4
    <3>2. m.cursor \in Nat /\ m.stream \in Stream /\ m.from + m.units \in Nat
      BY <3>1, ProcessAssumption DEF Chunk
    <3>3. m.cursor <= next /\ m.from + m.units <= taken[m.stream] - reader[m.stream].units
      BY <3>1 DEF Given
    <3>4. taken[m.stream] \in Nat /\ reader[m.stream].units \in Nat
      BY <3>2, ReaderUnits DEF Inv, Types
    <3>5. reader'[m.stream].units <= reader[m.stream].units /\ reader'[m.stream].units \in Nat
      <4>1. CASE m.stream = s
        BY <2>2, <3>4, <4>1
      <4>2. CASE m.stream # s
        BY <1>2, <3>2, <3>4, <4>2
      <4> QED
        BY <4>1, <4>2
    <3> HIDE DEF m
    <3>6. m.from + m.units <= taken[m.stream] - reader'[m.stream].units
      BY <3>2, <3>3, <3>4, <3>5
    <3>7. \E k \in 1 .. n : Kept[k] = m
      BY <2>4 DEF m
    <3> QED
      BY <1>2, <1>3, <3>1, <3>2, <3>3, <3>6, <3>7
  <2> QED
    BY <1>1, <2>1, <2>3, <2>4
<1>10. Keeping'
  <2>1. \A i \in 1 .. Len(Kept') : Kept'[i] = Broken => i = Len(Kept')
    BY <1>6 DEF Thins
  <2>2. \A i \in 1 .. Len(Kept') : Kept'[i] # Broken => Given(Kept[i])'
    BY <1>9 DEF Given
  <2> QED
    BY <1>8, <2>1, <2>2 DEF Keeping, InOrder
<1>11. Following'
  <2>1. \A i \in 1 .. Len(client) : client[i] <= next + 1
    <3>1. client \in Seq(Nat) /\ \A i \in 1 .. Len(client) : client[i] <= next
      BY DEF Inv, Types, Following
    <3>2. \A i \in 1 .. Len(client) : client[i] \in Nat /\ client[i] <= next
      BY <3>1
    <3> QED
      BY <1>3, <3>2
  <2>2. Seen' = Seen /\ Seen \in Nat /\ Seen <= next
    <3>1. client \in Seq(Nat) /\ \A i \in 1 .. Len(client) : client[i] <= next
      BY DEF Inv, Types, Following
    <3>2. CASE client = <<>>
      BY <1>2, <1>3, <3>2 DEF Seen
    <3>3. CASE client # <<>>
      <4>1. Len(client) \in 1 .. Len(client) /\ Seen = client[Len(client)]
        BY <3>1, <3>3 DEF Seen, Last
      <4> QED
        BY <1>2, <3>1, <4>1 DEF Seen
    <3> QED
      BY <3>2, <3>3
  <2>3. ASSUME NEW i \in 1 .. Len(Kept'), Kept'[i] # Broken, Kept'[i].cursor <= Seen
        PROVE  \E k \in 1 .. Len(client) : client[k] = Kept'[i].cursor
    <3>1. Kept'[i] \in Chunk \/ Kept'[i] = c
      BY <1>1, <1>3, <1>4, <1>7, <2>3
    <3>2. Kept'[i].cursor \in Nat
      BY <1>3, <3>1 DEF Chunk
    <3>3. PICK k \in 1 .. n : Kept[k] = Kept'[i]
      BY <1>3, <1>9, <2>2, <2>3, <3>2
    <3>4. k \in 1 .. Len(Kept) /\ Kept[k] # Broken /\ Kept[k].cursor <= Seen
      BY <2>3, <3>3 DEF n
    <3> QED
      BY <3>3, <3>4 DEF Inv, Following
  <2> QED
    BY <1>2, <2>1, <2>2, <2>3 DEF Inv, Following
<1>12. NothingLost'
  <2> SUFFICES ASSUME ~failed'
               PROVE  /\ Len(Kept') = next'
                      /\ \A i \in 1 .. Len(Kept') : Kept'[i].cursor = i
                      /\ \A i \in 1 .. Len(client) : client[i] = i
    BY <1>2 DEF NothingLost
  <2>1. ~failed /\ Kept' = all
    BY DEF Stores, all
  <2>2. n = next /\ (\A i \in 1 .. n : Kept[i].cursor = i) /\ \A i \in 1 .. Len(client) : client[i] = i
    BY <2>1 DEF Inv, NothingLost, n
  <2> QED
    BY <1>1, <1>2, <1>3, <2>1, <2>2
<1> QED
  BY <1>10, <1>11, <1>12

\* A client gets the next chunks it has not read.
LEMMA ReadKeeps ==
  ASSUME Inv, NEW limit \in Limits, Read(limit)
  PROVE  client' \in Seq(Nat) /\ Following' /\ NothingLost'
<1> DEFINE result == After(Kept, Seen)
           m == Len(client)
<1>1. Kept \in Seq(Item) /\ client \in Seq(Nat) /\ m \in Nat /\ next \in Nat /\ limit \in Nat \ {0}
  BY KeptIsSeq, ProcessAssumption DEF Inv, Types
<1>2. result \in Seq(Item) /\ \E pos : Selects(pos, result, Kept, Len(Kept), Seen)
  BY <1>1, AfterSelects
<1>3. PICK pos : Selects(pos, result, Kept, Len(Kept), Seen)
  BY <1>2
<1>4. PICK r \in Nat :
        /\ r # 0 /\ r <= Len(result)
        /\ Len(Result(Seen, limit)) = r
        /\ \A i \in 1 .. r : Result(Seen, limit)[i] = result[i]
  <2> DEFINE n == IF Len(result) < limit THEN Len(result) ELSE limit
  <2>1. Len(result) \in Nat
    BY <1>2
  <2>2. n \in 0 .. Len(result)
    BY <1>1, <2>1
  <2>3. Result(Seen, limit) = SubSeq(result, 1, n)
    BY DEF Result, FirstOf
  <2> HIDE DEF n, result
  <2>4. Len(SubSeq(result, 1, n)) = n /\ \A i \in 1 .. n : SubSeq(result, 1, n)[i] = result[i]
    BY <1>2, <2>2
  <2>5. n # 0
    <3> SUFFICES ASSUME n = 0 PROVE FALSE
      OBVIOUS
    <3>1. SubSeq(result, 1, n) = <<>>
      BY <1>2, <2>2, <2>4
    <3> QED
      BY <2>3, <3>1 DEF Read
  <2> QED
    BY <2>1, <2>2, <2>3, <2>4, <2>5
<1> HIDE DEF result
<1> DEFINE got == [i \in 1 .. r |-> result[i].cursor]
<1>5. \A i \in 1 .. r : i \in 1 .. Len(result)
  BY <1>2, <1>4

<1>6. ASSUME NEW i \in 1 .. r
      PROVE  /\ pos[i] \in 1 .. Len(Kept) /\ result[i] = Kept[pos[i]]
             /\ Kept[pos[i]] \in Chunk /\ Kept[pos[i]].cursor \in Nat /\ Kept[pos[i]] # Broken
             /\ Kept[pos[i]].cursor > Seen /\ Kept[pos[i]].cursor <= next
  <2>1. pos[i] \in 1 .. Len(Kept) /\ result[i] = Kept[pos[i]] /\ Kept[pos[i]].cursor > Seen
    BY <1>3, <1>5 DEF Selects
  <2>2. Seen \in Nat
    BY <1>1 DEF Seen, Last
  <2>3. Kept[pos[i]] # Broken
    BY <2>1, <2>2 DEF Broken
  <2>4. Kept[pos[i]] \in Chunk
    BY <1>1, <2>1, <2>3 DEF Item
  <2>5. Kept[pos[i]].cursor \in Nat
    BY <2>4 DEF Chunk
  <2>6. Kept[pos[i]].cursor <= next
    BY <2>1, <2>3 DEF Inv, Keeping, Given
  <2> QED
    BY <2>1, <2>3, <2>4, <2>5, <2>6
<1>7. ASSUME NEW i \in 1 .. r, NEW j \in 1 .. r, i < j
      PROVE  Kept[pos[i]].cursor < Kept[pos[j]].cursor
  <2>1. pos[i] < pos[j]
    BY <1>3, <1>5, <1>7 DEF Selects
  <2> QED
    BY <1>6, <2>1 DEF Inv, Keeping, InOrder
<1>8. /\ client' = client \o got /\ got \in Seq(Nat)
      /\ Kept' = Kept /\ next' = next /\ failed' = failed
  <2>1. client' = client \o [i \in 1 .. Len(Result(Seen, limit)) |-> Result(Seen, limit)[i].cursor]
    BY DEF Read
  <2>2. [i \in 1 .. Len(Result(Seen, limit)) |-> Result(Seen, limit)[i].cursor] = got
    <3>1. \A i \in 1 .. r : Result(Seen, limit)[i].cursor = result[i].cursor
      BY <1>4
    <3> QED
      BY <1>4, <3>1, Zenon
  <2>3. got \in Seq(Nat)
    BY <1>4, <1>6
  <2>4. Kept' = Kept /\ next' = next /\ failed' = failed
    BY DEF Read, store, Kept
  <2> QED
    BY <2>1, <2>2, <2>3, <2>4
<1>9. /\ client' \in Seq(Nat) /\ Len(client') = m + r
      /\ \A i \in 1 .. m : client'[i] = client[i]
      /\ \A i \in 1 .. r : client'[m + i] = Kept[pos[i]].cursor
  <2>1. Len(got) = r /\ \A i \in 1 .. r : got[i] = Kept[pos[i]].cursor
    BY <1>4, <1>6
  <2>2. got \in Seq(Nat) /\ client' = client \o got
    BY <1>8
  <2> HIDE DEF got
  <2>3. client' \in Seq(Nat) /\ Len(client') = m + r
    <3>1. client \o got \in Seq(Nat) /\ Len(client \o got) = Len(client) + Len(got)
      BY <1>1, <2>2
    <3> QED
      BY <2>1, <2>2, <3>1
  <2>4. \A i \in 1 .. m : client'[i] = client[i]
    BY <1>1, <2>2
  <2>5. \A i \in 1 .. r : client'[m + i] = got[i]
    BY <1>1, <1>4, <2>1, <2>2
  <2> QED
    BY <2>1, <2>3, <2>4, <2>5
<1>10. ASSUME NEW k \in 1 .. m + r, k \notin 1 .. m
       PROVE  k - m \in 1 .. r /\ client'[k] = Kept[pos[k - m]].cursor
  <2>1. k - m \in 1 .. r /\ m + (k - m) = k
    BY <1>1, <1>4, <1>10
  <2> QED
    BY <1>9, <2>1
<1> HIDE DEF m, got
<1>11. \A i \in 1 .. m : client[i] \in Nat /\ client[i] <= Seen /\ client[i] <= next
  <2> SUFFICES ASSUME NEW i \in 1 .. m
               PROVE  client[i] \in Nat /\ client[i] <= Seen /\ client[i] <= next
    OBVIOUS
  <2>1. client[i] \in Nat /\ client[i] <= next /\ client[m] \in Nat /\ m \in 1 .. m
    BY <1>1 DEF m, Inv, Following
  <2>2. Seen = client[m]
    BY <1>1, <2>1 DEF Seen, Last, m
  <2>3. i < m => client[i] < client[m]
    BY <2>1 DEF Inv, Following, m
  <2> QED
    BY <1>1, <2>1, <2>2, <2>3
<1>12. Seen' = Kept[pos[r]].cursor /\ r \in 1 .. r
  <2>1. r \in 1 .. r /\ client'[m + r] = Kept[pos[r]].cursor
    BY <1>4, <1>9
  <2>2. client' # <<>> /\ Last(client') = client'[m + r]
    BY <1>1, <1>4, <1>9 DEF Last
  <2> QED
    BY <2>1, <2>2 DEF Seen
<1>13. Following'
  <2>1. \A k \in 1 .. m + r : client'[k] <= next
    BY <1>6, <1>9, <1>10, <1>11
  <2>2. ASSUME NEW i \in 1 .. m + r, NEW j \in 1 .. m + r, i < j
        PROVE  client'[i] < client'[j]
    <3>1. CASE j \in 1 .. m
      <4>1. i \in 1 .. m
        BY <1>1, <2>2, <3>1
      <4>2. client[i] < client[j]
        BY <2>2, <3>1, <4>1 DEF Inv, Following, m
      <4> QED
        BY <1>9, <3>1, <4>1, <4>2
    <3>2. CASE j \notin 1 .. m
      <4>1. j - m \in 1 .. r /\ client'[j] = Kept[pos[j - m]].cursor
        BY <1>10, <3>2
      <4>2. CASE i \in 1 .. m
        <5>1. client'[i] \in Nat /\ client'[i] <= Seen
          BY <1>9, <1>11, <4>2
        <5>2. Kept[pos[j - m]].cursor \in Nat /\ Kept[pos[j - m]].cursor > Seen /\ Seen \in Nat
          BY <1>1, <1>6, <4>1 DEF Seen, Last
        <5> QED
          BY <4>1, <5>1, <5>2
      <4>3. CASE i \notin 1 .. m
        <5>1. i - m \in 1 .. r /\ client'[i] = Kept[pos[i - m]].cursor
          BY <1>10, <4>3
        <5>2. i - m < j - m
          BY <1>1, <2>2
        <5> QED
          BY <1>7, <4>1, <5>1, <5>2
      <4> QED
        BY <4>2, <4>3
    <3> QED
      BY <3>1, <3>2
  <2>3. ASSUME NEW i \in 1 .. Len(Kept), Kept[i] # Broken, Kept[i].cursor <= Seen'
        PROVE  \E k \in 1 .. m + r : client'[k] = Kept[i].cursor
    <3>1. Kept[i].cursor \in Nat /\ Seen \in Nat
      BY <1>1, <2>3 DEF Seen, Last, Item, Chunk
    <3>2. CASE Kept[i].cursor <= Seen
      <4>1. PICK k \in 1 .. m : client[k] = Kept[i].cursor
        BY <2>3, <3>2 DEF Inv, Following, m
      <4>2. k \in 1 .. m + r /\ client'[k] = client[k]
        BY <1>1, <1>9, <4>1
      <4> QED
        BY <4>1, <4>2
    <3>3. CASE Kept[i].cursor > Seen
      <4>1. PICK k \in 1 .. Len(result) : pos[k] = i
        BY <1>3, <3>3 DEF Selects
      <4>2. k \in 1 .. r
        <5> SUFFICES ASSUME r < k PROVE FALSE
          BY <1>4
        <5>1. pos[r] < i /\ pos[r] \in 1 .. Len(Kept)
          BY <1>3, <1>5, <1>6, <1>12, <4>1 DEF Selects
        <5>2. Kept[pos[r]].cursor < Kept[i].cursor
          BY <1>6, <1>12, <2>3, <5>1 DEF Inv, Keeping, InOrder
        <5> QED
          BY <1>6, <1>12, <2>3, <3>1, <5>2
      <4>3. m + k \in 1 .. m + r /\ client'[m + k] = Kept[i].cursor
        <5>1. m + k \in 1 .. m + r
          BY <1>1, <1>4, <4>2
        <5>2. client'[m + k] = Kept[pos[k]].cursor
          BY <1>9, <4>2
        <5> QED
          BY <4>1, <5>1, <5>2
      <4> QED
        BY <4>3
    <3> QED
      BY <3>1, <3>2, <3>3
  <2> QED
    BY <1>8, <1>9, <2>1, <2>2, <2>3 DEF Following
<1>14. NothingLost'
  <2> SUFFICES ASSUME ~failed
               PROVE  \A k \in 1 .. m + r : client'[k] = k
    BY <1>8, <1>9 DEF Inv, NothingLost
  <2>1. /\ \A i \in 1 .. Len(Kept) : Kept[i].cursor = i
        /\ \A i \in 1 .. m : client[i] = i
    BY DEF Inv, NothingLost, m
  <2>2. Seen = m
    BY <1>1, <2>1 DEF Seen, Last, m
  <2> DEFINE good == {i \in 0 .. r : i = 0 \/ pos[i] = m + i}
  <2>3. 0 \in good
    BY <1>4
  <2>4. ASSUME NEW i \in 1 .. r, i - 1 \in good
        PROVE  i \in good
    <3>1. pos[i] \in 1 .. Len(Kept) /\ pos[i] > m
      BY <1>6, <2>1, <2>2
    <3>2. i > 1 => pos[i - 1] = m + (i - 1) /\ pos[i - 1] < pos[i]
      <4> SUFFICES ASSUME i > 1 PROVE pos[i - 1] = m + (i - 1) /\ pos[i - 1] < pos[i]
        OBVIOUS
      <4>1. pos[i - 1] = m + (i - 1)
        BY <2>4
      <4>2. i - 1 \in 1 .. r
        OBVIOUS
      <4>3. pos[i - 1] < pos[i]
        BY <1>3, <1>5, <4>2 DEF Selects
      <4> QED
        BY <4>1, <4>3
    <3>3. m + i \in 1 .. Len(Kept) /\ m + i <= pos[i]
      BY <1>1, <1>4, <3>1, <3>2
    <3>4. PICK k \in 1 .. Len(result) : pos[k] = m + i
      <4>1. Kept[m + i].cursor > Seen
        BY <1>1, <2>1, <2>2, <3>3
      <4> QED
        BY <1>3, <3>3, <4>1 DEF Selects
    <3>5. ~(k < i)
      <4> SUFFICES ASSUME k < i PROVE FALSE
        OBVIOUS
      <4>1. i > 1 /\ i - 1 \in 1 .. Len(result) /\ k <= i - 1
        BY <1>5, <3>4
      <4>2. k = i - 1 \/ pos[k] < pos[i - 1]
        BY <1>3, <3>4, <4>1 DEF Selects
      <4> QED
        BY <1>1, <3>2, <3>4, <4>1, <4>2
    <3>6. k = i \/ pos[i] < pos[k]
      BY <1>3, <1>5, <3>4, <3>5 DEF Selects
    <3>7. pos[i] = m + i
      BY <1>1, <3>1, <3>3, <3>4, <3>6
    <3> QED
      BY <3>7
  <2>5. \A i \in 0 .. r : i \in good
    <3> HIDE DEF good
    <3> QED
      BY <1>4, <2>3, <2>4, UpTo
  <2>6. ASSUME NEW k \in 1 .. m + r, k \notin 1 .. m
        PROVE  client'[k] = k
    <3>1. k - m \in 1 .. r /\ client'[k] = Kept[pos[k - m]].cursor
      BY <1>10, <2>6
    <3>2. pos[k - m] = m + (k - m) /\ pos[k - m] \in 1 .. Len(Kept)
      BY <1>6, <2>5, <3>1
    <3> QED
      BY <1>1, <2>1, <3>1, <3>2
  <2> QED
    BY <1>9, <2>1, <2>6
<1> QED
  BY <1>9, <1>13, <1>14

ChildType == [at : {"none", "running", "exited", "reaped"}, code : {-1, 0, 1}, killed : BOOLEAN]

\* Steps of the process and of the supervisor: the readers have no part.
LEMMA ControlKeeps ==
  ASSUME Inv, UNCHANGED <<taken, reader, store, client>>,
         child' \in ChildType, written' \in [Stream -> 0 .. MaxOutput],
         \A s \in Stream : written[s] <= written'[s],
         pipes' \in BOOLEAN, ctx' \in {"open", "deadline", "canceled"}, waiter' \in {"waiting", "sent"},
         supervisor' \in {"start", "select", "grace", "await", "drain", "done", "refused"},
         outcome' \in [code : {-1, 0, 1}, timedOut : BOOLEAN, canceled : BOOLEAN,
                       truncated : BOOLEAN, spilled : BOOLEAN],
         Final'
  PROVE  Inv'
<1>1. Types'
  BY DEF Inv, Types, ChildType, store
<1>2. Taking'
  <2> SUFFICES ASSUME NEW s \in Stream
               PROVE  taken'[s] <= written'[s] /\ reader'[s].units <= taken'[s]
    BY DEF Taking
  <2>1. taken[s] \in Nat /\ written[s] \in Nat /\ written'[s] \in Nat
    BY DEF Inv, Types
  <2>2. taken[s] <= written[s] /\ reader[s].units <= taken[s] /\ written[s] <= written'[s]
    BY DEF Inv, Taking
  <2>3. taken'[s] = taken[s] /\ reader'[s] = reader[s]
    OBVIOUS
  <2> QED
    BY <2>1, <2>2, <2>3
<1>3. \A c \in Chunk : Given(c) => Given(c)'
  BY DEF Given, store
<1>4. Storing' /\ Keeping' /\ Following' /\ NothingLost'
  BY <1>3, QuietKeeps
<1> QED
  BY <1>1, <1>2, <1>4 DEF Inv

\* Most of them leave the outcome alone, and none undoes its being final.
LEMMA EndStaysFinal ==
  ASSUME Inv, UNCHANGED <<reader, store, outcome>>, supervisor' = "done" => supervisor = "done"
  PROVE  Final'
BY DEF Inv, Final, ReadersDone, store

\* What the process does, and what is done to it.
LEMMA ProcessStepKeeps ==
  ASSUME Inv, Refuse \/ CommandKill \/ Wait \/ Deadline \/ Cancel \/ Signal
                \/ (\E code \in {0, 1} : Exit(code)) \/ (\E s \in Stream : Write(s))
  PROVE  Inv'
<1> USE DEF Inv, Types, ChildType
<1>1. Killed \in ChildType
  BY DEF Killed
<1>2. /\ UNCHANGED <<taken, reader, store, client, outcome>>
      /\ supervisor' \in {supervisor, "refused"}
      /\ waiter' \in {waiter, "sent"} /\ pipes' \in {pipes, FALSE}
      /\ ctx' \in {ctx, "deadline", "canceled"}
  BY DEF Refuse, CommandKill, Wait, Deadline, Cancel, Signal, Exit, Write, processVars, goroutines
<1>3. child' \in ChildType
  <2>1. CASE child' \in {child, Killed}
    BY <1>1, <2>1
  <2>2. CASE Wait
    BY <2>2 DEF Wait
  <2>3. ASSUME NEW code \in {0, 1}, Exit(code)
        PROVE  child' \in ChildType
    BY <2>3 DEF Exit
  <2> QED
    BY <2>1, <2>2, <2>3 DEF Refuse, CommandKill, Deadline, Cancel, Signal, Write, processVars
<1>4. written' \in [Stream -> 0 .. MaxOutput] /\ \A s \in Stream : written[s] <= written'[s]
  <2>1. CASE written' = written
    BY <2>1, ProcessAssumption
  <2>2. ASSUME NEW s \in Stream, Write(s)
        PROVE  written' \in [Stream -> 0 .. MaxOutput] /\ \A t \in Stream : written[t] <= written'[t]
    <3>1. written' = [written EXCEPT ![s] = @ + 1] /\ written[s] < MaxOutput
      BY <2>2 DEF Write
    <3> QED
      BY <3>1, ProcessAssumption
  <2> QED
    BY <2>1, <2>2 DEF Refuse, CommandKill, Wait, Deadline, Cancel, Signal, Exit, processVars
<1>5. Final'
  BY <1>2, EndStaysFinal
<1>6. pipes' \in BOOLEAN /\ outcome' = outcome
  BY <1>2
<1> QED
  BY <1>2, <1>3, <1>4, <1>5, <1>6, ControlKeeps

LEMMA SupervisorStepKeeps ==
  ASSUME Inv, SupervisorStep
  PROVE  Inv'
<1> USE DEF Inv, Types, ChildType
<1>1. Killed \in ChildType
  BY DEF Killed
<1>2. UNCHANGED <<taken, reader, store, client, written, pipes, ctx, waiter>>
  BY DEF SupervisorStep, WaitDone, Terminate, KillGroup, Finish, processVars
<1>3. \A s \in Stream : written[s] <= written'[s]
  BY <1>2, ProcessAssumption
<1>4. child' \in ChildType
  BY <1>1 DEF SupervisorStep, WaitDone, Terminate, KillGroup, Finish, processVars
<1>5. CASE WaitDone \/ Terminate \/ KillGroup
  <2>1. outcome' = outcome /\ supervisor' \in {"drain", "grace", "await"}
    BY <1>5 DEF WaitDone, Terminate, KillGroup
  <2>2. Final'
    BY <1>2, <2>1, EndStaysFinal
  <2> QED
    BY <1>2, <1>3, <1>4, <2>1, <2>2, ControlKeeps
<1>6. CASE Finish
  <2>1. /\ supervisor' = "done" /\ ReadersDone
        /\ outcome' = [outcome EXCEPT !.code = child.code, !.timedOut = (ctx = "deadline"),
                                      !.canceled = (ctx = "canceled"), !.spilled = spilled]
    BY <1>6 DEF Finish
  <2>2. outcome' \in [code : {-1, 0, 1}, timedOut : BOOLEAN, canceled : BOOLEAN,
                      truncated : BOOLEAN, spilled : BOOLEAN]
    BY <2>1
  <2>3. outcome'.spilled = spilled
    BY <2>1
  <2>4. Final'
    BY <1>2, <2>1, <2>3 DEF Final, ReadersDone, store
  <2> QED
    BY <1>2, <1>3, <1>4, <2>1, <2>2, <2>4, ControlKeeps
<1> QED
  BY <1>5, <1>6 DEF SupervisorStep

\* A reader takes more, or stops, or is started.
LEMMA ReaderKeeps ==
  ASSUME Inv,
         Start \/ \E s \in Stream : ReaderEnds(s) \/ \E n \in 1 .. ChunkUnits : Receive(s, n)
  PROVE  Inv'
<1> DEFINE R == {Reading, Ended} \cup {Holding(n) : n \in 1 .. ChunkUnits}
<1>1. Reading.units = 0 /\ Ended.units = 0 /\ Reading # Ended /\ \A n \in 1 .. ChunkUnits : Holding(n).units = n
  BY DEF Reading, Ended, Holding
<1>2. /\ UNCHANGED <<store, client, outcome, written, ctx, waiter>>
      /\ child' \in ChildType /\ pipes' \in BOOLEAN
      /\ supervisor' \in {supervisor, "select"}
  BY DEF Start, ReaderEnds, Receive, processVars, goroutines, ChildType, Inv, Types
<1>3. ASSUME NEW t \in Stream
      PROVE  /\ reader'[t] \in R /\ taken'[t] \in Nat
             /\ taken'[t] <= written[t] /\ reader'[t].units <= taken'[t]
             /\ taken[t] - reader[t].units <= taken'[t] - reader'[t].units
             /\ reader[t] = Ended /\ supervisor = "done" => reader'[t] = Ended
  <2>1. /\ taken[t] \in Nat /\ reader[t] \in R /\ written[t] \in Nat
        /\ taken[t] <= written[t] /\ reader[t].units <= taken[t]
    BY DEF Inv, Types, Taking
  <2>2. reader[t].units \in Nat
    BY <2>1, ReaderUnits
  <2>3. CASE Start
    <3>1. reader'[t] = Reading /\ taken'[t] = taken[t] /\ supervisor # "done"
      BY <2>3 DEF Start
    <3> QED
      BY <1>1, <2>1, <2>2, <3>1
  <2>4. ASSUME NEW s \in Stream, ReaderEnds(s)
        PROVE  /\ reader'[t] \in R /\ taken'[t] = taken[t]
               /\ \/ reader'[t] = reader[t]
                  \/ reader[t] = Reading /\ reader'[t] = Ended
    <3>1. reader[s] = Reading /\ reader' = [reader EXCEPT ![s] = Ended] /\ taken' = taken
      BY <2>4 DEF ReaderEnds
    <3>2. reader \in [Stream -> R]
      BY DEF Inv, Types
    <3> QED
      BY <2>1, <3>1, <3>2
  <2>5. ASSUME NEW s \in Stream, NEW n \in 1 .. ChunkUnits, Receive(s, n)
        PROVE  \/ reader'[t] = reader[t] /\ taken'[t] = taken[t]
               \/ /\ reader[t] = Reading /\ reader'[t] = Holding(n) /\ taken'[t] = taken[t] + n
                  /\ n <= written[t] - taken[t]
    <3>1. /\ reader[s] = Reading /\ reader' = [reader EXCEPT ![s] = Holding(n)]
          /\ taken' = [taken EXCEPT ![s] = @ + n] /\ n <= written[s] - taken[s]
      BY <2>5 DEF Receive, Left
    <3>2. reader \in [Stream -> R] /\ taken \in [Stream -> Nat]
      BY DEF Inv, Types
    <3> QED
      BY <2>1, <3>1, <3>2
  <2> HIDE DEF R
  <2>6. CASE \E s \in Stream : ReaderEnds(s)
    BY <1>1, <2>1, <2>2, <2>4, <2>6
  <2>7. CASE \E s \in Stream, n \in 1 .. ChunkUnits : Receive(s, n)
    <3>1. PICK s \in Stream, n \in 1 .. ChunkUnits : Receive(s, n)
      BY <2>7
    <3>2. n \in Nat /\ Holding(n) \in R /\ Holding(n).units = n
      BY <1>1, ProcessAssumption DEF R
    <3> QED
      BY <1>1, <2>1, <2>2, <2>5, <3>1, <3>2
  <2> QED
    BY <2>3, <2>6, <2>7
<1>4. taken' \in [Stream -> Nat] /\ reader' \in [Stream -> R]
  <2>1. DOMAIN taken' = Stream /\ DOMAIN reader' = Stream
    BY DEF Start, ReaderEnds, Receive, Inv, Types
  <2>2. taken' = [s \in Stream |-> taken'[s]] /\ reader' = [s \in Stream |-> reader'[s]]
    BY DEF Start, ReaderEnds, Receive, Inv, Types
  <2> HIDE DEF R
  <2> QED
    BY <1>3, <2>2
<1>5. Types'
  BY <1>2, <1>4 DEF Inv, Types, ChildType, store
<1>6. Taking'
  BY <1>2, <1>3 DEF Taking
<1>7. ASSUME NEW c \in Chunk, Given(c) PROVE Given(c)'
  <2>1. c.stream \in Stream /\ c.from \in Nat /\ c.units \in Nat
    BY ProcessAssumption DEF Chunk
  <2>2. taken[c.stream] - reader[c.stream].units <= taken'[c.stream] - reader'[c.stream].units
    BY <1>3, <2>1
  <2>3. /\ taken[c.stream] \in Nat /\ reader[c.stream].units \in Nat
        /\ taken'[c.stream] \in Nat /\ reader'[c.stream].units \in Nat
    BY <1>4, <2>1, ReaderUnits DEF Inv, Types
  <2>4. c.from + c.units <= taken[c.stream] - reader[c.stream].units /\ c.cursor <= next
    BY <1>7 DEF Given
  <2>5. c.from + c.units <= taken'[c.stream] - reader'[c.stream].units
    BY <2>1, <2>2, <2>3, <2>4
  <2> QED
    BY <1>2, <2>4, <2>5 DEF Given, store
<1>8. Storing' /\ Keeping' /\ Following' /\ NothingLost'
  BY <1>2, <1>7, QuietKeeps
<1>9. Final'
  BY <1>2, <1>3 DEF Inv, Final, ReadersDone, store
<1> QED
  BY <1>5, <1>6, <1>8, <1>9 DEF Inv

LEMMA AppendChunkKeeps ==
  ASSUME Inv, NEW s \in Stream, AppendChunk(s)
  PROVE  Inv'
<1> DEFINE R == {Reading, Ended} \cup {Holding(n) : n \in 1 .. ChunkUnits}
<1>1. PICK c : /\ IsHeld(c, s) /\ Stores(c)
              /\ outcome' \in {outcome, [outcome EXCEPT !.truncated = TRUE]}
  BY AppendStores
<1>2. /\ reader[s].at = "holding" /\ next' = next + 1 /\ reader' = [reader EXCEPT ![s] = Reading]
      /\ UNCHANGED <<child, written, taken, pipes, ctx, waiter, supervisor, client>>
  BY DEF AppendChunk, processVars, goroutines
<1>3. Types'
  <2>1. reader' \in [Stream -> R] /\ next' \in Nat
    BY <1>2 DEF Inv, Types
  <2>2. /\ memory' \in Seq(Chunk) /\ spill' \in Seq(Chunk \cup {Broken})
        /\ spilled' \in BOOLEAN /\ failed' \in BOOLEAN
    BY <1>1 DEF Stores, Item
  <2>3. outcome' \in [code : {-1, 0, 1}, timedOut : BOOLEAN, canceled : BOOLEAN,
                      truncated : BOOLEAN, spilled : BOOLEAN]
    BY <1>1 DEF Inv, Types
  <2> QED
    BY <1>2, <2>1, <2>2, <2>3 DEF Inv, Types
<1>4. Taking'
  <2> SUFFICES ASSUME NEW t \in Stream
               PROVE  taken[t] <= written[t] /\ reader'[t].units <= taken[t]
    BY <1>2 DEF Taking
  <2>1. reader'[t] = reader[t] \/ reader'[t] = Reading
    BY <1>2 DEF Inv, Types
  <2> QED
    BY <2>1 DEF Inv, Types, Taking, Reading
<1>5. Storing'
  BY <1>1 DEF Stores
<1>6. Keeping' /\ Following' /\ NothingLost'
  BY <1>1, <1>3, AppendKeeps
<1>7. Final'
  BY <1>2 DEF Inv, Final, ReadersDone, Ended
<1> QED
  BY <1>3, <1>4, <1>5, <1>6, <1>7 DEF Inv

LEMMA ReadStepKeeps ==
  ASSUME Inv, NEW limit \in Limits, Read(limit)
  PROVE  Inv'
<1>1. client' \in Seq(Nat) /\ Following' /\ NothingLost'
  BY ReadKeeps
<1>2. UNCHANGED <<child, written, taken, pipes, reader, ctx, waiter, supervisor, next,
                  memory, spill, spilled, failed, outcome>>
  BY DEF Read, processVars, goroutines, store
<1>3. Types' /\ Taking' /\ Storing' /\ Final'
  BY <1>1, <1>2 DEF Inv, Types, Taking, Storing, Final, ReadersDone
<1>4. Keeping'
  BY <1>2 DEF Inv, Keeping, Given, Kept
<1> QED
  BY <1>1, <1>3, <1>4 DEF Inv

LEMMA StepInv == Inv /\ [Next]_vars => Inv'
<1> SUFFICES ASSUME Inv, [Next]_vars PROVE Inv'
  OBVIOUS
<1>1. CASE Refuse \/ CommandKill \/ Wait \/ Deadline \/ Cancel \/ Signal
             \/ (\E code \in {0, 1} : Exit(code)) \/ (\E s \in Stream : Write(s))
  BY <1>1, ProcessStepKeeps
<1>2. CASE Start \/ \E s \in Stream : ReaderEnds(s) \/ \E n \in 1 .. ChunkUnits : Receive(s, n)
  BY <1>2, ReaderKeeps
<1>3. ASSUME NEW s \in Stream, AppendChunk(s) PROVE Inv'
  BY <1>3, AppendChunkKeeps
<1>4. CASE SupervisorStep
  BY <1>4, SupervisorStepKeeps
<1>5. ASSUME NEW limit \in Limits, Read(limit) PROVE Inv'
  BY <1>5, ReadStepKeeps
<1>6. CASE UNCHANGED vars
  <2>1. Types' /\ Taking' /\ Storing' /\ Final'
    BY <1>6 DEF vars, Inv, Types, Taking, Storing, Final, ReadersDone
  <2>2. Kept' = Kept /\ Seen' = Seen
    BY <1>6 DEF vars, Kept, Seen
  <2>3. Keeping' /\ Following' /\ NothingLost'
    BY <1>6, <2>2 DEF vars, Inv, Keeping, Given, Following, NothingLost
  <2> QED
    BY <2>1, <2>3 DEF Inv
<1> QED
  BY <1>1, <1>2, <1>3, <1>4, <1>5, <1>6 DEF Next, ReaderStep, Finished

LEMMA InvHolds == Spec => []Inv
BY InitInv, StepInv, PTL DEF Spec

-----------------------------------------------------------------------------
(* Theorems.                                                               *)

(***************************************************************************)
(* Every reachable state is well-typed; no stream is read beyond what was  *)
(* written, and the chunks in memory never hold more than the memory may   *)
(* (process.go:216).                                                       *)
(***************************************************************************)
THEOREM TypesHold == Spec => []TypeOK
<1>1. Inv => TypeOK
  <2> SUFFICES ASSUME Inv PROVE TypeOK
    OBVIOUS
  <2> USE DEF Inv
  <2>1. \A s \in Stream : taken[s] \in 0 .. written[s]
    BY DEF Types, Taking
  <2>2. /\ \A i \in 1 .. Len(memory) : memory[i] \in Chunk
        /\ \A i \in 1 .. Len(spill) : spill[i] \in Chunk \cup {Broken}
    BY DEF Types
  <2>3. Units(memory) <= MemoryUnits /\ (spilled => memory = <<>>) /\ (~spilled => spill = <<>>)
    BY DEF Storing
  <2>4. \A s \in Stream : reader[s] \in {Reading, Ended} \cup {Holding(n) : n \in 1 .. ChunkUnits}
    BY DEF Types
  <2> QED
    BY <2>1, <2>2, <2>3, <2>4 DEF Types, TypeOK
<1> QED
  BY <1>1, InvHolds, PTL

(***************************************************************************)
(* A client that reads by cursor while chunks are appended, and while they *)
(* move from memory to the file, gets each chunk that is kept once and in  *)
(* order, and misses none unless the file failed (process.go:208-303).     *)
(***************************************************************************)
THEOREM CursorsReadInOrder == Spec => []ReadsInOrder
<1>1. Inv => ReadsInOrder
  <2> SUFFICES ASSUME Inv PROVE ReadsInOrder
    OBVIOUS
  <2>1. \A i, j \in 1 .. Len(client) : i < j => client[i] < client[j]
    BY DEF Inv, Following
  <2>2. ~failed => \A i \in 1 .. Len(client) : client[i] = i
    BY DEF Inv, NothingLost
  <2>3. ASSUME NEW i \in 1 .. Len(Kept), Kept[i] # Broken
        PROVE  /\ Kept[i].cursor <= Seen => \E k \in 1 .. Len(client) : client[k] = Kept[i].cursor
               /\ \A j \in 1 .. i - 1 :
                    Kept[j] # Broken /\ Kept[j].stream = Kept[i].stream =>
                      Kept[j].from + Kept[j].units <= Kept[i].from
    <3>1. \A j \in 1 .. i - 1 : j \in 1 .. Len(Kept) /\ j < i
      OBVIOUS
    <3> QED
      BY <2>3, <3>1 DEF Inv, Following, Keeping, InOrder
  <2> QED
    BY <2>1, <2>2, <2>3 DEF ReadsInOrder
<1> QED
  BY <1>1, InvHolds, PTL

(***************************************************************************)
(* Once Wait has an outcome nothing adds to the output, and what the       *)
(* outcome says of it stays true (process.go:195-205).                     *)
(***************************************************************************)
THEOREM OutcomeIsFinal == Spec => FinishedIsFinal
<1>1. ASSUME Inv, [Next]_vars, supervisor = "done"
      PROVE  Kept' = Kept /\ spilled' = outcome.spilled /\ outcome' = outcome
  <2>1. (\A s \in Stream : reader[s] = Ended) /\ outcome.spilled = spilled
    BY <1>1 DEF Inv, Final, ReadersDone
  <2>2. UNCHANGED <<memory, spill, spilled, outcome>>
    <3>1. ASSUME NEW s \in Stream, ReaderStep(s) PROVE FALSE
      BY <2>1, <3>1 DEF ReaderStep, ReaderEnds, AppendChunk, Receive, Reading, Ended
    <3>2. CASE Refuse \/ CommandKill \/ Wait \/ Deadline \/ Cancel \/ Signal
               \/ (\E code \in {0, 1} : Exit(code)) \/ (\E s \in Stream : Write(s))
      BY <3>2 DEF Refuse, CommandKill, Wait, Deadline, Cancel, Signal, Exit, Write, store
    <3>3. CASE Start \/ SupervisorStep
      BY <1>1, <3>3 DEF Start, SupervisorStep, WaitDone, Terminate, KillGroup, Finish
    <3>4. CASE \E limit \in Limits : Read(limit)
      BY <3>4 DEF Read, store
    <3>5. CASE UNCHANGED vars
      BY <3>5 DEF vars
    <3> QED
      BY <1>1, <3>1, <3>2, <3>3, <3>4, <3>5 DEF Next, Finished
  <2> QED
    BY <2>1, <2>2 DEF Kept
<1>2. Inv /\ [Next]_vars =>
        [supervisor = "done" => Kept' = Kept /\ spilled' = outcome.spilled /\ outcome' = outcome]_vars
  BY <1>1
<1> QED
  BY <1>2, InvHolds, PTL DEF Spec, FinishedIsFinal
=============================================================================

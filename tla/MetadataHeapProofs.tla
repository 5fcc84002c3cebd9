------------------------- MODULE MetadataHeapProofs -------------------------
(***************************************************************************)
(* Lemmas about the operators of MetadataHeap.  Pushing, popping and       *)
(* dropping turn a sequence of items into one of the length one expects;   *)
(* they only rearrange: nothing is duplicated, lost or invented; and push  *)
(* and pop, unlike drop_id, keep a heap a heap.                            *)
(***************************************************************************)
EXTENDS MetadataHeap, FiniteSetTheorems, FunctionTheorems, WellFoundedInduction, TLAPS

\* A non-empty set of naturals has a least element: the induction principle
\* that the proofs about positions and counts use.
LEMMA NatMin ==
  ASSUME NEW T, T \subseteq Nat, T # {}
  PROVE  \E x \in T : \A y \in T : x <= y
<1> DEFINE R == OpToRel(<, Nat)
<1>1. \A x, y \in Nat : x < y => << x, y >> \in R
  BY DEF OpToRel
<1>2. IsWellFoundedOn(R, Nat)
  BY NatLessThanWellFounded
<1> HIDE DEF R
<1>3. PICK x \in T : \A y \in T : ~ (<< y, x >> \in R)
  BY <1>2, WFMin
<1>4. ASSUME NEW y \in T PROVE x <= y
  <2>1. x \in Nat /\ y \in Nat
    OBVIOUS
  <2>2. ~ (y < x)
    BY <1>1, <1>3, <2>1
  <2> QED
    BY <2>1, <2>2
<1> QED
  BY <1>4

\* `Lowest` is that element.
LEMMA LowestIn ==
  ASSUME NEW T, T \subseteq Nat, T # {}
  PROVE  Lowest(T) \in T /\ \A j \in T : Lowest(T) <= j
<1>1. \E i \in T : \A j \in T : i <= j
  BY NatMin
<1> QED
  BY <1>1 DEF Lowest

-----------------------------------------------------------------------------
\* The recursive function Ancestors satisfies its own defining equation: the
\* function that gives every position the least set closed under "parent of"
\* does, so the one that the definition chooses does.
LEMMA AncestorsDef ==
  ASSUME NEW i \in Nat \ {0}
  PROVE  Ancestors[i] = IF i = 1 THEN {1} ELSE {i} \cup Ancestors[i \div 2]
<1> DEFINE Closed(S)  == \A k \in S : k # 1 => k \div 2 \in S
           onPath(j, n) == \A S \in SUBSET Nat : n \in S /\ Closed(S) => j \in S
           path       == [ n \in Nat \ {0} |-> { j \in Nat : onPath(j, n) } ]
           step(f, n) == IF n = 1 THEN {1} ELSE {n} \cup f[n \div 2]
<1>1. \A n \in Nat \ {0} : n # 1 => n \div 2 \in Nat \ {0} /\ n \div 2 # n
  OBVIOUS
<1>2. path[1] = {1}
  <2>1. Closed({1}) /\ {1} \in SUBSET Nat
    OBVIOUS
  <2>2. \A j \in Nat : onPath(j, 1) => j = 1
    BY <2>1
  <2>3. onPath(1, 1)
    OBVIOUS
  <2> HIDE DEF Closed, onPath
  <2>4. \A j \in Nat : onPath(j, 1) <=> j \in {1}
    BY <2>2, <2>3
  <2>5. path[1] = { j \in Nat : onPath(j, 1) }
    OBVIOUS
  <2> QED
    BY <2>4, <2>5
<1>3. ASSUME NEW n \in Nat \ {0}, n # 1
      PROVE  path[n] = {n} \cup path[n \div 2]
  <2>1. n \div 2 \in Nat \ {0}
    BY <1>1, <1>3
  <2>2. onPath(n, n)
    OBVIOUS
  <2>3. ASSUME NEW j \in Nat, onPath(j, n \div 2) PROVE onPath(j, n)
    <3>1. \A S \in SUBSET Nat : n \in S /\ Closed(S) => n \div 2 \in S
      BY <1>3
    <3> HIDE DEF Closed
    <3> QED
      BY <2>3, <3>1
  <2>4. ASSUME NEW j \in Nat, onPath(j, n), j # n PROVE onPath(j, n \div 2)
    <3> SUFFICES ASSUME NEW S \in SUBSET Nat, n \div 2 \in S, Closed(S) PROVE j \in S
      OBVIOUS
    <3>1. Closed(S \cup {n})
      OBVIOUS
    <3>2. S \cup {n} \in SUBSET Nat /\ n \in S \cup {n}
      OBVIOUS
    <3> HIDE DEF Closed
    <3>3. j \in S \cup {n}
      BY <2>4, <3>1, <3>2
    <3> QED
      BY <2>4, <3>3
  <2> HIDE DEF onPath
  <2>5. path[n] = { j \in Nat : onPath(j, n) }
        /\ path[n \div 2] = { j \in Nat : onPath(j, n \div 2) }
    BY <2>1
  <2> HIDE DEF path
  <2>6. \A j : j \in path[n] <=> j \in {n} \cup path[n \div 2]
    BY <2>2, <2>3, <2>4, <2>5
  <2> QED
    BY <2>6
<1> HIDE DEF onPath
<1>4. path = [ n \in Nat \ {0} |-> step(path, n) ]
  <2>1. path = [ n \in Nat \ {0} |-> path[n] ]
    OBVIOUS
  <2> HIDE DEF path
  <2>2. \A n \in Nat \ {0} : path[n] = step(path, n)
    BY <1>2, <1>3
  <2> HIDE DEF step
  <2> QED
    BY <2>1, <2>2
<1> HIDE DEF path
<1>5. Ancestors = [ n \in Nat \ {0} |-> step(Ancestors, n) ]
  BY <1>4 DEF Ancestors
<1> QED
  BY <1>5

\* The positions from i up to the root: each one's parent is among them, and
\* between two of them lies the parent of the lower one.
IsPath(i) ==
  LET P == Ancestors[i] IN
  /\ P \subseteq 1 .. i
  /\ i \in P /\ 1 \in P
  /\ \A j \in P : j # 1 => j \div 2 \in P
  /\ \A j \in P : Ancestors[j] \subseteq P
  /\ \A j, k \in P : j < k => j <= k \div 2
  /\ \A j \in P : j < i => \E c \in P : c # 1 /\ c \div 2 = j

\* Ancestors[i] is that path for every position, by induction on i.
LEMMA AncestorsPath == \A i \in Nat \ {0} : IsPath(i)
<1> DEFINE T == { i \in Nat \ {0} : ~ IsPath(i) }
<1> SUFFICES ASSUME T # {} PROVE FALSE
  OBVIOUS
<1>1. T \subseteq Nat
  OBVIOUS
<1>2. PICK i \in T : \A n \in T : i <= n
  BY <1>1, NatMin
<1>3. i \in Nat \ {0} /\ ~ IsPath(i)
  OBVIOUS
<1>4. ASSUME NEW n \in Nat \ {0}, n < i PROVE IsPath(n)
  <2>1. ~ (i <= n)
    BY <1>3, <1>4
  <2> QED
    BY <1>2, <1>4, <2>1
<1> HIDE DEF T
<1>5. CASE i = 1
  <2>1. Ancestors[i] = {1}
    BY <1>3, <1>5, AncestorsDef
  <2> QED
    BY <1>3, <1>5, <2>1 DEF IsPath
<1>6. CASE i # 1
  <2> DEFINE h == i \div 2
             P == Ancestors[h]
             Q == Ancestors[i]
  <2>1. h \in Nat \ {0} /\ h < i /\ h <= i
    BY <1>3, <1>6
  <2>2. Q = {i} \cup P
    BY <1>3, <1>6, AncestorsDef
  <2>3. /\ P \subseteq 1 .. h
        /\ h \in P /\ 1 \in P
        /\ \A j \in P : j # 1 => j \div 2 \in P
        /\ \A j \in P : Ancestors[j] \subseteq P
        /\ \A j, k \in P : j < k => j <= k \div 2
        /\ \A j \in P : j < h => \E c \in P : c # 1 /\ c \div 2 = j
    BY <1>4, <2>1 DEF IsPath
  <2> HIDE DEF P, Q
  <2>4. \A j \in P : j \in Nat /\ 1 <= j /\ j <= h /\ j < i
    <3> HIDE DEF h
    <3> QED
      BY <1>3, <2>1, <2>3
  <2>5. Q \subseteq 1 .. i
    BY <1>3, <2>2, <2>4
  <2>6. i \in Q /\ 1 \in Q
    BY <2>2, <2>3
  <2>7. \A j \in Q : j # 1 => j \div 2 \in Q
    BY <2>2, <2>3
  <2>8. \A j \in Q : Ancestors[j] \subseteq Q
    BY <2>2, <2>3 DEF Q
  <2>9. ASSUME NEW j \in Q, NEW k \in Q, j < k PROVE j <= k \div 2
    <3>1. CASE k \in P
      <4>1. j \in P
        <5>1. i \in Nat
          BY <1>3
        <5>2. k < i /\ k \in Nat
          BY <2>4, <3>1
        <5>3. j # i
          BY <2>9, <5>1, <5>2
        <5> QED
          BY <2>2, <5>3
      <4> QED
        BY <2>3, <2>9, <3>1, <4>1
    <3>2. CASE k = i
      <4>1. j \in P
        <5>1. j # i
          BY <1>3, <2>9, <3>2
        <5> QED
          BY <2>2, <5>1
      <4> QED
        BY <2>4, <3>2, <4>1
    <3> QED
      BY <2>2, <3>1, <3>2
  <2>10. ASSUME NEW j \in Q, j < i PROVE \E c \in Q : c # 1 /\ c \div 2 = j
    <3>1. j \in P
      <4>1. j # i
        BY <1>3, <2>10
      <4> QED
        BY <2>2, <4>1
    <3>2. CASE j = h
      BY <1>6, <2>6, <3>2
    <3>3. CASE j # h
      <4>1. j < h
        BY <2>1, <2>4, <3>1, <3>3
      <4> QED
        BY <2>2, <2>3, <3>1, <4>1
    <3> QED
      BY <3>2, <3>3
  <2>11. IsPath(i)
    BY <2>5, <2>6, <2>7, <2>8, <2>9, <2>10 DEF IsPath, Q
  <2> QED
    BY <1>3, <2>11
<1> QED
  BY <1>5, <1>6

-----------------------------------------------------------------------------
\* What __push_heap does: v moves up from position h past the positions
\* `passed` and comes to rest at `rest`.
Climb(a, h, v, passed, rest) ==
  /\ passed \subseteq Ancestors[h] \ {1}
  /\ rest \in Ancestors[h]
  /\ \A i \in Ancestors[h] : i > rest <=> i \in passed
  /\ \A i \in passed : Later(a[i \div 2], v)
  /\ rest # 1 => ~ Later(a[rest \div 2], v)
  /\ SiftUp(a, h, v) =
       [ i \in 1 .. Len(a) |->
           IF i \in passed THEN a[i \div 2] ELSE IF i = rest THEN v ELSE a[i] ]

\* SiftUp is such a climb.
LEMMA SiftUpClimbs ==
  ASSUME NEW a, NEW v, NEW h \in Nat \ {0}
  PROVE  \E passed, rest : Climb(a, h, v, passed, rest)
<1> DEFINE P == Ancestors[h]
           passed == { i \in P \ {1} : \A j \in P : j >= i => Later(a[j \div 2], v) }
           rest   == IF passed = {} THEN h ELSE Lowest(passed) \div 2
<1>1. SiftUp(a, h, v) =
        [ i \in 1 .. Len(a) |->
            IF i \in passed THEN a[i \div 2] ELSE IF i = rest THEN v ELSE a[i] ]
  BY DEF SiftUp
<1>2. /\ P \subseteq 1 .. h
      /\ h \in P /\ 1 \in P
      /\ \A j \in P : j # 1 => j \div 2 \in P
      /\ \A j, k \in P : j < k => j <= k \div 2
  BY AncestorsPath DEF IsPath
<1> HIDE DEF P
<1>3. \A j \in P : j \in Nat /\ 1 <= j /\ j <= h
  BY <1>2
<1>4. passed \subseteq P \ {1} /\ \A i \in passed : Later(a[i \div 2], v)
  <2>1. \A i \in P : i >= i
    BY <1>3
  <2> QED
    BY <2>1
<1>5. rest \in P /\ \A i \in P : i > rest <=> i \in passed
  <2>1. CASE passed = {}
    <3>1. rest = h /\ \A i \in P : ~ (i > h)
      BY <1>3, <2>1
    <3> QED
      BY <1>2, <2>1, <3>1
  <2>2. CASE passed # {}
    <3> DEFINE l == Lowest(passed)
    <3>1. passed \subseteq Nat
      BY <1>3
    <3>2. l \in passed /\ \A j \in passed : l <= j
      <4> HIDE DEF passed
      <4> QED
        BY <2>2, <3>1, LowestIn
    <3>3. rest = l \div 2
      BY <2>2
    <3>4. l \in P /\ l # 1 /\ \A j \in P : j >= l => Later(a[j \div 2], v)
      BY <3>2
    <3> HIDE DEF l, rest
    <3>5. rest \in P /\ rest < l
      BY <1>2, <1>3, <3>3, <3>4
    <3>6. ASSUME NEW i \in P, i > rest PROVE i \in passed
      <4>1. i >= l
        <5>1. i < l => i <= l \div 2
          BY <1>2, <3>4
        <5> QED
          BY <1>3, <3>3, <3>4, <3>5, <3>6, <5>1
      <4>2. i # 1
        BY <1>3, <3>4, <4>1
      <4>3. \A j \in P : j >= i => j >= l
        BY <1>3, <3>4, <4>1
      <4> QED
        BY <3>4, <4>2, <4>3
    <3>7. ASSUME NEW i \in passed PROVE i > rest
      <4>1. i \in P /\ l <= i
        BY <1>4, <3>2
      <4> QED
        BY <1>3, <3>4, <3>5, <4>1
    <3> HIDE DEF passed
    <3> QED
      BY <3>5, <3>6, <3>7
  <2> QED
    BY <2>1, <2>2
<1>6. ASSUME rest # 1 PROVE ~ Later(a[rest \div 2], v)
  <2>1. rest \notin passed
    <3>1. ~ (rest > rest)
      BY <1>3, <1>5
    <3> QED
      BY <1>5, <3>1
  <2>2. PICK j \in P : j >= rest /\ ~ Later(a[j \div 2], v)
    BY <1>5, <1>6, <2>1
  <2>3. j \notin passed
    BY <1>4, <2>2
  <2> HIDE DEF passed, rest
  <2>4. ~ (j > rest)
    BY <1>5, <2>3
  <2>5. j = rest
    BY <1>3, <1>5, <2>2, <2>4
  <2> QED
    BY <2>2, <2>5
<1> HIDE DEF passed, rest
<1> QED
  BY <1>1, <1>4, <1>5, <1>6 DEF Climb, P

\* std::push_heap's climb neither changes the length nor brings in anything
\* that was not in the vector.
LEMMA SiftUpType ==
  ASSUME NEW S, NEW a \in Seq(S), NEW v \in S, NEW hole
  PROVE  SiftUp(a, hole, v) \in Seq(S) /\ Len(SiftUp(a, hole, v)) = Len(a)
<1> DEFINE passed == { i \in Ancestors[hole] \ {1} :
                         \A j \in Ancestors[hole] : j >= i => Later(a[j \div 2], v) }
           rest   == IF passed = {} THEN hole ELSE Lowest(passed) \div 2
           value(i) == IF i \in passed THEN a[i \div 2] ELSE IF i = rest THEN v ELSE a[i]
<1>1. SiftUp(a, hole, v) = [ i \in 1 .. Len(a) |-> value(i) ]
  BY DEF SiftUp
<1>2. 1 \notin passed
  OBVIOUS
<1> HIDE DEF passed, rest
<1>3. ASSUME NEW i \in 1 .. Len(a) PROVE value(i) \in S
  <2>1. a[i] \in S
    OBVIOUS
  <2>2. ASSUME i \in passed PROVE a[i \div 2] \in S
    <3>1. i # 1
      BY <1>2, <2>2
    <3>2. i \div 2 \in 1 .. Len(a)
      BY <3>1
    <3> QED
      BY <3>2
  <2> QED
    BY <2>1, <2>2
<1> HIDE DEF value
<1>4. [ i \in 1 .. Len(a) |-> value(i) ] \in [ 1 .. Len(a) -> S ]
  BY <1>3
<1>5. Len(a) \in Nat
  OBVIOUS
<1> QED
  BY <1>1, <1>4, <1>5

\* MetadataQueue::push adds one item.
LEMMA PushHeapType ==
  ASSUME NEW S, NEW q \in Seq(S), NEW v \in S
  PROVE  PushHeap(q, v) \in Seq(S) /\ Len(PushHeap(q, v)) = Len(q) + 1
<1>1. Append(q, v) \in Seq(S) /\ Len(Append(q, v)) = Len(q) + 1
  OBVIOUS
<1> QED
  BY <1>1, SiftUpType DEF PushHeap

-----------------------------------------------------------------------------
\* the path along which the hole sinks
Sunk(q, m) ==
  { i \in 1 .. m : \A j \in Ancestors[i] \ {1} : j = EarlierChild(q, m, j \div 2) }

\* the vector after every element on the path has moved up one place
Lifted(q, m) ==
  [ i \in 1 .. m |->
      IF i \in Sunk(q, m) /\ 2 * i <= m THEN q[EarlierChild(q, m, i)] ELSE q[i] ]

\* The earlier child is a child, and inside the heap.
LEMMA EarlierChildPlace ==
  ASSUME NEW q, NEW m \in Nat, NEW i \in 1 .. m, 2 * i <= m
  PROVE  /\ EarlierChild(q, m, i) \in {2 * i, 2 * i + 1}
         /\ EarlierChild(q, m, i) \in 2 .. m
         /\ EarlierChild(q, m, i) \div 2 = i
BY DEF EarlierChild

\* The path begins at the root, goes on from every position that has a child
\* with the earlier one, and ends in a leaf.
LEMMA SunkPath ==
  ASSUME NEW q, NEW m \in Nat, m # 0
  PROVE  /\ 1 \in Sunk(q, m)
         /\ \A i \in Sunk(q, m) : 2 * i <= m => EarlierChild(q, m, i) \in Sunk(q, m)
         /\ \A i \in Sunk(q, m) :
              i # 1 => i \div 2 \in Sunk(q, m) /\ i = EarlierChild(q, m, i \div 2)
         /\ \A i, j \in Sunk(q, m) : j <= i => j \in Ancestors[i]
<1> DEFINE U == Sunk(q, m)
<1>1. \A i \in U : i \in Nat \ {0} /\ 1 <= i /\ i <= m
      /\ \A j \in Ancestors[i] \ {1} : j = EarlierChild(q, m, j \div 2)
  BY DEF Sunk
<1>2. ASSUME NEW i \in 1 .. m, \A j \in Ancestors[i] \ {1} : j = EarlierChild(q, m, j \div 2)
      PROVE  i \in U
  BY <1>2 DEF Sunk
<1> HIDE DEF U
<1>3. 1 \in U
  <2>1. Ancestors[1] = {1}
    <3>1. 1 \in Nat \ {0}
      OBVIOUS
    <3> QED
      BY <3>1, AncestorsDef
  <2>2. 1 \in 1 .. m
    OBVIOUS
  <2> QED
    BY <1>2, <2>1, <2>2
<1>4. ASSUME NEW i \in U, 2 * i <= m PROVE EarlierChild(q, m, i) \in U
  <2> DEFINE c == EarlierChild(q, m, i)
  <2>1. c \in 2 .. m /\ c \div 2 = i
    BY <1>1, <1>4, EarlierChildPlace
  <2>2. c \in Nat \ {0} /\ c # 1 /\ c \in 1 .. m
    BY <2>1
  <2>3. c = EarlierChild(q, m, c \div 2)
    BY <2>1
  <2> HIDE DEF c
  <2>4. Ancestors[c] = {c} \cup Ancestors[i]
    BY <2>1, <2>2, AncestorsDef
  <2>5. c \in U
    BY <1>1, <1>2, <2>2, <2>3, <2>4
  <2> QED
    BY <2>5 DEF c
<1>5. ASSUME NEW i \in U, i # 1
      PROVE  i \div 2 \in U /\ i = EarlierChild(q, m, i \div 2)
  <2>1. i \in Nat \ {0} /\ i \div 2 \in 1 .. m /\ i \div 2 \in Nat \ {0}
    BY <1>1, <1>5
  <2>2. Ancestors[i] = {i} \cup Ancestors[i \div 2]
    BY <1>5, <2>1, AncestorsDef
  <2>3. i \div 2 \in U
    BY <1>1, <1>2, <2>1, <2>2
  <2> QED
    BY <1>1, <1>5, <2>2, <2>3
<1>6. ASSUME NEW x \in U, NEW y \in U, y <= x, y \notin Ancestors[x]
      PROVE  FALSE
  <2> DEFINE T == { i \in U : \E j \in U : j <= i /\ j \notin Ancestors[i] }
  <2>1. x \in T
    BY <1>6
  <2>2. T \subseteq Nat
    BY <1>1
  <2>3. PICK i \in T : \A n \in T : i <= n
    BY <2>1, <2>2, NatMin
  <2>4. PICK j \in U : j <= i /\ j \notin Ancestors[i]
    OBVIOUS
  <2>5. i \in U
    OBVIOUS
  <2>6. ASSUME NEW k \in U, NEW l \in U, k < i, l <= k PROVE l \in Ancestors[k]
    <3>1. ~ (i <= k)
      BY <1>1, <2>5, <2>6
    <3> QED
      BY <2>3, <2>6, <3>1
  <2> HIDE DEF T
  <2>7. IsPath(i)
    BY <1>1, <2>5, AncestorsPath
  <2>8. j # i /\ j # 1
    BY <2>4, <2>7 DEF IsPath
  <2>9. i # 1
    BY <1>1, <2>4, <2>5, <2>8
  <2>10. i \div 2 \in U /\ j \div 2 \in U /\ i = EarlierChild(q, m, i \div 2)
         /\ j = EarlierChild(q, m, j \div 2)
    BY <1>5, <2>5, <2>8, <2>9
  <2>11. i \div 2 < i /\ j \div 2 <= i \div 2 /\ j \div 2 # i \div 2
    BY <1>1, <2>4, <2>5, <2>8, <2>9, <2>10
  <2>12. j \div 2 \in Ancestors[i \div 2]
    BY <2>6, <2>10, <2>11
  <2>13. IsPath(i \div 2) /\ j \div 2 < i \div 2
    BY <1>1, <2>10, <2>11, AncestorsPath
  <2>14. PICK c \in Ancestors[i \div 2] : c # 1 /\ c \div 2 = j \div 2
    BY <2>12, <2>13 DEF IsPath
  <2>15. c = EarlierChild(q, m, j \div 2)
    BY <1>1, <2>10, <2>14
  <2>16. c = j /\ Ancestors[i] = {i} \cup Ancestors[i \div 2]
    BY <1>1, <2>5, <2>9, <2>10, <2>15, AncestorsDef
  <2> QED
    BY <2>4, <2>14, <2>16
<1> QED
  BY <1>3, <1>4, <1>5, <1>6 DEF U

\* The deepest position of the path is its only leaf.
LEMMA SunkLeaf ==
  ASSUME NEW q, NEW m \in Nat, m # 0
  PROVE  LET leaf == Deepest(Sunk(q, m))
         IN  /\ leaf \in Sunk(q, m)
             /\ \A i \in Sunk(q, m) : 2 * i > m <=> i = leaf
<1> DEFINE U == Sunk(q, m)
           leaf == Deepest(U)
           T == { k \in Nat : m - k \in U }
<1>1. \A i \in U : i \in Nat /\ 1 <= i /\ i <= m
  BY DEF Sunk
<1>2. /\ 1 \in U
      /\ \A i \in U : 2 * i <= m => EarlierChild(q, m, i) \in U
      /\ \A i, j \in U : j <= i => j \in Ancestors[i]
  BY SunkPath
<1> HIDE DEF U
<1>3. leaf \in U /\ \A i \in U : i <= leaf
  <2>1. T # {} /\ T \subseteq Nat
    <3>1. m - 1 \in Nat /\ m - (m - 1) = 1
      OBVIOUS
    <3> QED
      BY <1>2, <3>1
  <2>2. PICK k \in T : \A l \in T : k <= l
    BY <2>1, NatMin
  <2>3. k \in Nat /\ m - k \in U
    OBVIOUS
  <2>4. ASSUME NEW i \in U PROVE i <= m - k
    <3>1. i \in Nat /\ i <= m
      BY <1>1
    <3>2. m - i \in Nat /\ m - (m - i) = i
      BY <3>1
    <3>3. m - i \in T
      BY <3>2
    <3> HIDE DEF T
    <3>4. k <= m - i
      BY <2>2, <3>3
    <3> QED
      BY <2>3, <3>1, <3>4
  <2>5. \E i \in U : \A j \in U : j <= i
    BY <2>3, <2>4
  <2> QED
    BY <2>5 DEF Deepest
<1> HIDE DEF leaf
<1>4. 2 * leaf > m
  <2> SUFFICES ASSUME 2 * leaf <= m PROVE FALSE
    BY <1>1, <1>3
  <2>1. EarlierChild(q, m, leaf) \in U
    BY <1>2, <1>3
  <2>2. EarlierChild(q, m, leaf) > leaf
    BY <1>1, <1>3 DEF EarlierChild
  <2> QED
    BY <1>1, <1>3, <2>1, <2>2
<1>5. ASSUME NEW i \in U, 2 * i > m PROVE i = leaf
  <2> SUFFICES ASSUME i # leaf PROVE FALSE
    OBVIOUS
  <2>1. i < leaf /\ i \in Ancestors[leaf] /\ leaf \in Nat \ {0}
    BY <1>1, <1>2, <1>3
  <2>2. IsPath(leaf)
    BY <2>1, AncestorsPath
  <2>3. PICK c \in Ancestors[leaf] : c # 1 /\ c \div 2 = i
    BY <2>1, <2>2 DEF IsPath
  <2>4. c \in 1 .. leaf
    BY <2>2 DEF IsPath
  <2> QED
    BY <1>1, <1>3, <1>5, <2>3, <2>4
<1> QED
  BY <1>3, <1>4, <1>5 DEF U, leaf

\* A pop is the sinking of the hole to a leaf followed by a climb from there.
LEMMA PopHeapClimbs ==
  ASSUME NEW S, NEW q \in Seq(S), NEW m, m = Len(q) - 1, m # 0, q # << >>
  PROVE  LET leaf == Deepest(Sunk(q, m))
         IN  /\ m \in Nat
             /\ leaf \in 1 .. m
             /\ Lifted(q, m) \in Seq(S) /\ Len(Lifted(q, m)) = m
             /\ PopHeap(q) = SiftUp(Lifted(q, m), leaf, q[m + 1])
<1> DEFINE leaf == Deepest(Sunk(q, m))
           value(i) == IF i \in Sunk(q, m) /\ 2 * i <= m THEN q[EarlierChild(q, m, i)] ELSE q[i]
<1>1. m \in Nat /\ Len(q) = m + 1
  OBVIOUS
<1>2. leaf \in Sunk(q, m)
  BY <1>1, SunkLeaf
<1>3. leaf \in 1 .. m
  BY <1>2 DEF Sunk
<1>4. ASSUME NEW i \in 1 .. m PROVE value(i) \in S
  <2>1. q[i] \in S
    BY <1>1
  <2>2. ASSUME 2 * i <= m PROVE q[EarlierChild(q, m, i)] \in S
    <3>1. EarlierChild(q, m, i) \in 1 .. Len(q)
      BY <1>1, <2>2, EarlierChildPlace
    <3> QED
      BY <3>1
  <2> QED
    BY <2>1, <2>2
<1>5. Lifted(q, m) = [ i \in 1 .. m |-> value(i) ]
  BY DEF Lifted
<1> HIDE DEF value
<1>6. Lifted(q, m) \in Seq(S) /\ Len(Lifted(q, m)) = m
  BY <1>1, <1>4, <1>5
<1>7. PopHeap(q) = SiftUp(Lifted(q, m), leaf, q[m + 1])
  BY DEF PopHeap, Sunk, Lifted
<1> QED
  BY <1>1, <1>3, <1>6, <1>7

\* MetadataQueue::pop_any_impl removes one item.
LEMMA PopHeapType ==
  ASSUME NEW S, NEW q \in Seq(S), q # << >>
  PROVE  PopHeap(q) \in Seq(S) /\ Len(PopHeap(q)) = Len(q) - 1
<1> DEFINE m == Len(q) - 1
<1>1. CASE m = 0
  <2>1. PopHeap(q) = << >>
    BY <1>1 DEF PopHeap
  <2> QED
    BY <1>1, <2>1
<1>2. CASE m # 0
  <2>1. q[m + 1] \in S
    BY <1>2
  <2> HIDE DEF m
  <2>2. PICK a \in Seq(S), leaf \in 1 .. m : Len(a) = m /\ PopHeap(q) = SiftUp(a, leaf, q[m + 1])
    BY <1>2, PopHeapClimbs DEF m
  <2> QED
    BY <2>1, <2>2, SiftUpType DEF m
<1> QED
  BY <1>1, <1>2

-----------------------------------------------------------------------------
\* Every element of b stands at a place of its own in D of c: nothing is
\* duplicated, and nothing invented.
DrawnFrom(b, c, D) ==
  \E f \in [ DOMAIN b -> D ] :
    /\ \A i, k \in DOMAIN b : f[i] = f[k] => i = k
    /\ \A i \in DOMAIN b : b[i] = c[f[i]]

\* Drawing twice is drawing.
LEMMA DrawnTransitive ==
  ASSUME NEW a, NEW b, NEW c, NEW D, DrawnFrom(a, b, DOMAIN b), DrawnFrom(b, c, D)
  PROVE  DrawnFrom(a, c, D)
<1>1. PICK f \in [ DOMAIN a -> DOMAIN b ] :
        /\ \A i, k \in DOMAIN a : f[i] = f[k] => i = k
        /\ \A i \in DOMAIN a : a[i] = b[f[i]]
  BY DEF DrawnFrom
<1>2. PICK g \in [ DOMAIN b -> D ] :
        /\ \A i, k \in DOMAIN b : g[i] = g[k] => i = k
        /\ \A i \in DOMAIN b : b[i] = c[g[i]]
  BY DEF DrawnFrom
<1> DEFINE e == [ i \in DOMAIN a |-> g[f[i]] ]
<1>3. e \in [ DOMAIN a -> D ]
  OBVIOUS
<1>4. \A i, k \in DOMAIN a : e[i] = e[k] => i = k
  BY <1>1, <1>2
<1>5. \A i \in DOMAIN a : a[i] = c[e[i]]
  BY <1>1, <1>2
<1> HIDE DEF e
<1> QED
  BY <1>3, <1>4, <1>5 DEF DrawnFrom

\* A climb rearranges the vector in which v has been put at the hole.
LEMMA SiftUpDrawn ==
  ASSUME NEW S, NEW a \in Seq(S), NEW v \in S, NEW h \in 1 .. Len(a)
  PROVE  DrawnFrom(SiftUp(a, h, v), [ a EXCEPT ![h] = v ], 1 .. Len(a))
<1> DEFINE P == Ancestors[h]
           b == SiftUp(a, h, v)
           c == [ a EXCEPT ![h] = v ]
<1>1. h \in Nat \ {0} /\ Len(a) \in Nat /\ 1 <= h /\ h <= Len(a)
  OBVIOUS
<1>2. PICK passed, rest : Climb(a, h, v, passed, rest)
  BY <1>1, SiftUpClimbs
<1>3. /\ P \subseteq 1 .. h
      /\ \A j \in P : j # 1 => j \div 2 \in P
      /\ \A j, k \in P : j < k => j <= k \div 2
      /\ h \in P
  BY <1>1, AncestorsPath DEF IsPath
<1>4. /\ passed \subseteq P \ {1}
      /\ rest \in P
      /\ \A i \in P : i > rest <=> i \in passed
      /\ b = [ i \in 1 .. Len(a) |->
                 IF i \in passed THEN a[i \div 2] ELSE IF i = rest THEN v ELSE a[i] ]
  BY <1>2 DEF Climb
<1> DEFINE to(i) == IF i \in passed THEN i \div 2 ELSE IF i = rest THEN h ELSE i
           f == [ i \in 1 .. Len(a) |-> to(i) ]
<1> HIDE DEF P, b
<1>5. \A i \in P : i \in Nat /\ 1 <= i /\ i <= h
  BY <1>3
<1>6. rest \notin passed /\ (h \in passed \/ h = rest)
  <2>1. ~ (rest > rest) /\ (h > rest \/ h = rest)
    BY <1>3, <1>4, <1>5
  <2> QED
    BY <1>3, <1>4, <2>1
<1>7. ASSUME NEW i \in passed
      PROVE  /\ i \in P /\ i \in Nat /\ 2 <= i /\ i <= h /\ i \div 2 \in P
             /\ i \div 2 \in passed \/ i \div 2 = rest
             /\ 1 <= i \div 2 /\ i \div 2 < i /\ i \div 2 < h
  <2>1. i \in P /\ i # 1 /\ i > rest
    BY <1>4
  <2>2. i \div 2 \in P /\ rest <= i \div 2
    BY <1>3, <1>4, <1>5, <2>1
  <2>3. i \div 2 > rest \/ i \div 2 = rest
    BY <1>4, <1>5, <2>2
  <2>4. i \div 2 \in passed \/ i \div 2 = rest
    BY <1>4, <2>2, <2>3
  <2> QED
    BY <1>5, <2>1, <2>2, <2>4
<1>8. \A i \in 1 .. Len(a) : to(i) \in 1 .. Len(a)
  BY <1>1, <1>7
<1>9. ASSUME NEW i \in 1 .. Len(a), NEW k \in 1 .. Len(a), to(i) = to(k) PROVE i = k
  <2>1. CASE i \in passed /\ k \in passed
    <3>1. i \div 2 = k \div 2
      BY <1>9, <2>1
    <3>2. i < k => i <= k \div 2
      BY <1>3, <1>7, <2>1
    <3>3. k < i => k <= i \div 2
      BY <1>3, <1>7, <2>1
    <3> QED
      BY <1>7, <2>1, <3>1, <3>2, <3>3
  <2>2. CASE i \in passed /\ k \notin passed
    <3>1. i \div 2 < h /\ (i \div 2 \in passed \/ i \div 2 = rest) /\ i \div 2 \in Nat
      BY <1>7, <2>2
    <3> QED
      BY <1>1, <1>9, <2>2, <3>1
  <2>3. CASE i \notin passed /\ k \in passed
    <3>1. k \div 2 < h /\ (k \div 2 \in passed \/ k \div 2 = rest) /\ k \div 2 \in Nat
      BY <1>7, <2>3
    <3> QED
      BY <1>1, <1>9, <2>3, <3>1
  <2>4. CASE i \notin passed /\ k \notin passed
    BY <1>6, <1>9, <2>4
  <2> QED
    BY <2>1, <2>2, <2>3, <2>4
<1>10. ASSUME NEW i \in 1 .. Len(a) PROVE b[i] = c[to(i)]
  <2>1. b[i] = IF i \in passed THEN a[i \div 2] ELSE IF i = rest THEN v ELSE a[i]
    BY <1>4
  <2>2. \A k \in 1 .. Len(a) : c[k] = IF k = h THEN v ELSE a[k]
    BY <1>1
  <2> HIDE DEF c
  <2>3. CASE i \in passed
    <3>1. i \div 2 \in 1 .. Len(a) /\ i \div 2 # h
      BY <1>1, <1>7, <2>3
    <3> QED
      BY <2>1, <2>2, <2>3, <3>1
  <2>4. CASE i \notin passed
    BY <1>6, <2>1, <2>2, <2>4
  <2> QED
    BY <2>3, <2>4
<1> HIDE DEF to, c
<1>11. f \in [ 1 .. Len(a) -> 1 .. Len(a) ]
  BY <1>8
<1>12. DOMAIN b = 1 .. Len(a)
  BY <1>4
<1>13. \A i \in 1 .. Len(a) : f[i] = to(i)
  OBVIOUS
<1> HIDE DEF f
<1>14. DrawnFrom(b, c, 1 .. Len(a))
  BY <1>9, <1>10, <1>11, <1>12, <1>13 DEF DrawnFrom
<1> QED
  BY <1>14 DEF b, c

\* MetadataQueue::push rearranges the queue and its new item.
LEMMA PushHeapDrawn ==
  ASSUME NEW S, NEW q \in Seq(S), NEW v \in S
  PROVE  DrawnFrom(PushHeap(q, v), Append(q, v), 1 .. Len(q) + 1)
<1> DEFINE a == Append(q, v)
           n == Len(q) + 1
<1>1. a \in Seq(S) /\ Len(a) = n /\ n \in 1 .. Len(a)
  OBVIOUS
<1>2. [ a EXCEPT ![n] = v ] = a
  <2>1. a[n] = v
    OBVIOUS
  <2> HIDE DEF a, n
  <2>2. a \in [ 1 .. n -> S ]
    BY <1>1
  <2> QED
    BY <2>1, <2>2
<1>3. PushHeap(q, v) = SiftUp(a, n, v)
  BY DEF PushHeap
<1> HIDE DEF a, n
<1>4. DrawnFrom(SiftUp(a, n, v), [ a EXCEPT ![n] = v ], 1 .. Len(a))
  BY <1>1, SiftUpDrawn
<1>5. DrawnFrom(PushHeap(q, v), a, 1 .. n)
  BY <1>1, <1>2, <1>3, <1>4
<1> QED
  BY <1>5 DEF a, n

\* A pop leaves what was behind the front.
LEMMA PopHeapDrawn ==
  ASSUME NEW S, NEW q \in Seq(S), q # << >>
  PROVE  DrawnFrom(PopHeap(q), q, 2 .. Len(q))
<1> DEFINE m == Len(q) - 1
           leaf == Deepest(Sunk(q, m))
           a == Lifted(q, m)
           c == [ a EXCEPT ![leaf] = q[m + 1] ]
<1>1. m \in Nat /\ Len(q) = m + 1
  OBVIOUS
<1>2. CASE m = 0
  <2>1. PopHeap(q) = << >>
    BY <1>2 DEF PopHeap
  <2>2. << >> \in [ DOMAIN << >> -> 2 .. Len(q) ]
    OBVIOUS
  <2>3. \A i \in DOMAIN << >> : FALSE
    OBVIOUS
  <2>4. DrawnFrom(<< >>, q, 2 .. Len(q))
    BY <2>2, <2>3 DEF DrawnFrom
  <2> QED
    BY <2>1, <2>4
<1>3. CASE m # 0
  <2>1. /\ leaf \in 1 .. m
        /\ a \in Seq(S) /\ Len(a) = m
        /\ PopHeap(q) = SiftUp(a, leaf, q[m + 1])
    BY <1>3, PopHeapClimbs
  <2>2. q[m + 1] \in S
    BY <1>1
  <2>3. /\ \A i \in Sunk(q, m) : i \in 1 .. m
        /\ 1 \in Sunk(q, m)
        /\ \A i \in Sunk(q, m) : 2 * i <= m => EarlierChild(q, m, i) \in Sunk(q, m)
        /\ leaf \in Sunk(q, m)
        /\ \A i \in Sunk(q, m) : 2 * i > m <=> i = leaf
    <3>1. \A i \in Sunk(q, m) : i \in 1 .. m
      BY DEF Sunk
    <3> HIDE DEF m
    <3>2. /\ 1 \in Sunk(q, m)
          /\ \A i \in Sunk(q, m) : 2 * i <= m => EarlierChild(q, m, i) \in Sunk(q, m)
      BY <1>1, <1>3, SunkPath
    <3>3. /\ leaf \in Sunk(q, m)
          /\ \A i \in Sunk(q, m) : 2 * i > m <=> i = leaf
      BY <1>1, <1>3, SunkLeaf
    <3> QED
      BY <3>1, <3>2, <3>3
  <2> DEFINE U == Sunk(q, m)
             from(i) == IF i = leaf THEN m + 1 ELSE IF i \in U THEN EarlierChild(q, m, i) ELSE i
             f == [ i \in 1 .. m |-> from(i) ]
  <2> HIDE DEF m, leaf, U
  <2>4. ASSUME NEW i \in U, i # leaf
        PROVE  /\ i \in 1 .. m /\ 2 * i <= m
               /\ EarlierChild(q, m, i) \in 2 .. m
               /\ EarlierChild(q, m, i) \in U
               /\ EarlierChild(q, m, i) \div 2 = i
    <3>1. i \in 1 .. m /\ 2 * i <= m
      BY <1>1, <2>3, <2>4 DEF U
    <3> QED
      BY <1>1, <2>3, <2>4, <3>1, EarlierChildPlace DEF U
  <2>5. 1 \in U /\ leaf \in U
    BY <2>3 DEF U
  <2>6. ASSUME NEW i \in 1 .. m PROVE from(i) \in 2 .. Len(q)
    <3>1. CASE i = leaf
      BY <1>1, <1>3, <3>1
    <3>2. CASE i # leaf /\ i \in U
      BY <1>1, <2>4, <3>2
    <3>3. CASE i # leaf /\ i \notin U
      BY <1>1, <2>5, <3>3
    <3> QED
      BY <3>1, <3>2, <3>3
  <2>7. ASSUME NEW i \in 1 .. m, NEW k \in 1 .. m, from(i) = from(k) PROVE i = k
    <3>1. CASE i = leaf
      BY <1>1, <2>4, <2>7, <3>1
    <3>2. CASE k = leaf
      BY <1>1, <2>4, <2>7, <3>2
    <3>3. CASE i # leaf /\ k # leaf
      <4>1. CASE i \in U /\ k \in U
        BY <2>4, <2>7, <3>3, <4>1
      <4>2. CASE i \in U /\ k \notin U
        BY <2>4, <2>7, <3>3, <4>2
      <4>3. CASE i \notin U /\ k \in U
        BY <2>4, <2>7, <3>3, <4>3
      <4>4. CASE i \notin U /\ k \notin U
        BY <2>7, <3>3, <4>4
      <4> QED
        BY <4>1, <4>2, <4>3, <4>4
    <3> QED
      BY <3>1, <3>2, <3>3
  <2>8. DOMAIN c = 1 .. m
    BY <2>1
  <2>9. ASSUME NEW i \in 1 .. m PROVE c[i] = q[from(i)]
    <3>1. c[i] = IF i = leaf THEN q[m + 1] ELSE a[i]
      BY <2>1
    <3>2. a[i] = IF i \in U /\ 2 * i <= m THEN q[EarlierChild(q, m, i)] ELSE q[i]
      BY DEF Lifted, U
    <3> HIDE DEF c, a
    <3> QED
      BY <2>4, <3>1, <3>2
  <2> HIDE DEF from, c, a
  <2>10. f \in [ 1 .. m -> 2 .. Len(q) ] /\ \A i \in 1 .. m : f[i] = from(i)
    BY <2>6
  <2> HIDE DEF f
  <2>11. DrawnFrom(c, q, 2 .. Len(q))
    <3>1. f \in [ DOMAIN c -> 2 .. Len(q) ]
      BY <2>8, <2>10
    <3>2. \A i, k \in DOMAIN c : f[i] = f[k] => i = k
      BY <2>7, <2>8, <2>10
    <3>3. \A i \in DOMAIN c : c[i] = q[f[i]]
      BY <2>8, <2>9, <2>10
    <3> QED
      BY <3>1, <3>2, <3>3 DEF DrawnFrom
  <2>12. DrawnFrom(PopHeap(q), c, 1 .. m)
    BY <2>1, <2>2, SiftUpDrawn DEF c
  <2> QED
    BY <2>8, <2>11, <2>12, DrawnTransitive
<1> QED
  BY <1>2, <1>3

-----------------------------------------------------------------------------
\* Among the first n positions, a set that holds at least k of them holds a
\* k-th one.
LEMMA KthMember ==
  ASSUME NEW n \in Nat, NEW K \in SUBSET (1 .. n), NEW k \in 1 .. Cardinality(K)
  PROVE  \E i \in K : Cardinality({ j \in K : j <= i }) = k
<1> DEFINE upTo(i)  == { j \in K : j <= i }
           count(i) == Cardinality(upTo(i))
           T        == { i \in 0 .. n : count(i) >= k }
<1>1. IsFiniteSet(K) /\ Cardinality(K) \in Nat
  <2>1. IsFiniteSet(1 .. n)
    BY FS_Interval
  <2>2. IsFiniteSet(K)
    BY <2>1, FS_Subset
  <2> QED
    BY <2>2, FS_CardinalityType
<1>2. ASSUME NEW i \in Int PROVE IsFiniteSet(upTo(i)) /\ count(i) \in Nat
  <2>1. upTo(i) \in SUBSET K
    OBVIOUS
  <2> HIDE DEF upTo
  <2>2. IsFiniteSet(upTo(i))
    BY <1>1, <2>1, FS_Subset
  <2> QED
    BY <2>2, FS_CardinalityType DEF count
<1> HIDE DEF T, count
<1>3. \A j \in K : j \in Int /\ 1 <= j /\ j <= n
  OBVIOUS
<1>4. \A i, j : j \in upTo(i) <=> j \in K /\ j <= i
  OBVIOUS
<1> HIDE DEF upTo
<1>5. upTo(n) = K /\ upTo(0) = {}
  <2>1. \A j \in K : j <= n /\ ~ (j <= 0)
    BY <1>3
  <2> QED
    BY <2>1, <1>4
<1>6. ASSUME NEW i \in 1 .. n
      PROVE  count(i) = IF i \in K THEN count(i - 1) + 1 ELSE count(i - 1)
  <2>1. IsFiniteSet(upTo(i - 1))
    <3>1. i - 1 \in Int
      OBVIOUS
    <3> QED
      BY <3>1, <1>2
  <2>2. CASE i \in K
    <3>1. \A j \in K : j <= i <=> j <= i - 1 \/ j = i
      BY <1>3
    <3>2. upTo(i) = upTo(i - 1) \cup {i} /\ i \notin upTo(i - 1)
      <4>1. ~ (i <= i - 1) /\ i <= i
        OBVIOUS
      <4> QED
        BY <2>2, <3>1, <4>1, <1>4, Zenon
    <3> QED
      BY <2>1, <2>2, <3>2, FS_AddElement DEF count
  <2>3. CASE i \notin K
    <3>1. \A j \in K : j <= i <=> j <= i - 1
      BY <2>3, <1>3
    <3>2. \A j : j \in upTo(i) <=> j \in upTo(i - 1)
      BY <3>1, <1>4, Zenon
    <3>3. upTo(i) = upTo(i - 1)
      BY <3>2
    <3> QED
      BY <2>3, <3>3 DEF count
  <2> QED
    BY <2>2, <2>3
<1>7. count(n) >= k /\ count(0) = 0
  BY <1>1, <1>5, FS_EmptySet DEF count
<1>8. n \in T /\ T \subseteq Nat
  BY <1>7 DEF T
<1>9. PICK i \in T : \A y \in T : i <= y
  BY <1>8, NatMin
<1>10. i \in 1 .. n /\ count(i) >= k
  BY <1>7, <1>9 DEF T
<1>11. count(i - 1) < k
  <2>1. i - 1 \in 0 .. n /\ i - 1 \in Int
    BY <1>10
  <2>2. i - 1 \notin T
    BY <1>9, <1>10, <2>1, <1>8
  <2>3. count(i - 1) \in Nat
    BY <1>2, <2>1
  <2> QED
    BY <2>1, <2>2, <2>3 DEF T
<1>12. i \in K /\ count(i) = k
  <2>1. count(i - 1) \in Nat
    BY <1>2, <1>10
  <2> QED
    BY <1>6, <1>10, <1>11, <2>1
<1> QED
  BY <1>12 DEF count, upTo

\* The places of a queue that MetadataQueue::drop_id does not erase.
Kept(q, id) == { i \in 1 .. Len(q) : q[i].id # id }

\* MetadataQueue::drop_id keeps every item of another input, and each one once.
LEMMA RemoveIdDrawn ==
  ASSUME NEW S, NEW q \in Seq(S), NEW id
  PROVE  /\ IsFiniteSet(Kept(q, id))
         /\ Cardinality(Kept(q, id)) \in Nat /\ Cardinality(Kept(q, id)) <= Len(q)
         /\ RemoveId(q, id) = [ k \in 1 .. Cardinality(Kept(q, id)) |-> RemoveId(q, id)[k] ]
         /\ DrawnFrom(RemoveId(q, id), q, Kept(q, id))
<1> DEFINE keep == Kept(q, id)
           count(i) == Cardinality({ j \in keep : j <= i })
           from(k) == { i \in keep : count(i) >= k }
           kth(k) == Lowest(from(k))
           N == Cardinality(keep)
           f == [ k \in 1 .. N |-> kth(k) ]
<1>1. RemoveId(q, id) = [ k \in 1 .. N |-> q[kth(k)] ]
  BY DEF RemoveId, Kept
<1>2. Len(q) \in Nat /\ keep \in SUBSET (1 .. Len(q)) /\ \A l \in keep : l \in Nat
  BY DEF Kept
<1> HIDE DEF keep
<1>3. IsFiniteSet(keep) /\ N \in Nat /\ N <= Len(q)
  <2>1. IsFiniteSet(1 .. Len(q)) /\ Cardinality(1 .. Len(q)) = Len(q)
    <3>1. \A n \in Nat : IsFiniteSet(1 .. n) /\ Cardinality(1 .. n) = n
      BY FS_Interval
    <3> QED
      BY <1>2, <3>1
  <2>2. IsFiniteSet(keep) /\ Cardinality(keep) <= Len(q)
    BY <1>2, <2>1, FS_Subset
  <2> QED
    BY <2>2, FS_CardinalityType
<1>4. ASSUME NEW i \in keep, NEW j \in keep, i <= j
      PROVE  count(i) \in Nat /\ count(j) \in Nat /\ count(i) <= count(j)
  <2> DEFINE upTo(k) == { l \in keep : l <= k }
  <2>1. upTo(i) \in SUBSET upTo(j) /\ upTo(j) \in SUBSET keep
    <3>1. \A l \in keep : l <= i => l <= j
      BY <1>2, <1>4
    <3> QED
      BY <3>1
  <2>2. count(i) = Cardinality(upTo(i)) /\ count(j) = Cardinality(upTo(j))
    OBVIOUS
  <2> HIDE DEF upTo, count
  <2>3. IsFiniteSet(upTo(j))
    BY <1>3, <2>1, FS_Subset
  <2>4. IsFiniteSet(upTo(i)) /\ Cardinality(upTo(i)) <= Cardinality(upTo(j))
    BY <2>1, <2>3, FS_Subset
  <2> QED
    BY <2>2, <2>3, <2>4, FS_CardinalityType
<1>5. ASSUME NEW k \in 1 .. N PROVE kth(k) \in keep /\ count(kth(k)) = k
  <2>1. PICK i \in keep : count(i) = k
    BY <1>2, KthMember
  <2> HIDE DEF count
  <2>2. i \in from(k) /\ from(k) \subseteq keep
    BY <1>3, <2>1
  <2>3. \A j \in from(k) : j \in keep /\ count(j) >= k
    OBVIOUS
  <2> HIDE DEF from
  <2>4. kth(k) \in from(k) /\ kth(k) <= i
    <3>1. \A l \in from(k) : l \in Nat
      BY <1>2, <2>2
    <3>2. from(k) \subseteq Nat /\ from(k) # {}
      BY <2>2, <3>1
    <3> QED
      BY <2>2, <3>2, LowestIn
  <2>5. kth(k) \in keep /\ count(kth(k)) >= k
    BY <2>3, <2>4
  <2> HIDE DEF kth
  <2>6. count(kth(k)) \in Nat /\ count(kth(k)) <= k
    BY <1>4, <2>1, <2>4, <2>5
  <2> QED
    BY <1>3, <2>5, <2>6
<1> HIDE DEF kth, count, from, N
<1>6. f \in [ 1 .. N -> keep ] /\ \A k \in 1 .. N : f[k] = kth(k)
  BY <1>5
<1> HIDE DEF f
<1>7. \A i, k \in 1 .. N : f[i] = f[k] => i = k
  BY <1>5, <1>6
<1>8. DOMAIN RemoveId(q, id) = 1 .. N /\ \A k \in 1 .. N : RemoveId(q, id)[k] = q[f[k]]
  BY <1>1, <1>6
<1>9. DrawnFrom(RemoveId(q, id), q, keep)
  <2> DEFINE b == RemoveId(q, id)
  <2> HIDE DEF b
  <2>1. DOMAIN b = 1 .. N /\ \A k \in 1 .. N : b[k] = q[f[k]]
    BY <1>8 DEF b
  <2>2. f \in [ DOMAIN b -> keep ]
    BY <1>6, <2>1
  <2>3. \A i, k \in DOMAIN b : f[i] = f[k] => i = k
    BY <1>7, <2>1
  <2>4. \A i \in DOMAIN b : b[i] = q[f[i]]
    BY <2>1
  <2>5. DrawnFrom(b, q, keep)
    BY <2>2, <2>3, <2>4, Zenon DEF DrawnFrom
  <2> QED
    BY <2>5 DEF b
<1>10. RemoveId(q, id) = [ k \in 1 .. N |-> RemoveId(q, id)[k] ]
  BY <1>1
<1> QED
  BY <1>3, <1>9, <1>10 DEF keep, N

\* It leaves a sequence of items, none of them the input's.
LEMMA RemoveIdType ==
  ASSUME NEW S, NEW q \in Seq(S), NEW id
  PROVE  /\ RemoveId(q, id) \in Seq(S)
         /\ \A k \in DOMAIN RemoveId(q, id) : RemoveId(q, id)[k].id # id
         /\ Len(RemoveId(q, id)) <= Len(q)
<1> DEFINE keep == Kept(q, id)
           b == RemoveId(q, id)
           N == Cardinality(keep)
<1>1. /\ N \in Nat /\ N <= Len(q)
      /\ b = [ k \in 1 .. N |-> b[k] ]
      /\ DrawnFrom(b, q, keep)
  BY RemoveIdDrawn
<1>2. \A i \in keep : q[i] \in S /\ q[i].id # id
  BY DEF Kept
<1> HIDE DEF keep, b, N
<1>3. \A k \in 1 .. N : b[k] \in S /\ b[k].id # id
  BY <1>1, <1>2 DEF DrawnFrom
<1>4. DOMAIN b = 1 .. N /\ b \in [ 1 .. N -> S ]
  BY <1>1, <1>3
<1>5. b \in Seq(S) /\ Len(b) = N
  BY <1>1, <1>4
<1> QED
  BY <1>1, <1>3, <1>4, <1>5 DEF b

\* Where as many items are drawn as there are places, every place is used.
LEMMA DrawnAll ==
  ASSUME NEW b, NEW c, NEW D, DrawnFrom(b, c, D), IsFiniteSet(D), IsFiniteSet(DOMAIN b),
         Cardinality(DOMAIN b) = Cardinality(D)
  PROVE  \E f \in Bijection(DOMAIN b, D) : \A i \in DOMAIN b : b[i] = c[f[i]]
<1>1. PICK f \in [ DOMAIN b -> D ] :
        /\ \A i, k \in DOMAIN b : f[i] = f[k] => i = k
        /\ \A i \in DOMAIN b : b[i] = c[f[i]]
  BY DEF DrawnFrom
<1>2. f \in Injection(DOMAIN b, D)
  BY <1>1 DEF Injection, IsInjective
<1>3. f \in Surjection(DOMAIN b, D)
  BY <1>2, FS_Injection
<1> QED
  BY <1>1, <1>2, <1>3 DEF Bijection

\* the places in D at which b holds x
Places(b, D, x) == { i \in D : b[i] = x }

\* In that case an element stands as often in one as in the other.
LEMMA DrawnAllCopies ==
  ASSUME NEW b, NEW c, NEW D, DrawnFrom(b, c, D), IsFiniteSet(D), IsFiniteSet(DOMAIN b),
         Cardinality(DOMAIN b) = Cardinality(D), NEW x
  PROVE  Cardinality(Places(b, DOMAIN b, x)) = Cardinality(Places(c, D, x))
<1> DEFINE A == { i \in DOMAIN b : b[i] = x }
           B == { j \in D : c[j] = x }
<1>1. PICK f \in Bijection(DOMAIN b, D) : \A i \in DOMAIN b : b[i] = c[f[i]]
  BY DrawnAll
<1>2. /\ f \in [ DOMAIN b -> D ]
      /\ \A i, k \in DOMAIN b : f[i] = f[k] => i = k
      /\ \A j \in D : \E i \in DOMAIN b : f[i] = j
  <2>1. f \in Injection(DOMAIN b, D) /\ f \in Surjection(DOMAIN b, D)
    BY Fun_BijectionProperties
  <2> QED
    BY <2>1, Fun_InjectionProperties, Fun_SurjectionProperties
<1> DEFINE g == [ i \in A |-> f[i] ]
<1>3. g \in [ A -> B ]
  BY <1>1, <1>2
<1>4. \A i, k \in A : g[i] = g[k] => i = k
  BY <1>2
<1>5. \A j \in B : \E i \in A : g[i] = j
  BY <1>1, <1>2
<1>6. A \in SUBSET DOMAIN b /\ B \in SUBSET D
  OBVIOUS
<1> HIDE DEF g, A, B
<1>7. g \in Injection(A, B) /\ g \in Surjection(A, B)
  BY <1>3, <1>4, <1>5, Fun_IsInj, Fun_IsSurj
<1>8. IsFiniteSet(B)
  BY <1>6, FS_Subset
<1>9. Cardinality(A) = Cardinality(B)
  BY <1>7, <1>8, FS_Injection
<1> QED
  BY <1>9 DEF A, B, Places

\* A pop takes its front out of the queue and keeps every copy of anything else.
LEMMA PopHeapKeeps ==
  ASSUME NEW S, NEW q \in Seq(S), q # << >>
  PROVE  /\ Elements(PopHeap(q)) \subseteq Elements(q)
         /\ \A x : x # q[1] => Cardinality(Places(PopHeap(q), DOMAIN PopHeap(q), x))
                              = Cardinality(Places(q, DOMAIN q, x))
<1> DEFINE b == PopHeap(q)
           n == Len(q)
<1>1. n \in Nat \ {0} /\ DOMAIN q = 1 .. n
  OBVIOUS
<1>2. b \in Seq(S) /\ Len(b) = n - 1
  BY PopHeapType
<1>3. DrawnFrom(b, q, 2 .. n)
  BY PopHeapDrawn
<1> HIDE DEF b, n
<1>4. DOMAIN b = 1 .. (n - 1) /\ n - 1 \in Nat
  BY <1>1, <1>2
<1>5. Elements(b) \subseteq Elements(q)
  <2>1. PICK f \in [ DOMAIN b -> 2 .. n ] : \A i \in DOMAIN b : b[i] = q[f[i]]
    BY <1>3 DEF DrawnFrom
  <2>2. 2 .. n \subseteq DOMAIN q
    BY <1>1
  <2>3. ASSUME NEW i \in DOMAIN b PROVE \E k \in DOMAIN q : b[i] = q[k]
    <3>1. f[i] \in DOMAIN q
      BY <2>2
    <3> QED
      BY <2>1, <3>1
  <2> QED
    BY <2>3 DEF Elements
<1>6. ASSUME NEW x, x # q[1]
      PROVE  Cardinality(Places(b, DOMAIN b, x)) = Cardinality(Places(q, DOMAIN q, x))
  <2>1. IsFiniteSet(1 .. (n - 1)) /\ Cardinality(1 .. (n - 1)) = n - 1
    <3>1. 1 \in Int /\ n - 1 \in Int
      BY <1>4
    <3> QED
      BY <1>1, <3>1, FS_Interval
  <2>2. IsFiniteSet(2 .. n) /\ Cardinality(2 .. n) = n - 1
    <3>1. 2 \in Int /\ n \in Int
      BY <1>1
    <3> QED
      BY <1>1, <3>1, FS_Interval
  <2>3. Cardinality(Places(b, DOMAIN b, x)) = Cardinality(Places(q, 2 .. n, x))
    <3>1. IsFiniteSet(DOMAIN b) /\ Cardinality(DOMAIN b) = Cardinality(2 .. n)
      BY <1>4, <2>1, <2>2
    <3> QED
      BY <1>3, <2>2, <3>1, DrawnAllCopies
  <2>4. Places(q, 2 .. n, x) = Places(q, DOMAIN q, x)
    <3>1. \A i \in DOMAIN q : i \in 2 .. n \/ i = 1
      BY <1>1
    <3>2. 2 .. n \subseteq DOMAIN q
      BY <1>1
    <3> QED
      BY <1>6, <3>1, <3>2 DEF Places
  <2> QED
    BY <2>3, <2>4
<1> QED
  BY <1>5, <1>6 DEF b

\* The elements are then the same.
LEMMA DrawnAllElements ==
  ASSUME NEW b, NEW c, NEW D, DrawnFrom(b, c, D), IsFiniteSet(D), IsFiniteSet(DOMAIN b),
         Cardinality(DOMAIN b) = Cardinality(D)
  PROVE  Elements(b) = { c[j] : j \in D }
<1>1. PICK f \in Bijection(DOMAIN b, D) : \A i \in DOMAIN b : b[i] = c[f[i]]
  BY DrawnAll
<1>2. f \in [ DOMAIN b -> D ] /\ \A j \in D : \E i \in DOMAIN b : f[i] = j
  BY Fun_BijectionProperties, Fun_SurjectionProperties
<1>3. \A i \in DOMAIN b : \E j \in D : b[i] = c[j]
  BY <1>1, <1>2
<1>4. \A j \in D : \E i \in DOMAIN b : c[j] = b[i]
  BY <1>1, <1>2
<1> QED
  BY <1>3, <1>4 DEF Elements

\* MetadataQueue::push adds its item to the items of the queue.
LEMMA PushHeapElements ==
  ASSUME NEW S, NEW q \in Seq(S), NEW v \in S
  PROVE  Elements(PushHeap(q, v)) = Elements(q) \cup {v}
<1> DEFINE b == PushHeap(q, v)
           a == Append(q, v)
           n == Len(q) + 1
<1>1. n \in Nat /\ n - 1 = Len(q) /\ DOMAIN q = 1 .. n - 1
  OBVIOUS
<1>2. \A i \in 1 .. n : a[i] = IF i = n THEN v ELSE q[i]
  OBVIOUS
<1>3. b \in Seq(S) /\ Len(b) = n /\ DrawnFrom(b, a, 1 .. n)
  BY PushHeapType, PushHeapDrawn
<1> HIDE DEF b, a, n
<1>4. DOMAIN b = 1 .. n
  BY <1>3
<1>5. IsFiniteSet(1 .. n)
  <2>1. 1 \in Int /\ n \in Int
    BY <1>1
  <2> QED
    BY <2>1, FS_Interval
<1>6. Elements(b) = { a[j] : j \in 1 .. n }
  BY <1>3, <1>4, <1>5, DrawnAllElements
<1>7. \A x : (\E j \in 1 .. n : x = a[j]) <=> x = v \/ \E j \in DOMAIN q : x = q[j]
  <2>1. \A j \in DOMAIN q : j \in 1 .. n /\ a[j] = q[j]
    BY <1>1, <1>2
  <2>2. n \in 1 .. n /\ a[n] = v
    <3>1. 1 <= n
      BY <1>1
    <3> QED
      BY <1>1, <1>2, <3>1
  <2>3. \A j \in 1 .. n : j = n \/ j \in DOMAIN q
    BY <1>1
  <2> QED
    BY <2>1, <2>2, <2>3
<1>8. Elements(b) = Elements(q) \cup {v}
  BY <1>6, <1>7 DEF Elements
<1> QED
  BY <1>8 DEF b

\* A pop takes away the front.
LEMMA PopHeapElements ==
  ASSUME NEW S, NEW q \in Seq(S), q # << >>
  PROVE  Elements(PopHeap(q)) = { q[j] : j \in 2 .. Len(q) }
<1> DEFINE b == PopHeap(q)
           n == Len(q)
<1>1. n \in Nat \ {0}
  OBVIOUS
<1>2. b \in Seq(S) /\ Len(b) = n - 1 /\ DrawnFrom(b, q, 2 .. n)
  BY PopHeapType, PopHeapDrawn
<1> HIDE DEF b, n
<1>3. DOMAIN b = 1 .. (n - 1) /\ n - 1 \in Nat
  BY <1>1, <1>2
<1>4. IsFiniteSet(1 .. (n - 1)) /\ Cardinality(1 .. (n - 1)) = n - 1
  <2>1. 1 \in Int /\ n - 1 \in Int
    BY <1>3
  <2> QED
    BY <1>1, <2>1, FS_Interval
<1>5. IsFiniteSet(2 .. n) /\ Cardinality(2 .. n) = n - 1
  <2>1. 2 \in Int /\ n \in Int
    BY <1>1
  <2> QED
    BY <1>1, <2>1, FS_Interval
<1>6. Cardinality(DOMAIN b) = Cardinality(2 .. n) /\ IsFiniteSet(DOMAIN b)
  BY <1>3, <1>4, <1>5
<1>7. Elements(b) = { q[j] : j \in 2 .. n }
  <2> DEFINE D == 2 .. n
  <2>1. DrawnFrom(b, q, D) /\ IsFiniteSet(D) /\ Cardinality(DOMAIN b) = Cardinality(D)
    BY <1>2, <1>5, <1>6
  <2> HIDE DEF D
  <2>2. Elements(b) = { q[j] : j \in D }
    BY <1>6, <2>1, DrawnAllElements
  <2> QED
    BY <2>2 DEF D
<1> QED
  BY <1>7 DEF b, n

-----------------------------------------------------------------------------
\* what the comparator compares
Comparable(S) == \A x \in S : x.id \in Int /\ x.pts \in Int /\ x.order \in Int

\* "Not later" is a total preorder.
LEMMA LaterOrder ==
  ASSUME NEW S, Comparable(S)
  PROVE  /\ \A x \in S : ~ Later(x, x)
         /\ \A x, y \in S : ~ Later(x, y) \/ ~ Later(y, x)
         /\ \A x, y, z \in S : ~ Later(x, y) /\ ~ Later(y, z) => ~ Later(x, z)
<1>1. \A x \in S : x.id \in Int /\ x.pts \in Int /\ x.order \in Int
  BY DEF Comparable
<1>2. ASSUME NEW x \in S PROVE ~ Later(x, x)
  BY <1>1 DEF Later
<1>3. ASSUME NEW x \in S, NEW y \in S PROVE ~ Later(x, y) \/ ~ Later(y, x)
  BY <1>1 DEF Later
<1>4. ASSUME NEW x \in S, NEW y \in S, NEW z \in S, ~ Later(x, y), ~ Later(y, z)
      PROVE  ~ Later(x, z)
  BY <1>1, <1>4 DEF Later
<1> QED
  BY <1>2, <1>3, <1>4

\* A value that climbs from a leaf makes a heap of what is one but for the leaf.
LEMMA SiftUpOrdered ==
  ASSUME NEW S, Comparable(S), NEW a \in Seq(S), NEW v \in S, NEW h \in 1 .. Len(a),
         2 * h > Len(a),
         \A i \in 2 .. Len(a) : i # h => ~ Later(a[i \div 2], a[i])
  PROVE  IsHeap(SiftUp(a, h, v))
<1> DEFINE P == Ancestors[h]
           b == SiftUp(a, h, v)
<1>1. h \in Nat \ {0} /\ Len(a) \in Nat /\ 1 <= h /\ h <= Len(a)
  OBVIOUS
<1>2. PICK passed, rest : Climb(a, h, v, passed, rest)
  BY <1>1, SiftUpClimbs
<1>3. /\ P \subseteq 1 .. h
      /\ \A j \in P : j # 1 => j \div 2 \in P
      /\ \A j, k \in P : j < k => j <= k \div 2
      /\ h \in P
  BY <1>1, AncestorsPath DEF IsPath
<1>4. /\ passed \subseteq P \ {1}
      /\ rest \in P
      /\ \A i \in P : i > rest <=> i \in passed
      /\ \A i \in passed : Later(a[i \div 2], v)
      /\ rest # 1 => ~ Later(a[rest \div 2], v)
      /\ b = [ i \in 1 .. Len(a) |->
                 IF i \in passed THEN a[i \div 2] ELSE IF i = rest THEN v ELSE a[i] ]
  BY <1>2 DEF Climb
<1> HIDE DEF P
<1>5. \A i \in P : i \in Nat /\ 1 <= i /\ i <= h
  BY <1>3
<1>6. rest \notin passed /\ (h \in passed \/ h = rest)
  <2>1. ~ (rest > rest) /\ (h > rest \/ h = rest)
    BY <1>3, <1>4, <1>5
  <2> QED
    BY <1>3, <1>4, <2>1
<1>7. /\ \A x, y \in S : ~ Later(x, y) \/ ~ Later(y, x)
      /\ \A x, y, z \in S : ~ Later(x, y) /\ ~ Later(y, z) => ~ Later(x, z)
  BY LaterOrder
<1>8. Len(b) = Len(a)
  BY SiftUpType
<1> HIDE DEF b
<1>9. \A i \in 1 .. Len(a) :
        b[i] = IF i \in passed THEN a[i \div 2] ELSE IF i = rest THEN v ELSE a[i]
  BY <1>4
<1>10. ASSUME NEW i \in 2 .. Len(a) PROVE ~ Later(b[i \div 2], b[i])
  <2> DEFINE p == i \div 2
  <2>1. i \in Nat /\ p \in Nat /\ 1 <= p /\ p < i /\ 2 * p <= i /\ i <= Len(a)
        /\ p \in 1 .. Len(a) /\ i \in 1 .. Len(a) /\ i # 1
    BY <1>1
  <2>2. p # h
    BY <1>1, <2>1
  <2>3. ASSUME p # 1
        PROVE  p \in 2 .. Len(a) /\ p \div 2 \in 1 .. Len(a) /\ ~ Later(a[p \div 2], a[p])
    <3>1. p \in 2 .. Len(a) /\ p \div 2 \in 1 .. Len(a)
      BY <2>1, <2>3
    <3> QED
      BY <2>2, <3>1
  <2>4. a[i] \in S /\ a[p] \in S /\ (p # 1 => a[p \div 2] \in S)
    BY <2>1, <2>3
  <2>5. /\ b[i] = IF i \in passed THEN a[p] ELSE IF i = rest THEN v ELSE a[i]
        /\ b[p] = IF p \in passed THEN a[p \div 2] ELSE IF p = rest THEN v ELSE a[p]
    BY <1>9, <2>1
  <2>6. i \in P => p \in P
    BY <1>3, <2>1
  <2>7. i # h => ~ Later(a[p], a[i])
    OBVIOUS
  <2> SUFFICES ~ Later(b[p], b[i])
    OBVIOUS
  <2> HIDE DEF p
  <2>8. CASE i \in passed
    <3>1. i \in P /\ i > rest /\ p \in P
      BY <1>4, <2>6, <2>8
    <3>2. rest <= p
      BY <1>3, <1>4, <1>5, <2>1, <3>1 DEF p
    <3>3. p \in passed \/ p = rest
      BY <1>4, <1>5, <3>1, <3>2
    <3>4. CASE p \in passed
      <4>1. p # 1
        BY <1>4, <3>4
      <4> QED
        BY <2>3, <2>5, <2>8, <3>4, <4>1
    <3>5. CASE p = rest
      <4>1. Later(a[p], v)
        BY <1>4, <2>8 DEF p
      <4> QED
        BY <1>6, <1>7, <2>4, <2>5, <2>8, <3>5, <4>1
    <3> QED
      BY <3>3, <3>4, <3>5
  <2>9. CASE i = rest
    <3>1. p \in P /\ ~ (p > rest) /\ p # rest
      BY <1>4, <2>1, <2>6, <2>9
    <3>2. p \notin passed
      BY <1>4, <3>1
    <3>3. ~ Later(a[p], v)
      BY <1>4, <2>1, <2>9 DEF p
    <3> QED
      BY <1>6, <2>5, <2>9, <3>1, <3>2, <3>3
  <2>10. CASE i \notin passed /\ i # rest
    <3>1. i # h
      BY <1>6, <2>10
    <3>2. CASE p \in passed
      <4>1. p # 1
        BY <1>4, <3>2
      <4> QED
        BY <1>7, <2>3, <2>4, <2>5, <2>7, <2>10, <3>1, <3>2, <4>1
    <3>3. CASE p = rest
      <4>1. h \in passed
        BY <1>6, <2>2, <3>3
      <4>2. p \in P /\ p < h
        BY <1>3, <1>4, <1>5, <2>2, <3>3
      <4>3. PICK c \in P : c # 1 /\ c \div 2 = p
        BY <1>1, <4>2, AncestorsPath DEF IsPath, P
      <4>4. c > rest
        BY <1>5, <2>1, <3>3, <4>3
      <4>5. Later(a[p], v)
        BY <1>4, <4>3, <4>4
      <4> QED
        BY <1>6, <1>7, <2>4, <2>5, <2>7, <2>10, <3>1, <3>3, <4>5
    <3>4. CASE p \notin passed /\ p # rest
      BY <2>5, <2>7, <2>10, <3>1, <3>4
    <3> QED
      BY <3>2, <3>3, <3>4
  <2> QED
    BY <2>8, <2>9, <2>10
<1> QED
  BY <1>8, <1>10 DEF IsHeap, b

\* MetadataQueue::push keeps the heap a heap.
LEMMA PushHeapOrdered ==
  ASSUME NEW S, Comparable(S), NEW q \in Seq(S), NEW v \in S, IsHeap(q)
  PROVE  IsHeap(PushHeap(q, v))
<1> DEFINE a == Append(q, v)
           n == Len(q) + 1
<1>1. a \in Seq(S) /\ Len(a) = n /\ n \in 1 .. Len(a) /\ 2 * n > Len(a)
  OBVIOUS
<1>2. ASSUME NEW i \in 2 .. Len(a), i # n PROVE ~ Later(a[i \div 2], a[i])
  <2>1. i \in 2 .. Len(q) /\ i \in 1 .. Len(q) /\ i \div 2 \in 1 .. Len(q)
    BY <1>1, <1>2
  <2>2. a[i] = q[i] /\ a[i \div 2] = q[i \div 2]
    BY <2>1
  <2> QED
    BY <2>1, <2>2 DEF IsHeap
<1>3. PushHeap(q, v) = SiftUp(a, n, v)
  BY DEF PushHeap
<1> HIDE DEF a, n
<1> QED
  BY <1>1, <1>2, <1>3, SiftUpOrdered

\* So does a pop.
LEMMA PopHeapOrdered ==
  ASSUME NEW S, Comparable(S), NEW q \in Seq(S), q # << >>, IsHeap(q)
  PROVE  IsHeap(PopHeap(q))
<1> DEFINE m == Len(q) - 1
           U == Sunk(q, m)
           leaf == Deepest(U)
           a == Lifted(q, m)
<1>1. m \in Nat /\ Len(q) = m + 1
  OBVIOUS
<1>2. CASE m = 0
  <2>1. PopHeap(q) = << >>
    BY <1>2 DEF PopHeap
  <2> QED
    BY <2>1 DEF IsHeap
<1>3. CASE m # 0
  <2>1. /\ leaf \in 1 .. m
        /\ a \in Seq(S) /\ Len(a) = m
        /\ PopHeap(q) = SiftUp(a, leaf, q[m + 1])
    BY <1>3, PopHeapClimbs
  <2>2. q[m + 1] \in S
    BY <1>1
  <2>3. \A i \in 2 .. m : ~ Later(q[i \div 2], q[i])
    BY <1>1 DEF IsHeap
  <2>4. \A i \in 1 .. m : q[i] \in S
    BY <1>1
  <2>5. \A i \in 1 .. m : a[i] = IF i \in U /\ 2 * i <= m THEN q[EarlierChild(q, m, i)] ELSE q[i]
    BY DEF Lifted
  <2> HIDE DEF m
  <2>6. /\ \A i \in U : i \in 1 .. m
        /\ \A i \in U : 2 * i <= m => EarlierChild(q, m, i) \in U
        /\ \A i \in U : i # 1 => i \div 2 \in U /\ i = EarlierChild(q, m, i \div 2)
    <3>1. \A i \in U : i \in 1 .. m
      BY DEF Sunk
    <3> QED
      BY <1>1, <1>3, <3>1, SunkPath
  <2>7. leaf \in U /\ \A i \in U : 2 * i > m <=> i = leaf
    BY <1>1, <1>3, SunkLeaf
  <2>8. \A x, y \in S : ~ Later(x, y) \/ ~ Later(y, x)
    BY LaterOrder
  <2> HIDE DEF U, leaf, a
  <2>9. ASSUME NEW i \in 2 .. m, i # leaf PROVE ~ Later(a[i \div 2], a[i])
    <3> DEFINE p == i \div 2
    <3>1. p \in 1 .. m /\ 2 * p <= m /\ p \in Nat /\ i \in 1 .. m /\ i # 1
          /\ (i = 2 * p \/ i = 2 * p + 1)
      BY <1>1
    <3>2. i \in U => p \in U /\ i = EarlierChild(q, m, p)
      BY <2>6, <3>1
    <3>3. a[p] = IF p \in U THEN q[EarlierChild(q, m, p)] ELSE q[p]
      BY <2>5, <3>1
    <3>4. ~ Later(q[p], q[i])
      BY <2>3
    <3> HIDE DEF p
    <3>5. CASE i \in U
      <4>1. i \in Nat /\ 2 * i <= m
        BY <1>1, <2>7, <2>9, <3>5
      <4>2. EarlierChild(q, m, i) \in 2 .. m /\ EarlierChild(q, m, i) \div 2 = i
        BY <1>1, <3>1, <4>1, EarlierChildPlace
      <4>3. a[i] = q[EarlierChild(q, m, i)] /\ a[p] = q[i]
        BY <2>5, <3>1, <3>2, <3>3, <3>5, <4>1
      <4>4. ~ Later(q[i], q[EarlierChild(q, m, i)])
        BY <2>3, <4>2
      <4> QED
        BY <4>3, <4>4 DEF p
    <3>6. CASE i \notin U /\ p \in U
      <4>1. i # EarlierChild(q, m, p)
        BY <2>6, <3>1, <3>6
      <4>2. a[i] = q[i] /\ a[p] = q[EarlierChild(q, m, p)]
        BY <2>5, <3>1, <3>3, <3>6
      <4>3. ~ Later(q[EarlierChild(q, m, p)], q[i])
        <5>1. CASE i = 2 * p
          <6>1. 2 * p + 1 <= m /\ ~ Later(q[2 * p + 1], q[2 * p])
                /\ EarlierChild(q, m, p) = 2 * p + 1
            BY <4>1, <5>1 DEF EarlierChild
          <6> QED
            BY <5>1, <6>1
        <5>2. CASE i = 2 * p + 1
          <6>1. Later(q[2 * p + 1], q[2 * p]) /\ EarlierChild(q, m, p) = 2 * p
            BY <1>1, <3>1, <4>1, <5>2 DEF EarlierChild
          <6>2. 2 * p \in 1 .. m /\ 2 * p + 1 \in 1 .. m
            BY <1>1, <3>1, <5>2
          <6> QED
            BY <2>4, <2>8, <5>2, <6>1, <6>2
        <5> QED
          BY <3>1, <5>1, <5>2
      <4> QED
        BY <4>2, <4>3 DEF p
    <3>7. CASE i \notin U /\ p \notin U
      <4>1. a[i] = q[i] /\ a[p] = q[p]
        BY <2>5, <3>1, <3>3, <3>7
      <4> QED
        BY <3>4, <4>1 DEF p
    <3> QED
      BY <3>2, <3>5, <3>6, <3>7
  <2>10. 2 * leaf > m
    BY <2>7
  <2> QED
    BY <2>1, <2>2, <2>9, <2>10, SiftUpOrdered
<1> QED
  BY <1>2, <1>3

\* The front of a heap is not later than anything in it.
LEMMA HeapFront ==
  ASSUME NEW S, Comparable(S), NEW q \in Seq(S), IsHeap(q), NEW i \in 1 .. Len(q)
  PROVE  ~ Later(q[1], q[i])
<1> DEFINE T == { k \in 1 .. Len(q) : Later(q[1], q[k]) }
<1> SUFFICES ASSUME i \in T PROVE FALSE
  OBVIOUS
<1>1. T \subseteq Nat /\ T # {}
  OBVIOUS
<1>2. PICK k \in T : \A l \in T : k <= l
  BY <1>1, NatMin
<1>3. k \in 1 .. Len(q) /\ Later(q[1], q[k])
  OBVIOUS
<1>4. 1 \in 1 .. Len(q) /\ q[1] \in S /\ q[k] \in S
  BY <1>3
<1>5. k # 1
  BY <1>3, <1>4, LaterOrder
<1>6. k \in 2 .. Len(q) /\ k \div 2 \in 1 .. Len(q) /\ ~ (k <= k \div 2)
  BY <1>3, <1>5
<1>7. ~ Later(q[k \div 2], q[k])
  BY <1>6 DEF IsHeap
<1>8. ~ Later(q[1], q[k \div 2])
  BY <1>2, <1>6
<1>9. q[k \div 2] \in S
  BY <1>6
<1> QED
  BY <1>3, <1>4, <1>7, <1>8, <1>9, LaterOrder

-----------------------------------------------------------------------------
\* A finite set of items of which no two are equal in the order.
Ranked(S) ==
  /\ Comparable(S)
  /\ IsFiniteSet(S)
  /\ \A x, y \in S : x # y => Later(x, y) \/ Later(y, x)

\* how many items of S come out before x
Rank(S, x) == Cardinality({ y \in S : Later(x, y) })

\* The items of such a set have the ranks from 0 up, each one its own.
LEMMA RankOnto ==
  ASSUME NEW S, Ranked(S)
  PROVE  /\ Cardinality(S) \in Nat
         /\ \A x \in S : Rank(S, x) \in 0 .. Cardinality(S) - 1
         /\ \A x, y \in S : Rank(S, x) = Rank(S, y) => x = y
         /\ \A k \in 0 .. Cardinality(S) - 1 : \E x \in S : Rank(S, x) = k
<1> DEFINE n == Cardinality(S)
           before(x) == { y \in S : Later(x, y) }
<1>1. IsFiniteSet(S) /\ Comparable(S)
  BY DEF Ranked
<1>2. n \in Nat
  BY <1>1, FS_CardinalityType
<1>3. ASSUME NEW x \in S
      PROVE  IsFiniteSet(before(x)) /\ Cardinality(before(x)) \in Nat /\ Cardinality(before(x)) < n
  <2>1. before(x) \in SUBSET S /\ x \notin before(x)
    BY <1>1, LaterOrder
  <2> HIDE DEF before
  <2>2. IsFiniteSet(before(x)) /\ Cardinality(before(x)) <= n /\ Cardinality(before(x)) # n
    BY <1>1, <2>1, FS_Subset
  <2>3. Cardinality(before(x)) \in Nat
    BY <2>2, FS_CardinalityType
  <2> QED
    BY <1>2, <2>2, <2>3
<1>4. ASSUME NEW x \in S, NEW y \in S, Later(x, y)
      PROVE  Cardinality(before(y)) < Cardinality(before(x))
  <2>1. before(y) \in SUBSET before(x)
    <3>1. ASSUME NEW z \in S, Later(y, z) PROVE Later(x, z)
      BY <1>1, <1>4, <3>1 DEF Comparable, Later
    <3> QED
      BY <3>1
  <2>2. y \in before(x) /\ y \notin before(y)
    BY <1>1, <1>4, LaterOrder
  <2> HIDE DEF before
  <2>3. Cardinality(before(y)) <= Cardinality(before(x))
        /\ Cardinality(before(y)) # Cardinality(before(x))
    BY <1>3, <2>1, <2>2, FS_Subset
  <2> QED
    BY <1>3, <2>3
<1>5. \A x \in S : Rank(S, x) = Cardinality(before(x))
  BY DEF Rank
<1> HIDE DEF before
<1>6. \A x \in S : Rank(S, x) \in 0 .. n - 1
  BY <1>2, <1>3, <1>5
<1>7. ASSUME NEW x \in S, NEW y \in S, Rank(S, x) = Rank(S, y) PROVE x = y
  <2>1. Cardinality(before(x)) = Cardinality(before(y))
    BY <1>5, <1>7
  <2>2. ~ Later(x, y) /\ ~ Later(y, x)
    BY <1>3, <1>4, <2>1
  <2> QED
    BY <2>2 DEF Ranked
<1> DEFINE g == [ x \in S |-> Rank(S, x) ]
           T == 0 .. n - 1
<1>8. g \in [ S -> T ] /\ \A x, y \in S : g[x] = g[y] => x = y
  BY <1>6, <1>7
<1>9. IsFiniteSet(T) /\ Cardinality(T) = n
  <2>1. 0 \in Int /\ n - 1 \in Int
    BY <1>2
  <2>2. IsFiniteSet(0 .. n - 1) /\ Cardinality(0 .. n - 1) = IF 0 > n - 1 THEN 0 ELSE n - 1 - 0 + 1
    BY <2>1, FS_Interval
  <2> QED
    BY <1>2, <2>2
<1>10. \A x \in S : g[x] = Rank(S, x)
  OBVIOUS
<1> HIDE DEF g, T, n
<1>11. g \in Injection(S, T)
  BY <1>8, Fun_IsInj
<1>12. g \in Surjection(S, T)
  BY <1>9, <1>11, FS_Injection DEF n
<1>13. \A k \in T : \E x \in S : g[x] = k
  BY <1>12, Fun_SurjectionProperties
<1> QED
  BY <1>2, <1>6, <1>7, <1>10, <1>13 DEF n, T

\* InOrder lists the items of such a set.
LEMMA InOrderType ==
  ASSUME NEW S, Ranked(S)
  PROVE  /\ InOrder(S) \in Seq(S) /\ Len(InOrder(S)) = Cardinality(S)
         /\ \A k \in 1 .. Cardinality(S) :
              InOrder(S)[k] \in S /\ Rank(S, InOrder(S)[k]) = k - 1
<1> DEFINE n == Cardinality(S)
           at(k) == CHOOSE x \in S : Rank(S, x) = k - 1
<1>1. n \in Nat
  BY RankOnto
<1>2. InOrder(S) = [ k \in 1 .. n |-> at(k) ]
  BY DEF InOrder, Rank
<1>3. ASSUME NEW k \in 1 .. n PROVE at(k) \in S /\ Rank(S, at(k)) = k - 1
  <2>1. k - 1 \in 0 .. n - 1
    BY <1>1
  <2>2. \E x \in S : Rank(S, x) = k - 1
    BY <2>1, RankOnto
  <2> QED
    BY <2>2
<1> HIDE DEF at
<1>4. InOrder(S) \in Seq(S) /\ Len(InOrder(S)) = n
  BY <1>1, <1>2, <1>3
<1>5. \A k \in 1 .. n : InOrder(S)[k] = at(k)
  BY <1>2
<1> QED
  BY <1>3, <1>4, <1>5

\* It lists the one that comes out first before the others.
LEMMA InOrderFirst ==
  ASSUME NEW S, Ranked(S), NEW x \in S, \A y \in S : y # x => Later(y, x)
  PROVE  /\ Ranked(S \ {x})
         /\ InOrder(S) = << x >> \o InOrder(S \ {x})
<1> DEFINE R == S \ {x}
           n == Cardinality(S)
<1>1. Comparable(S) /\ IsFiniteSet(S)
  BY DEF Ranked
<1>2. IsFiniteSet(R) /\ n \in Nat /\ Cardinality(R) = n - 1 /\ n - 1 \in Nat
  <2>1. IsFiniteSet(R) /\ Cardinality(R) = n - 1
    BY <1>1, FS_RemoveElement
  <2> QED
    BY <1>1, <2>1, FS_CardinalityType
<1>3. Ranked(R)
  BY <1>2 DEF Ranked, Comparable
<1>4. ASSUME NEW y \in R PROVE Rank(S, y) = Rank(R, y) + 1
  <2> DEFINE B == { z \in R : Later(y, z) }
  <2>1. { z \in S : Later(y, z) } = B \cup {x}
    OBVIOUS
  <2>2. x \notin B /\ B \in SUBSET R
    OBVIOUS
  <2>3. Rank(R, y) = Cardinality(B) /\ Rank(S, y) = Cardinality(B \cup {x})
    BY <2>1 DEF Rank
  <2> HIDE DEF B
  <2>4. IsFiniteSet(B)
    BY <1>2, <2>2, FS_Subset
  <2> QED
    BY <2>2, <2>3, <2>4, FS_AddElement
<1>5. Rank(S, x) = 0
  <2>1. \A z \in S : ~ Later(x, z)
    BY <1>1, LaterOrder
  <2>2. { z \in S : Later(x, z) } = {}
    BY <2>1
  <2> QED
    BY <2>2, FS_EmptySet DEF Rank
<1>6. /\ InOrder(S) \in Seq(S) /\ Len(InOrder(S)) = n
      /\ \A k \in 1 .. n : InOrder(S)[k] \in S /\ Rank(S, InOrder(S)[k]) = k - 1
  BY InOrderType
<1>7. /\ InOrder(R) \in Seq(R) /\ Len(InOrder(R)) = n - 1
      /\ \A k \in 1 .. (n - 1) : InOrder(R)[k] \in R /\ Rank(R, InOrder(R)[k]) = k - 1
  BY <1>2, <1>3, InOrderType
<1>8. \A y, z \in S : Rank(S, y) = Rank(S, z) => y = z
  BY RankOnto
<1>9. n >= 1
  BY <1>2
<1> HIDE DEF n, R
<1> DEFINE a == InOrder(S)
           b == << x >> \o InOrder(R)
<1>10. InOrder(R) \in Seq(S)
  BY <1>7 DEF R
<1>11. b \in Seq(S) /\ Len(b) = n
  BY <1>2, <1>7, <1>10
<1>12. ASSUME NEW k \in 1 .. n PROVE a[k] = b[k]
  <2>1. CASE k = 1
    <3>1. b[k] = x
      BY <1>7, <1>10, <2>1
    <3>2. a[k] \in S /\ Rank(S, a[k]) = 0
      BY <1>6, <2>1
    <3> QED
      BY <1>5, <1>8, <3>1, <3>2
  <2>2. CASE k # 1
    <3>1. k - 1 \in 1 .. (n - 1)
      BY <1>2, <2>2
    <3>2. b[k] = InOrder(R)[k - 1]
      BY <1>7, <1>10, <2>2, <3>1
    <3>3. b[k] \in R /\ Rank(R, b[k]) = k - 1 - 1
      BY <1>7, <3>1, <3>2
    <3>4. b[k] \in S /\ Rank(S, b[k]) = k - 1
      <4>1. Rank(S, b[k]) = Rank(R, b[k]) + 1
        BY <1>4, <3>3
      <4>2. k - 1 - 1 + 1 = k - 1
        BY <1>2
      <4>3. b[k] \in S
        BY <3>3 DEF R
      <4> QED
        BY <3>3, <4>1, <4>2, <4>3
    <3>5. a[k] \in S /\ Rank(S, a[k]) = k - 1
      BY <1>6
    <3> QED
      BY <1>8, <3>4, <3>5
  <2> QED
    BY <2>1, <2>2
<1>13. a \in Seq(S) /\ Len(a) = n
  BY <1>6
<1> HIDE DEF a, b
<1>14. a = b
  <2>1. a = [ k \in 1 .. n |-> a[k] ] /\ b = [ k \in 1 .. n |-> b[k] ]
    BY <1>11, <1>13
  <2>2. [ k \in 1 .. n |-> a[k] ] = [ k \in 1 .. n |-> b[k] ]
    BY <1>12
  <2> QED
    BY <2>1, <2>2
<1> QED
  BY <1>3, <1>14 DEF a, b, R

\* Of an empty set it lists nothing.
LEMMA InOrderEmpty == InOrder({}) = << >>
<1>1. Cardinality({}) = 0
  BY FS_EmptySet
<1> QED
  BY <1>1 DEF InOrder
=============================================================================

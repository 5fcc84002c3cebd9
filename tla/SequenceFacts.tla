---------------------------- MODULE SequenceFacts ----------------------------
(***************************************************************************)
(* Lemmas about sequences that the proofs of several components need: the  *)
(* induction principle they use, and what FlattenSeq, a recursive function *)
(* of the community modules, makes of a sequence of sequences.             *)
(***************************************************************************)
EXTENDS SequencesExt, SequenceTheorems, WellFoundedInduction, TLAPS

\* A non-empty set of naturals has a least element: the induction principle
\* that the proofs about positions and counts use.
LEMMA NatMin ==
  ASSUME NEW T, T \subseteq Nat, T # {}
  PROVE  \E x \in T : \A y \in T : x <= y
<1> DEFINE R == OpToRel(<, Nat)
<1>1. \A x, y \in Nat : x < y => << x, y >> \in R
  BY DEF OpToRel
<1>2. IsWellFoundedOn(R, Nat)
  BY NatLessThanWellFounded
<1> HIDE DEF R
<1>3. PICK x \in T : \A y \in T : ~ (<< y, x >> \in R)
  BY <1>2, WFMin
<1>4. ASSUME NEW y \in T PROVE x <= y
  <2>1. x \in Nat /\ y \in Nat
    OBVIOUS
  <2>2. ~ (y < x)
    BY <1>1, <1>3, <2>1
  <2> QED
    BY <2>1, <2>2
<1> QED
  BY <1>4

\* A bounded one has a greatest element.
LEMMA NatMax ==
  ASSUME NEW N \in Nat, NEW T, T \subseteq 0 .. N, T # {}
  PROVE  \E x \in T : \A y \in T : y <= x
<1> DEFINE U == { n \in Nat : \A y \in T : y <= n }
<1>1. N \in U
  OBVIOUS
<1>2. PICK n \in U : \A m \in U : n <= m
  BY <1>1, NatMin
<1>3. n \in Nat /\ \A y \in T : y <= n
  BY <1>2
<1>4. n \in T
  <2> SUFFICES ASSUME n \notin T PROVE FALSE
    OBVIOUS
  <2>1. PICK y \in T : TRUE
    OBVIOUS
  <2>2. n # 0 /\ n - 1 \in Nat
    BY <1>3, <2>1
  <2>3. \A z \in T : z <= n - 1
    BY <1>3
  <2>4. n - 1 \in U /\ ~ (n <= n - 1)
    BY <1>3, <2>2, <2>3
  <2> HIDE DEF U
  <2> QED
    BY <1>2, <2>4
<1> QED
  BY <1>3, <1>4

-----------------------------------------------------------------------------
\* FlattenSeq goes through the prefixes of a sequence: a function gives what
\* has been put together after each of them.
IsFlattening(f, seqs) ==
  f = [ i \in 1 .. Len(seqs) |-> IF i = 1 THEN seqs[i] ELSE f[i - 1] \o seqs[i] ]

\* There is such a function: the longest prefix that has one is everything.
LEMMA FlatteningExists ==
  ASSUME NEW seqs, Len(seqs) \in Nat
  PROVE  \E f : IsFlattening(f, seqs)
<1> DEFINE N == Len(seqs)
           Upto(f, n) == f = [ i \in 1 .. n |-> IF i = 1 THEN seqs[i] ELSE f[i - 1] \o seqs[i] ]
           T == { n \in Nat : ~ \E f : Upto(f, n) }
<1>1. T = {}
  <2> SUFFICES ASSUME T # {} PROVE FALSE
    OBVIOUS
  <2>1. PICK n \in T : \A m \in T : n <= m
    BY NatMin
  <2>2. n # 0
    <3>1. Upto([ i \in 1 .. 0 |-> << >> ], 0)
      OBVIOUS
    <3> QED
      BY <3>1
  <2>3. n \in Nat /\ n - 1 \in Nat
    BY <2>1, <2>2
  <2>4. PICK f : Upto(f, n - 1)
    <3>1. n - 1 \notin T
      <4> HIDE DEF T
      <4> QED
        BY <2>1, <2>3
    <3> QED
      BY <2>3, <3>1
  <2> DEFINE last == IF n = 1 THEN seqs[n] ELSE f[n - 1] \o seqs[n]
             g == [ i \in 1 .. n |-> IF i = n THEN last ELSE f[i] ]
  <2>5. \A i \in 1 .. n - 1 : f[i] = IF i = 1 THEN seqs[i] ELSE f[i - 1] \o seqs[i]
    BY <2>4
  <2>6. \A i \in 1 .. n : g[i] = IF i = 1 THEN seqs[i] ELSE g[i - 1] \o seqs[i]
    <3> SUFFICES ASSUME NEW i \in 1 .. n
                 PROVE  g[i] = IF i = 1 THEN seqs[i] ELSE g[i - 1] \o seqs[i]
      OBVIOUS
    <3>1. i # 1 => i - 1 \in 1 .. n /\ i - 1 # n /\ g[i - 1] = f[i - 1]
      BY <2>3
    <3>2. i # n => i \in 1 .. n - 1
      BY <2>3
    <3>3. g[i] = IF i = n THEN last ELSE f[i]
      OBVIOUS
    <3> HIDE DEF g
    <3> QED
      BY <2>5, <3>1, <3>2, <3>3
  <2>7. g = [ i \in 1 .. n |-> g[i] ]
    OBVIOUS
  <2> HIDE DEF g
  <2>8. Upto(g, n)
    BY <2>6, <2>7
  <2> HIDE DEF Upto
  <2> QED
    BY <2>1, <2>8
<1>2. N \notin T
  BY <1>1
<1> QED
  BY <1>2 DEF IsFlattening

\* So FlattenSeq is the last value of one, and every prefix but the first is
\* put together from the one before it.
LEMMA FlattenSeqDef ==
  ASSUME NEW seqs, Len(seqs) \in Nat \ {0}
  PROVE  \E f : IsFlattening(f, seqs) /\ FlattenSeq(seqs) = f[Len(seqs)]
<1> DEFINE N == Len(seqs)
           flat == CHOOSE f : f = [ i \in 1 .. N |-> IF i = 1 THEN seqs[i] ELSE f[i - 1] \o seqs[i] ]
<1>1. IsFlattening(flat, seqs)
  BY FlatteningExists DEF IsFlattening
<1>2. FlattenSeq(seqs) = flat[N]
  BY DEF FlattenSeq
<1> QED
  BY <1>1, <1>2

-----------------------------------------------------------------------------
\* The subsequence of s at the positions of T, in the order of s: where each
\* of its elements stands in s grows with its position.
IsAt(e, s, T, r) ==
  /\ e \in [ 1 .. Len(r) -> T ]
  /\ \A k \in 1 .. Len(r) : r[k] = s[e[k]]
  /\ \A j, k \in 1 .. Len(r) : j < k => e[j] < e[k]
  /\ \A n \in T : \E k \in 1 .. Len(r) : e[k] = n

\* One step of a selection: the element after those up to position n is taken
\* or left out.
LEMMA SelectNext ==
  ASSUME NEW O, NEW s \in Seq(O), NEW T \in SUBSET (1 .. Len(s)), NEW n \in Nat, n + 1 \in 1 .. Len(s),
         NEW r \in Seq(O), NEW e, IsAt(e, s, T \cap (1 .. n), r),
         NEW piece, piece = IF n + 1 \in T THEN << s[n + 1] >> ELSE << >>
  PROVE  /\ r \o piece \in Seq(O)
         /\ \E f : IsAt(f, s, T \cap (1 .. n + 1), r \o piece)
<1> DEFINE m == n + 1
           L == Len(r)
<1>1. T \cap (1 .. m) = (T \cap (1 .. n)) \cup (IF m \in T THEN {m} ELSE {})
  OBVIOUS
<1>2. CASE m \notin T
  <2>1. r \o piece = r
    BY <1>2
  <2> QED
    BY <1>1, <1>2, <2>1
<1>3. CASE m \in T
  <2>1. piece \in Seq(O) /\ Len(piece) = 1 /\ piece[1] = s[m]
    BY <1>3
  <2>2. /\ r \o piece \in Seq(O) /\ Len(r \o piece) = L + 1 /\ L \in Nat
        /\ (r \o piece)[L + 1] = s[m]
        /\ \A k \in 1 .. L : (r \o piece)[k] = r[k]
    BY <2>1
  <2> DEFINE w == r \o piece
             f == [ k \in 1 .. L + 1 |-> IF k = L + 1 THEN m ELSE e[k] ]
  <2>3. f[L + 1] = m /\ \A k \in 1 .. L : f[k] = e[k] /\ f[k] \in T \cap (1 .. n)
    <3>1. L + 1 \in 1 .. L + 1 /\ \A k \in 1 .. L : k \in 1 .. L + 1 /\ k # L + 1
      BY <2>2
    <3>2. \A k \in 1 .. L : e[k] \in T \cap (1 .. n)
      BY DEF IsAt
    <3> HIDE DEF L
    <3> QED
      BY <3>1, <3>2
  <2>4. DOMAIN f = 1 .. L + 1 /\ f = [ k \in 1 .. L + 1 |-> f[k] ]
    OBVIOUS
  <2> HIDE DEF f, w, L
  <2>5. \A k \in 1 .. L + 1 : k \in 1 .. L \/ k = L + 1
    BY <2>2
  <2>6. Len(w) = L + 1
    BY <2>2 DEF w
  <2>7. f \in [ 1 .. L + 1 -> T \cap (1 .. m) ]
    BY <1>1, <1>3, <2>3, <2>4, <2>5
  <2>8. \A k \in 1 .. L + 1 : w[k] = s[f[k]]
    BY <2>2, <2>3, <2>5 DEF IsAt, w, L
  <2>9. \A j, k \in 1 .. L + 1 : j < k => f[j] < f[k]
    <3> SUFFICES ASSUME NEW j \in 1 .. L + 1, NEW k \in 1 .. L + 1, j < k PROVE f[j] < f[k]
      OBVIOUS
    <3>1. j \in 1 .. L
      BY <2>2
    <3>2. CASE k = L + 1
      BY <2>3, <3>1, <3>2
    <3>3. CASE k \in 1 .. L
      BY <2>3, <3>1, <3>3 DEF IsAt, L
    <3> QED
      BY <2>5, <3>2, <3>3
  <2>10. \A i \in T \cap (1 .. m) : \E k \in 1 .. L + 1 : f[k] = i
    <3> SUFFICES ASSUME NEW i \in T \cap (1 .. m) PROVE \E k \in 1 .. L + 1 : f[k] = i
      OBVIOUS
    <3>1. CASE i = m
      BY <2>2, <2>3, <3>1
    <3>2. CASE i # m
      <4>1. PICK k \in 1 .. L : e[k] = i
        BY <1>1, <3>2 DEF IsAt, L
      <4>2. k \in 1 .. L + 1
        BY <2>2
      <4> QED
        BY <2>3, <4>1, <4>2
    <3> QED
      BY <3>1, <3>2
  <2>11. IsAt(f, s, T \cap (1 .. m), w)
    <3> HIDE DEF m
    <3> QED
      BY <2>6, <2>7, <2>8, <2>9, <2>10 DEF IsAt
  <2> QED
    BY <2>2, <2>11 DEF w
<1> QED
  BY <1>2, <1>3

\* Flattening the pieces of a sequence, each of them an element of it or
\* nothing, selects a subsequence of it.
LEMMA FlattenSelects ==
  ASSUME NEW O, NEW s \in Seq(O), NEW T \in SUBSET (1 .. Len(s)), NEW pieces,
         pieces = [ n \in DOMAIN s |-> IF n \in T THEN << s[n] >> ELSE << >> ]
  PROVE  FlattenSeq(pieces) \in Seq(O) /\ \E e : IsAt(e, s, T, FlattenSeq(pieces))
<1> DEFINE N == Len(s)
<1>1. N \in Nat /\ DOMAIN s = 1 .. N
  OBVIOUS
<1>2. Len(pieces) = N
  <2>1. \A n \in 1 .. N : s[n] \in O
    OBVIOUS
  <2>2. \A n \in 1 .. N : pieces[n] \in Seq(O)
    BY <1>1, <2>1
  <2>3. pieces \in [ 1 .. N -> Seq(O) ]
    BY <1>1, <2>2
  <2> QED
    BY <1>1, <2>3
<1>3. CASE N = 0
  <2>1. FlattenSeq(pieces) = << >>
    <3>1. Len(pieces) = 0 /\ pieces = << >>
      BY <1>1, <1>2, <1>3
    <3> QED
      BY <3>1 DEF FlattenSeq
  <2>2. T = {}
    BY <1>3
  <2>3. IsAt(<< >>, s, T, << >>)
    BY <2>2 DEF IsAt
  <2>4. << >> \in Seq(O)
    OBVIOUS
  <2> HIDE DEF N
  <2> QED
    BY <2>1, <2>3, <2>4
<1>4. CASE N # 0
  <2>1. PICK f : IsFlattening(f, pieces) /\ FlattenSeq(pieces) = f[N]
    BY <1>1, <1>2, <1>4, FlattenSeqDef
  <2> DEFINE Good(n) == f[n] \in Seq(O) /\ \E e : IsAt(e, s, T \cap (1 .. n), f[n])
             Bad == { n \in 1 .. N : ~ Good(n) }
  <2>2. \A n \in 1 .. N : pieces[n] = IF n \in T THEN << s[n] >> ELSE << >>
    BY <1>1
  <2>3. \A n \in 1 .. N : f[n] = IF n = 1 THEN pieces[n] ELSE f[n - 1] \o pieces[n]
    BY <1>2, <2>1 DEF IsFlattening
  <2>4. f[1] = << >> \o pieces[1]
    <3>1. 1 \in 1 .. N
      BY <1>1, <1>4
    <3>2. pieces[1] \in Seq(O)
      BY <2>2, <3>1
    <3>3. << >> \o pieces[1] = pieces[1]
      <4> DEFINE p == pieces[1]
      <4> HIDE DEF p
      <4>1. << >> \o p = p
        BY <3>2 DEF p
      <4> QED
        BY <4>1 DEF p
    <3> QED
      BY <2>3, <3>1, <3>3
  <2>5. << >> \in Seq(O) /\ IsAt(<< >>, s, T \cap (1 .. 0), << >>)
    BY DEF IsAt
  <2>6. Good(1)
    <3>1. 0 \in Nat /\ 0 + 1 \in 1 .. Len(s) /\ 0 + 1 = 1
      BY <1>1, <1>4
    <3>2. pieces[1] = IF 0 + 1 \in T THEN << s[0 + 1] >> ELSE << >>
      BY <2>2, <3>1
    <3>3. /\ << >> \o pieces[1] \in Seq(O)
          /\ \E e : IsAt(e, s, T \cap (1 .. 0 + 1), << >> \o pieces[1])
      <4> HIDE DEF Good, N
      <4> QED
        BY <2>5, <3>1, <3>2, SelectNext
    <3> QED
      BY <2>4, <3>1, <3>3
  <2>7. Bad = {}
    <3> SUFFICES ASSUME Bad # {} PROVE FALSE
      OBVIOUS
    <3>1. Bad \subseteq Nat
      BY <1>1
    <3>2. PICK n \in Bad : \A m \in Bad : n <= m
      BY <3>1, NatMin
    <3>3. n \in 1 .. N /\ n # 1 /\ ~ Good(n)
      BY <2>6, <3>2
    <3> HIDE DEF Good, Bad
    <3>4. n - 1 \in 1 .. N /\ n - 1 \in Nat /\ (n - 1) + 1 = n
      BY <1>1, <3>3
    <3>5. Good(n - 1)
      <4>1. n - 1 \notin Bad
        BY <3>2, <3>4
      <4> QED
        BY <3>4, <4>1 DEF Bad
    <3> DEFINE before == n - 1
    <3>6. PICK e : f[before] \in Seq(O) /\ IsAt(e, s, T \cap (1 .. before), f[before])
      BY <3>5 DEF Good
    <3>7. /\ before \in Nat /\ before + 1 \in 1 .. Len(s) /\ before + 1 = n
          /\ f[n] = f[before] \o pieces[n]
          /\ pieces[n] = IF before + 1 \in T THEN << s[before + 1] >> ELSE << >>
      BY <2>2, <2>3, <3>3, <3>4
    <3> HIDE DEF before
    <3>8. /\ f[before] \o pieces[n] \in Seq(O)
          /\ \E g : IsAt(g, s, T \cap (1 .. before + 1), f[before] \o pieces[n])
      BY <3>6, <3>7, SelectNext
    <3>9. f[n] \in Seq(O) /\ \E g : IsAt(g, s, T \cap (1 .. n), f[n])
      BY <3>7, <3>8
    <3>10. Good(n)
      BY <3>9 DEF Good
    <3> QED
      BY <3>3, <3>10
  <2>8. Good(N)
    <3>1. N \in 1 .. N
      BY <1>1, <1>4
    <3> HIDE DEF Good
    <3> QED
      BY <2>7, <3>1
  <2>9. T \cap (1 .. N) = T
    BY <1>1
  <2> QED
    BY <2>1, <2>8, <2>9
<1> QED
  BY <1>3, <1>4

\* Two selections, one after the other.
LEMMA IsAtConcat ==
  ASSUME NEW O, NEW s \in Seq(O), NEW t \in Seq(O), NEW q \in Seq(O), NEW r \in Seq(O),
         NEW T \in SUBSET (1 .. Len(s)), NEW U \in SUBSET (1 .. Len(t)),
         NEW e, IsAt(e, s, T, q), NEW f, IsAt(f, t, U, r)
  PROVE  \E g : IsAt(g, s \o t, T \cup { Len(s) + n : n \in U }, q \o r)
<1> DEFINE N == Len(s)
           L == Len(q)
           K == Len(r)
           V == T \cup { N + n : n \in U }
           g == [ k \in 1 .. L + K |-> IF k <= L THEN e[k] ELSE N + f[k - L] ]
           w == q \o r
           z == s \o t
<1>1. N \in Nat /\ L \in Nat /\ K \in Nat /\ Len(t) \in Nat
  OBVIOUS
<1>2. Len(w) = L + K /\ (\A k \in 1 .. L : w[k] = q[k]) /\ \A k \in 1 .. K : w[L + k] = r[k]
  OBVIOUS
<1>3. (\A n \in 1 .. N : z[n] = s[n]) /\ \A n \in 1 .. Len(t) : z[N + n] = t[n]
  OBVIOUS
<1>4. \A k \in 1 .. L : e[k] \in T /\ e[k] \in 1 .. N /\ q[k] = s[e[k]]
  BY DEF IsAt
<1>5. \A k \in 1 .. K : f[k] \in U /\ f[k] \in 1 .. Len(t) /\ r[k] = t[f[k]]
  BY DEF IsAt
<1>6. \A j, k \in 1 .. L : j < k => e[j] < e[k]
  BY DEF IsAt
<1>7. \A j, k \in 1 .. K : j < k => f[j] < f[k]
  BY DEF IsAt
<1>8. (\A n \in T : \E k \in 1 .. L : e[k] = n) /\ \A n \in U : \E k \in 1 .. K : f[k] = n
  BY DEF IsAt
<1>9. \A k \in 1 .. L : k \in 1 .. L + K /\ g[k] = e[k]
  BY <1>1
<1>10. \A k \in 1 .. K : L + k \in 1 .. L + K /\ g[L + k] = N + f[k]
  <2> SUFFICES ASSUME NEW k \in 1 .. K PROVE L + k \in 1 .. L + K /\ g[L + k] = N + f[k]
    OBVIOUS
  <2>1. L + k \in 1 .. L + K /\ ~ (L + k <= L) /\ (L + k) - L = k
    BY <1>1
  <2> HIDE DEF N, L, K
  <2> QED
    BY <2>1
<1>11. \A k \in 1 .. L + K : k \in 1 .. L \/ \E j \in 1 .. K : k = L + j
  <2> SUFFICES ASSUME NEW k \in 1 .. L + K, k \notin 1 .. L PROVE \E j \in 1 .. K : k = L + j
    OBVIOUS
  <2>1. k - L \in 1 .. K /\ k = L + (k - L)
    BY <1>1
  <2> QED
    BY <2>1
<1>12. DOMAIN g = 1 .. L + K /\ g = [ k \in 1 .. L + K |-> g[k] ]
  OBVIOUS
<1> HIDE DEF g, w, z, N, L, K
<1>13. \A k \in 1 .. L + K : g[k] \in V /\ w[k] = z[g[k]]
  <2> SUFFICES ASSUME NEW k \in 1 .. L + K PROVE g[k] \in V /\ w[k] = z[g[k]]
    OBVIOUS
  <2>1. CASE k \in 1 .. L
    BY <1>2, <1>3, <1>4, <1>9, <2>1
  <2>2. CASE k \notin 1 .. L
    <3>1. PICK j \in 1 .. K : k = L + j
      BY <1>11, <2>2
    <3>2. g[k] = N + f[j] /\ w[k] = r[j] /\ r[j] = t[f[j]] /\ z[N + f[j]] = t[f[j]] /\ f[j] \in U
      BY <1>2, <1>3, <1>5, <1>10, <3>1
    <3> QED
      BY <3>2
  <2> QED
    BY <2>1, <2>2
<1>14. \A j, k \in 1 .. L + K : j < k => g[j] < g[k]
  <2> SUFFICES ASSUME NEW j \in 1 .. L + K, NEW k \in 1 .. L + K, j < k PROVE g[j] < g[k]
    OBVIOUS
  <2>1. CASE k \in 1 .. L
    <3>1. j \in 1 .. L
      BY <1>1, <2>1
    <3> QED
      BY <1>6, <1>9, <2>1, <3>1
  <2>2. CASE k \notin 1 .. L
    <3>1. PICK b \in 1 .. K : k = L + b
      BY <1>11, <2>2
    <3>2. g[k] = N + f[b] /\ f[b] \in 1 .. Len(t)
      BY <1>5, <1>10, <3>1
    <3>3. CASE j \in 1 .. L
      BY <1>1, <1>4, <1>9, <3>2, <3>3
    <3>4. CASE j \notin 1 .. L
      <4>1. PICK a \in 1 .. K : j = L + a
        BY <1>11, <3>4
      <4>2. a < b /\ g[j] = N + f[a] /\ f[a] \in 1 .. Len(t)
        BY <1>1, <1>5, <1>10, <3>1, <4>1
      <4>3. f[a] < f[b]
        BY <1>7, <4>2
      <4> QED
        BY <1>1, <3>2, <4>2, <4>3
    <3> QED
      BY <3>3, <3>4
  <2> QED
    BY <2>1, <2>2
<1>15. \A n \in V : \E k \in 1 .. L + K : g[k] = n
  <2> SUFFICES ASSUME NEW n \in V PROVE \E k \in 1 .. L + K : g[k] = n
    OBVIOUS
  <2>1. CASE n \in T
    BY <1>8, <1>9, <2>1
  <2>2. CASE n \notin T
    <3>1. PICK m \in U : n = N + m
      BY <2>2
    <3>2. PICK k \in 1 .. K : f[k] = m
      BY <1>8
    <3> QED
      BY <1>10, <3>1, <3>2
  <2> QED
    BY <2>1, <2>2
<1>16. IsAt(g, z, V, w)
  <2>1. g \in [ 1 .. L + K -> V ]
    BY <1>12, <1>13
  <2> HIDE DEF V
  <2> QED
    BY <1>2, <1>13, <1>14, <1>15, <2>1 DEF IsAt
<1> QED
  BY <1>16 DEF z, V, w, N

\* The first of a selection comes before the others, which its tail selects.
LEMMA IsAtTail ==
  ASSUME NEW O, NEW s \in Seq(O), NEW r \in Seq(O), r # << >>,
         NEW T \in SUBSET (1 .. Len(s)), NEW e, IsAt(e, s, T, r)
  PROVE  \E n \in T : /\ Head(r) = s[n] /\ \A m \in T \ {n} : n < m
                      /\ \E f : IsAt(f, s, T \ {n}, Tail(r))
<1> DEFINE L == Len(r)
           n == e[1]
           f == [ k \in 1 .. L - 1 |-> e[k + 1] ]
           w == Tail(r)
<1>1. L \in Nat /\ 1 \in 1 .. L
  OBVIOUS
<1>2. /\ e \in [ 1 .. L -> T ] /\ \A k \in 1 .. L : r[k] = s[e[k]]
      /\ \A j, k \in 1 .. L : j < k => e[j] < e[k]
      /\ \A m \in T : \E k \in 1 .. L : e[k] = m
  BY DEF IsAt
<1>3. Head(r) = r[1] /\ Len(w) = L - 1 /\ \A k \in 1 .. L - 1 : w[k] = r[k + 1]
  OBVIOUS
<1>4. \A k \in 1 .. L - 1 : k + 1 \in 1 .. L /\ 1 < k + 1 /\ f[k] = e[k + 1]
  BY <1>1
<1>5. \A k \in 1 .. L : k # 1 => k - 1 \in 1 .. L - 1 /\ (k - 1) + 1 = k
  BY <1>1
<1>6. DOMAIN f = 1 .. L - 1 /\ f = [ k \in 1 .. L - 1 |-> f[k] ]
  OBVIOUS
<1> HIDE DEF f, w, L
<1>7. n \in T /\ \A k \in 1 .. L : e[k] \in Int
  <2>1. \A k \in 1 .. L : e[k] \in T
    BY <1>2
  <2>2. \A m \in T : m \in Int
    OBVIOUS
  <2> QED
    BY <1>1, <2>1, <2>2
<1>8. \A k \in 1 .. L - 1 : f[k] \in T /\ n < f[k] /\ f[k] # n
  BY <1>1, <1>2, <1>4, <1>7
<1>9. \A m \in T \ {n} : \E k \in 1 .. L - 1 : f[k] = m
  <2> SUFFICES ASSUME NEW m \in T \ {n} PROVE \E k \in 1 .. L - 1 : f[k] = m
    OBVIOUS
  <2>1. PICK k \in 1 .. L : e[k] = m
    BY <1>2
  <2>2. k - 1 \in 1 .. L - 1 /\ (k - 1) + 1 = k
    BY <1>5, <2>1
  <2> QED
    BY <1>4, <2>1, <2>2
<1>10. \A m \in T \ {n} : n < m
  BY <1>8, <1>9
<1>11. \A k \in 1 .. L - 1 : w[k] = s[f[k]]
  BY <1>2, <1>3, <1>4
<1>12. \A j, k \in 1 .. L - 1 : j < k => f[j] < f[k]
  <2> SUFFICES ASSUME NEW j \in 1 .. L - 1, NEW k \in 1 .. L - 1, j < k PROVE f[j] < f[k]
    OBVIOUS
  <2>1. j + 1 \in 1 .. L /\ k + 1 \in 1 .. L /\ j + 1 < k + 1
    BY <1>1, <1>4
  <2> QED
    BY <1>2, <1>4, <2>1
<1>13. f \in [ 1 .. L - 1 -> T \ {n} ]
  <2> HIDE DEF n
  <2> QED
    BY <1>6, <1>8
<1>14. IsAt(f, s, T \ {n}, w)
  <2> HIDE DEF n
  <2> QED
    BY <1>3, <1>9, <1>11, <1>12, <1>13 DEF IsAt
<1> QED
  BY <1>1, <1>2, <1>3, <1>7, <1>10, <1>14 DEF w

\* What is put together from sequences over S is a sequence over S.
LEMMA FlattenType ==
  ASSUME NEW S, NEW seqs \in Seq(Seq(S))
  PROVE  FlattenSeq(seqs) \in Seq(S)
<1> DEFINE N == Len(seqs)
<1>1. N \in Nat /\ \A n \in 1 .. N : seqs[n] \in Seq(S)
  OBVIOUS
<1>2. CASE N = 0
  <2>1. seqs = << >>
    BY <1>2
  <2>2. FlattenSeq(seqs) = seqs
    BY <1>2 DEF FlattenSeq
  <2>3. << >> \in Seq(S)
    OBVIOUS
  <2> QED
    BY <2>1, <2>2, <2>3
<1>3. CASE N # 0
  <2>1. PICK f : IsFlattening(f, seqs) /\ FlattenSeq(seqs) = f[N]
    BY <1>1, <1>3, FlattenSeqDef
  <2>2. \A n \in 1 .. N : f[n] = IF n = 1 THEN seqs[n] ELSE f[n - 1] \o seqs[n]
    BY <2>1 DEF IsFlattening
  <2> DEFINE Bad == { n \in 1 .. N : f[n] \notin Seq(S) }
  <2>3. Bad = {}
    <3> SUFFICES ASSUME Bad # {} PROVE FALSE
      OBVIOUS
    <3>1. PICK n \in Bad : \A m \in Bad : n <= m
      <4>1. Bad \subseteq Nat
        BY <1>1
      <4> QED
        BY <4>1, NatMin
    <3>2. n \in 1 .. N /\ f[n] \notin Seq(S) /\ seqs[n] \in Seq(S)
      BY <1>1, <3>1
    <3>3. n # 1
      BY <2>2, <3>2
    <3> HIDE DEF Bad
    <3>4. n - 1 \in 1 .. N /\ n - 1 \notin Bad
      BY <1>1, <3>1, <3>2, <3>3
    <3>5. f[n - 1] \in Seq(S)
      BY <3>4 DEF Bad
    <3>6. f[n] = f[n - 1] \o seqs[n]
      BY <2>2, <3>2, <3>3
    <3> QED
      BY <3>2, <3>5, <3>6
  <2>4. N \in 1 .. N
    BY <1>1, <1>3
  <2> QED
    BY <2>1, <2>3, <2>4
<1> QED
  BY <1>2, <1>3

\* A selection is not longer than what it is taken from, and not empty if
\* anything is selected.
LEMMA IsAtLength ==
  ASSUME NEW O, NEW s \in Seq(O), NEW r \in Seq(O), NEW T \in SUBSET (1 .. Len(s)),
         NEW e, IsAt(e, s, T, r)
  PROVE  Len(r) <= Len(s) /\ (T # {} => Len(r) >= 1)
<1> DEFINE N == Len(s)
           L == Len(r)
           Bad == { k \in 1 .. L : e[k] < k }
<1>1. N \in Nat /\ L \in Nat
  OBVIOUS
<1>2. /\ \A k \in 1 .. L : e[k] \in T /\ e[k] \in 1 .. N
      /\ \A j, k \in 1 .. L : j < k => e[j] < e[k]
      /\ \A n \in T : \E k \in 1 .. L : e[k] = n
  BY DEF IsAt
<1> HIDE DEF N, L
<1>3. Bad = {}
  <2> SUFFICES ASSUME Bad # {} PROVE FALSE
    OBVIOUS
  <2>1. Bad \subseteq Nat
    BY <1>1
  <2>2. PICK k \in Bad : \A j \in Bad : k <= j
    BY <2>1, NatMin
  <2>3. k \in 1 .. L /\ e[k] \in 1 .. N /\ e[k] < k
    BY <1>2, <2>2
  <2>4. k # 1
    BY <1>1, <2>3
  <2> HIDE DEF Bad
  <2>5. k - 1 \in 1 .. L /\ k - 1 < k /\ k - 1 \notin Bad
    BY <1>1, <2>2, <2>3, <2>4
  <2>6. ~ (e[k - 1] < k - 1) /\ e[k - 1] < e[k] /\ e[k - 1] \in 1 .. N
    BY <1>2, <2>3, <2>5 DEF Bad
  <2> QED
    BY <1>1, <2>3, <2>5, <2>6
<1>4. L <= N
  <2>1. CASE L = 0
    BY <1>1, <2>1
  <2>2. CASE L # 0
    <3>1. L \in 1 .. L
      BY <1>1, <2>2
    <3>2. e[L] \in 1 .. N /\ ~ (e[L] < L)
      BY <1>2, <1>3, <3>1
    <3> QED
      BY <1>1, <3>2
  <2> QED
    BY <2>1, <2>2
<1>5. ASSUME T # {} PROVE L >= 1
  <2>1. PICK n \in T : TRUE
    BY <1>5
  <2>2. PICK k \in 1 .. L : e[k] = n
    BY <1>2
  <2> QED
    BY <1>1, <2>2
<1> QED
  BY <1>4, <1>5 DEF N, L

-----------------------------------------------------------------------------
\* One step of a sum, as FoldLeft takes it: the element at the last of a set
\* of positions is added to the sum of those before it.
SumNext(s, f, S) == IF S = {} THEN 0 ELSE f[S \ {Max(S)}] + s[Max(S)]

LEMMA MaxIs ==
  ASSUME NEW n \in Nat \ {0}, NEW S, S \subseteq 1 .. n, n \in S
  PROVE  Max(S) = n
<1>1. n \in S /\ \A y \in S : n >= y
  OBVIOUS
<1>2. \A x \in S : (\A y \in S : x >= y) => x = n
  OBVIOUS
<1> QED
  BY <1>1, <1>2 DEF Max

\* There is a sum of every set of positions: by the last of them.
LEMMA SumExists ==
  ASSUME NEW s, NEW N \in Nat
  PROVE  \E f : f = [ S \in SUBSET (1 .. N) |-> SumNext(s, f, S) ]
<1> DEFINE Upto(f, n) == f = [ S \in SUBSET (1 .. N) |-> IF S \subseteq 1 .. n THEN SumNext(s, f, S) ELSE 0 ]
           T == { n \in 0 .. N : ~ \E f : Upto(f, n) }
<1>1. T = {}
  <2> SUFFICES ASSUME T # {} PROVE FALSE
    OBVIOUS
  <2>1. PICK n \in T : \A m \in T : n <= m
    <3>1. T \subseteq Nat
      OBVIOUS
    <3> HIDE DEF T
    <3> QED
      BY <3>1, NatMin
  <2>2. n # 0
    <3> DEFINE none == [ S \in SUBSET (1 .. N) |-> 0 ]
    <3>1. \A S : S \subseteq 1 .. 0 => SumNext(s, none, S) = 0
      <4> SUFFICES ASSUME NEW S, S \subseteq 1 .. 0 PROVE SumNext(s, none, S) = 0
        OBVIOUS
      <4>1. S = {}
        OBVIOUS
      <4> QED
        BY <4>1 DEF SumNext
    <3>2. Upto(none, 0)
      <4>1. \A S \in SUBSET (1 .. N) : (IF S \subseteq 1 .. 0 THEN SumNext(s, none, S) ELSE 0) = 0
        BY <3>1
      <4> QED
        BY <4>1
    <3> HIDE DEF Upto
    <3> QED
      BY <3>2
  <2>3. n \in 1 .. N /\ n - 1 \in 0 .. N
    BY <2>1, <2>2
  <2>4. PICK f : Upto(f, n - 1)
    <3>1. n - 1 \notin T
      <4> HIDE DEF T
      <4> QED
        BY <2>1, <2>3
    <3> QED
      BY <2>3, <3>1
  <2> DEFINE g == [ S \in SUBSET (1 .. N) |-> IF S \subseteq 1 .. n /\ n \in S
                                             THEN f[S \ {n}] + s[n] ELSE f[S] ]
  <2>5. \A S \in SUBSET (1 .. N) : f[S] = IF S \subseteq 1 .. n - 1 THEN SumNext(s, f, S) ELSE 0
    BY <2>4
  <2>6. \A S \in SUBSET (1 .. N) : g[S] = IF S \subseteq 1 .. n /\ n \in S
                                         THEN f[S \ {n}] + s[n] ELSE f[S]
    OBVIOUS
  <2>7. g = [ S \in SUBSET (1 .. N) |-> g[S] ]
    OBVIOUS
  <2> HIDE DEF g
  <2>8. ASSUME NEW S \in SUBSET (1 .. N)
        PROVE  g[S] = IF S \subseteq 1 .. n THEN SumNext(s, g, S) ELSE 0
    <3>1. CASE S \subseteq 1 .. n /\ n \in S
      <4>1. Max(S) = n
        <5>1. n \in Nat \ {0}
          BY <2>3
        <5> QED
          BY <3>1, <5>1, MaxIs
      <4>2. S \ {n} \in SUBSET (1 .. N) /\ n \notin S \ {n}
        OBVIOUS
      <4>3. g[S \ {n}] = f[S \ {n}]
        BY <2>6, <4>2
      <4>4. SumNext(s, g, S) = g[S \ {n}] + s[n]
        BY <3>1, <4>1 DEF SumNext
      <4> QED
        BY <2>6, <3>1, <4>3, <4>4
    <3>2. CASE S \subseteq 1 .. n /\ n \notin S
      <4>1. S \subseteq 1 .. n - 1
        BY <2>3, <3>2
      <4>2. g[S] = f[S] /\ f[S] = SumNext(s, f, S)
        BY <2>5, <2>6, <3>2, <4>1
      <4>3. g[S \ {Max(S)}] = f[S \ {Max(S)}]
        <5>1. S \ {Max(S)} \in SUBSET (1 .. N) /\ n \notin S \ {Max(S)}
          BY <3>2
        <5> QED
          BY <2>6, <5>1
      <4>4. SumNext(s, g, S) = SumNext(s, f, S)
        BY <4>3 DEF SumNext
      <4> QED
        BY <3>2, <4>2, <4>4
    <3>3. CASE ~ (S \subseteq 1 .. n)
      <4>1. ~ (S \subseteq 1 .. n - 1)
        BY <2>3, <3>3
      <4> QED
        BY <2>5, <2>6, <3>3, <4>1
    <3> QED
      BY <3>1, <3>2, <3>3
  <2>9. Upto(g, n)
    BY <2>7, <2>8
  <2> HIDE DEF Upto
  <2> QED
    BY <2>1, <2>9
<1>2. PICK f : Upto(f, N)
  <2>1. N \in 0 .. N
    OBVIOUS
  <2>2. N \notin T
    BY <1>1
  <2> QED
    BY <2>1, <2>2
<1>3. f = [ S \in SUBSET (1 .. N) |-> SumNext(s, f, S) ]
  BY <1>2
<1> QED
  BY <1>3

\* A sum goes through the positions.
LEMMA SumByPosition ==
  ASSUME NEW s \in Seq(Nat)
  PROVE  \E g : /\ FoldLeft(+, 0, s) = g[Len(s)]
                /\ g[0] = 0 /\ \A n \in 1 .. Len(s) : g[n] = g[n - 1] + s[n]
<1> DEFINE N == Len(s)
           f == CHOOSE h : h = [ S \in SUBSET DOMAIN s |-> SumNext(s, h, S) ]
           g == [ n \in 0 .. N |-> f[1 .. n] ]
<1>1. N \in Nat /\ DOMAIN s = 1 .. N
  OBVIOUS
<1>2. f = [ S \in SUBSET DOMAIN s |-> SumNext(s, f, S) ]
  <2>1. \E h : h = [ S \in SUBSET (1 .. N) |-> SumNext(s, h, S) ]
    BY <1>1, SumExists
  <2>2. \E h : h = [ S \in SUBSET DOMAIN s |-> SumNext(s, h, S) ]
    <3> DEFINE D == DOMAIN s
    <3>1. D = 1 .. N
      BY <1>1
    <3> HIDE DEF D, N
    <3>2. \E h : h = [ S \in SUBSET D |-> SumNext(s, h, S) ]
      BY <2>1, <3>1
    <3> QED
      BY <3>2 DEF D
  <2> QED
    BY <2>2
<1>3. FoldLeft(+, 0, s) = f[DOMAIN s]
  BY DEF FoldLeft, MapThenFoldSet, SumNext
<1> HIDE DEF f, N
<1>4. \A S \in SUBSET (1 .. N) : f[S] = SumNext(s, f, S)
  BY <1>1, <1>2
<1>5. \A n \in 0 .. N : g[n] = f[1 .. n]
  OBVIOUS
<1> HIDE DEF g
<1>6. g[0] = 0
  <2>1. 0 \in 0 .. N /\ 1 .. 0 = {} /\ {} \in SUBSET (1 .. N)
    BY <1>1
  <2>2. f[{}] = 0
    BY <1>4, <2>1 DEF SumNext
  <2> QED
    BY <1>5, <2>1, <2>2
<1>7. ASSUME NEW n \in 1 .. N PROVE g[n] = g[n - 1] + s[n]
  <2> DEFINE all == 1 .. n
  <2>1. n \in Nat \ {0} /\ n \in 0 .. N /\ n - 1 \in 0 .. N
    BY <1>1
  <2>2. all \subseteq 1 .. n /\ n \in all /\ all # {} /\ all \ {n} = 1 .. n - 1
    BY <2>1
  <2>3. all \in SUBSET (1 .. N) /\ all = 1 .. n
    BY <1>1
  <2> HIDE DEF all
  <2>4. Max(all) = n
    BY <2>1, <2>2, MaxIs
  <2>5. f[all] = f[1 .. n - 1] + s[n]
    BY <1>4, <2>2, <2>3, <2>4 DEF SumNext
  <2> QED
    BY <1>5, <2>1, <2>3, <2>5
<1>8. FoldLeft(+, 0, s) = g[N]
  <2>1. N \in 0 .. N
    BY <1>1
  <2> QED
    BY <1>1, <1>3, <1>5, <2>1
<1>9. \E h : /\ FoldLeft(+, 0, s) = h[N]
             /\ h[0] = 0 /\ \A n \in 1 .. N : h[n] = h[n - 1] + s[n]
  BY <1>6, <1>7, <1>8
<1> QED
  BY <1>9 DEF N

\* The sum of naturals is one.
LEMMA SumType ==
  ASSUME NEW s \in Seq(Nat)
  PROVE  FoldLeft(+, 0, s) \in Nat
<1> DEFINE N == Len(s)
<1>1. N \in Nat /\ \A n \in 1 .. N : s[n] \in Nat
  OBVIOUS
<1>2. PICK g : /\ FoldLeft(+, 0, s) = g[N]
               /\ g[0] = 0 /\ \A n \in 1 .. N : g[n] = g[n - 1] + s[n]
  BY SumByPosition
<1> HIDE DEF N
<1> DEFINE Bad == { n \in 0 .. N : g[n] \notin Nat }
<1>3. Bad = {}
  <2> SUFFICES ASSUME Bad # {} PROVE FALSE
    OBVIOUS
  <2>1. PICK n \in Bad : \A m \in Bad : n <= m
    <3>1. Bad \subseteq Nat
      BY <1>1
    <3> HIDE DEF Bad
    <3> QED
      BY <3>1, NatMin
  <2>2. n \in 0 .. N /\ g[n] \notin Nat
    BY <2>1
  <2>3. n # 0
    <3>1. g[0] = 0 /\ 0 \in Nat
      BY <1>2
    <3> QED
      BY <2>2, <3>1
  <2>4. n \in 1 .. N /\ n - 1 \in 0 .. N /\ ~ (n <= n - 1)
    BY <1>1, <2>2, <2>3
  <2>5. n - 1 \notin Bad
    <3> HIDE DEF Bad
    <3> QED
      BY <2>1, <2>4
  <2>6. g[n - 1] \in Nat
    BY <2>4, <2>5
  <2>7. g[n] = g[n - 1] + s[n] /\ s[n] \in Nat
    BY <1>1, <1>2, <2>4
  <2> QED
    BY <2>2, <2>6, <2>7
<1>4. N \in 0 .. N
  BY <1>1
<1> QED
  BY <1>2, <1>3, <1>4

-----------------------------------------------------------------------------
(* FlattenSeq of what is put together *)

LEMMA FlattenEmpty == FlattenSeq(<< >>) = << >>
<1>1. Len(<< >>) = 0
  OBVIOUS
<1> QED
  BY <1>1 DEF FlattenSeq

\* One sequence more.
LEMMA FlattenSnoc ==
  ASSUME NEW S, NEW seqs \in Seq(Seq(S)), NEW x \in Seq(S)
  PROVE  FlattenSeq(seqs \o << x >>) = FlattenSeq(seqs) \o x
<1> DEFINE T == Seq(S)
           N == Len(seqs)
           more == seqs \o << x >>
<1>1. seqs \in Seq(T) /\ x \in T /\ N \in Nat
  OBVIOUS
<1>2. << >> \in T
  OBVIOUS
<1>3. FlattenSeq(seqs) \in T
  BY FlattenType
<1>4. << >> \o x = x
  BY ConcatEmptySeq
<1> HIDE DEF T
<1>5. << x >> \in Seq(T) /\ Len(<< x >>) = 1
  BY <1>1
<1>6. /\ Len(more) = N + 1 /\ more \in Seq(T)
      /\ \A i \in 1 .. N + 1 : more[i] = IF i <= N THEN seqs[i] ELSE << x >>[i - N]
  BY <1>1, <1>5, ConcatProperties
<1>7. more[N + 1] = x /\ \A i \in 1 .. N : more[i] = seqs[i]
  <2>1. N + 1 \in 1 .. N + 1 /\ ~ (N + 1 <= N) /\ (N + 1) - N = 1 /\ << x >>[1] = x
    BY <1>1
  <2>2. more[N + 1] = << x >>[(N + 1) - N]
    BY <1>6, <2>1
  <2>3. \A i \in 1 .. N : i \in 1 .. N + 1 /\ i <= N
    BY <1>1
  <2> HIDE DEF more
  <2> QED
    BY <1>6, <2>1, <2>2, <2>3
<1> HIDE DEF more
<1>8. PICK f : IsFlattening(f, more) /\ FlattenSeq(more) = f[N + 1]
  <2>1. Len(more) \in Nat \ {0}
    BY <1>1, <1>6
  <2> QED
    BY <1>6, <2>1, FlattenSeqDef
<1>9. \A i \in 1 .. N + 1 : f[i] = IF i = 1 THEN more[i] ELSE f[i - 1] \o more[i]
  BY <1>6, <1>8 DEF IsFlattening
<1>10. N + 1 \in 1 .. N + 1
  BY <1>1
<1>11. CASE N = 0
  <2>1. seqs = << >>
    BY <1>1, <1>11
  <2>2. f[N + 1] = x
    BY <1>7, <1>9, <1>10, <1>11
  <2> QED
    BY <1>4, <1>8, <2>1, <2>2, FlattenEmpty DEF more
<1>12. CASE N # 0
  <2>1. PICK g : IsFlattening(g, seqs) /\ FlattenSeq(seqs) = g[N]
    <3>1. Len(seqs) \in Nat \ {0}
      BY <1>1, <1>12
    <3> QED
      BY <3>1, FlattenSeqDef
  <2>2. \A i \in 1 .. N : g[i] = IF i = 1 THEN seqs[i] ELSE g[i - 1] \o seqs[i]
    BY <2>1 DEF IsFlattening
  <2> DEFINE Bad == { i \in 1 .. N : f[i] # g[i] }
  <2>3. Bad = {}
    <3> SUFFICES ASSUME Bad # {} PROVE FALSE
      OBVIOUS
    <3>1. PICK i \in Bad : \A j \in Bad : i <= j
      <4>1. Bad \subseteq Nat
        BY <1>1
      <4> HIDE DEF Bad
      <4> QED
        BY <4>1, NatMin
    <3>2. i \in 1 .. N /\ f[i] # g[i] /\ i \in 1 .. N + 1
      BY <1>1, <3>1
    <3>3. i # 1
      BY <1>7, <1>9, <2>2, <3>2
    <3>4. i - 1 \in 1 .. N /\ ~ (i <= i - 1)
      BY <1>1, <3>2, <3>3
    <3>5. f[i - 1] = g[i - 1]
      <4>1. i - 1 \notin Bad
        <5> HIDE DEF Bad
        <5> QED
          BY <3>1, <3>4
      <4> QED
        BY <3>4, <4>1
    <3>6. f[i] = f[i - 1] \o more[i]
      <4> HIDE DEF Bad
      <4> QED
        BY <1>9, <3>2, <3>3
    <3>7. g[i] = g[i - 1] \o seqs[i]
      <4> HIDE DEF Bad
      <4> QED
        BY <2>2, <3>2, <3>3
    <3> QED
      BY <1>7, <3>2, <3>5, <3>6, <3>7
  <2>4. N \in 1 .. N /\ N + 1 # 1 /\ (N + 1) - 1 = N
    BY <1>1, <1>12
  <2>5. f[N] = g[N]
    BY <2>3, <2>4
  <2>6. f[N + 1] = f[N] \o x
    BY <1>7, <1>9, <1>10, <2>4
  <2> QED
    BY <1>8, <2>1, <2>5, <2>6 DEF more
<1> QED
  BY <1>11, <1>12

LEMMA FlattenOne ==
  ASSUME NEW S, NEW x \in Seq(S)
  PROVE  FlattenSeq(<< x >>) = x
<1> DEFINE T == Seq(S)
<1>1. << >> \in Seq(T) /\ x \in T
  OBVIOUS
<1>2. FlattenSeq(<< >> \o << x >>) = FlattenSeq(<< >>) \o x
  BY <1>1, FlattenSnoc
<1>3. << >> \o x = x
  BY ConcatEmptySeq
<1> HIDE DEF T
<1>4. << >> \o << x >> = << x >>
  <2>1. << x >> \in Seq(T)
    BY <1>1
  <2> QED
    BY <2>1, ConcatEmptySeq
<1> QED
  BY <1>2, <1>3, <1>4, FlattenEmpty

\* Two sequences of sequences, one after the other.
LEMMA FlattenConcat ==
  ASSUME NEW S, NEW s \in Seq(Seq(S)), NEW t \in Seq(Seq(S))
  PROVE  FlattenSeq(s \o t) = FlattenSeq(s) \o FlattenSeq(t)
<1> DEFINE T == Seq(S)
           Differs(v) == FlattenSeq(s \o v) # FlattenSeq(s) \o FlattenSeq(v)
           Bad == { n \in Nat : \E v \in Seq(T) : Len(v) = n /\ Differs(v) }
<1>1. ASSUME Bad # {} PROVE FALSE
  <2>1. PICK n \in Bad : \A m \in Bad : n <= m
    <3>1. Bad \subseteq Nat
      OBVIOUS
    <3> HIDE DEF Bad
    <3> QED
      BY <1>1, <3>1, NatMin
  <2>2. PICK v \in Seq(T) : Len(v) = n /\ Differs(v)
    BY <2>1
  <2>3. FlattenSeq(s) \in T
    BY FlattenType
  <2>4. v # << >>
    <3> SUFFICES ASSUME v = << >> PROVE FALSE
      OBVIOUS
    <3>1. FlattenSeq(s) \o << >> = FlattenSeq(s)
      BY <2>3, ConcatEmptySeq
    <3>2. s \o << >> = s
      <4>1. s \in Seq(T)
        OBVIOUS
      <4> HIDE DEF T
      <4> QED
        BY <4>1, ConcatEmptySeq
    <3> QED
      BY <2>2, <3>1, <3>2, FlattenEmpty
  <2>5. PICK w \in Seq(T), x \in T : v = w \o << x >> /\ Len(w) = n - 1 /\ n - 1 \in Nat
    <3> HIDE DEF T, Bad, Differs
    <3>1. PICK w \in Seq(T), x \in T : v = Append(w, x)
      BY <2>4, SequenceEmptyOrAppend
    <3>2. v = w \o << x >> /\ Len(v) = Len(w) + 1
      BY <3>1, AppendProperties, AppendIsConcat
    <3>3. Len(w) \in Nat
      OBVIOUS
    <3>4. n = Len(w) + 1
      BY <2>2, <3>2
    <3>5. Len(w) = n - 1 /\ n - 1 \in Nat
      BY <3>3, <3>4
    <3> QED
      BY <3>2, <3>5
  <2>6. ~ Differs(w)
    <3>1. n - 1 \notin Bad
      <4>1. n \in Nat
        BY <2>1
      <4> HIDE DEF Bad
      <4> QED
        BY <2>1, <2>5, <4>1
    <3> HIDE DEF Differs
    <3> QED
      BY <2>5, <3>1
  <2>7. FlattenSeq(w \o << x >>) = FlattenSeq(w) \o x
    BY FlattenSnoc
  <2>8. s \o (w \o << x >>) = (s \o w) \o << x >> /\ s \o w \in Seq(T)
    <3>1. s \in Seq(T)
      OBVIOUS
    <3> HIDE DEF T
    <3>2. << x >> \in Seq(T)
      OBVIOUS
    <3> QED
      BY <3>1, <3>2, ConcatAssociative, ConcatProperties
  <2>9. FlattenSeq((s \o w) \o << x >>) = FlattenSeq(s \o w) \o x
    BY <2>8, FlattenSnoc
  <2>10. (FlattenSeq(s) \o FlattenSeq(w)) \o x = FlattenSeq(s) \o (FlattenSeq(w) \o x)
    <3>1. FlattenSeq(w) \in Seq(S)
      BY FlattenType
    <3>2. x \in Seq(S)
      OBVIOUS
    <3> DEFINE a == FlattenSeq(s)
               b == FlattenSeq(w)
    <3>3. a \in Seq(S) /\ b \in Seq(S)
      BY <2>3, <3>1
    <3> HIDE DEF a, b, T, Bad
    <3>4. (a \o b) \o x = a \o (b \o x)
      BY <3>2, <3>3, ConcatAssociative
    <3> QED
      BY <3>4 DEF a, b
  <2> QED
    BY <2>2, <2>5, <2>6, <2>7, <2>8, <2>9, <2>10
<1>2. Len(t) \in Nat /\ t \in Seq(T)
  OBVIOUS
<1>3. ~ Differs(t)
  <2> HIDE DEF T, Differs
  <2> QED
    BY <1>1, <1>2
<1> QED
  BY <1>3

\* The same of all: what has been put together is as long as its parts.
LEMMA FlattenLength ==
  ASSUME NEW S, NEW seqs \in Seq(Seq(S)), NEW sizes \in Seq(Nat), Len(sizes) = Len(seqs),
         \A i \in 1 .. Len(seqs) : sizes[i] = Len(seqs[i])
  PROVE  Len(FlattenSeq(seqs)) = FoldLeft(+, 0, sizes)
<1> DEFINE T == Seq(S)
           N == Len(seqs)
<1>1. N \in Nat /\ seqs \in Seq(T) /\ \A i \in 1 .. N : seqs[i] \in T
  OBVIOUS
<1>2. PICK g : /\ FoldLeft(+, 0, sizes) = g[N]
               /\ g[0] = 0 /\ \A n \in 1 .. N : g[n] = g[n - 1] + sizes[n]
  <2>1. \E g : /\ FoldLeft(+, 0, sizes) = g[Len(sizes)]
               /\ g[0] = 0 /\ \A n \in 1 .. Len(sizes) : g[n] = g[n - 1] + sizes[n]
    BY SumByPosition
  <2> QED
    BY <2>1
<1>3. CASE N = 0
  <2>1. seqs = << >> /\ Len(<< >>) = 0
    BY <1>1, <1>3
  <2> QED
    BY <1>2, <1>3, <2>1, FlattenEmpty
<1>4. CASE N # 0
  <2>1. PICK f : IsFlattening(f, seqs) /\ FlattenSeq(seqs) = f[N]
    <3>1. Len(seqs) \in Nat \ {0}
      BY <1>1, <1>4
    <3> QED
      BY <3>1, FlattenSeqDef
  <2>2. \A i \in 1 .. N : f[i] = IF i = 1 THEN seqs[i] ELSE f[i - 1] \o seqs[i]
    BY <2>1 DEF IsFlattening
  <2> DEFINE Good(n) == f[n] \in Seq(S) /\ Len(f[n]) = g[n]
             Bad == { n \in 1 .. N : ~ Good(n) }
  <2>3. Bad = {}
    <3> SUFFICES ASSUME Bad # {} PROVE FALSE
      OBVIOUS
    <3>1. PICK n \in Bad : \A m \in Bad : n <= m
      <4>1. Bad \subseteq Nat
        BY <1>1
      <4> HIDE DEF Bad
      <4> QED
        BY <4>1, NatMin
    <3>2. n \in 1 .. N /\ ~ Good(n)
      BY <3>1
    <3>3. seqs[n] \in Seq(S) /\ sizes[n] = Len(seqs[n]) /\ g[n] = g[n - 1] + sizes[n]
      BY <1>1, <1>2, <3>2
    <3>4. CASE n = 1
      <4>1. n - 1 = 0 /\ Len(seqs[n]) \in Nat
        BY <3>3, <3>4
      <4>2. g[n] = 0 + Len(seqs[n])
        BY <1>2, <3>3, <4>1
      <4>3. f[n] = seqs[n]
        BY <2>2, <3>2, <3>4
      <4> HIDE DEF N
      <4> QED
        BY <3>2, <3>3, <4>1, <4>2, <4>3
    <3>5. CASE n # 1
      <4>1. n - 1 \in 1 .. N /\ ~ (n <= n - 1)
        BY <1>1, <3>2, <3>5
      <4>2. Good(n - 1)
        <5>1. n - 1 \notin Bad
          <6> HIDE DEF Bad
          <6> QED
            BY <3>1, <4>1
        <5> QED
          BY <4>1, <5>1
      <4> DEFINE before == f[n - 1]
                 x == seqs[n]
      <4>3. before \in Seq(S) /\ x \in Seq(S) /\ Len(before) = g[n - 1]
        BY <3>3, <4>2
      <4>4. f[n] = before \o x
        BY <2>2, <3>2, <3>5
      <4> HIDE DEF before, x
      <4>5. before \o x \in Seq(S) /\ Len(before \o x) = Len(before) + Len(x)
        BY <4>3, ConcatProperties
      <4>6. f[n] \in Seq(S) /\ Len(f[n]) = g[n]
        BY <3>3, <4>3, <4>4, <4>5 DEF x
      <4> QED
        BY <3>2, <4>6
    <3> QED
      BY <3>4, <3>5
  <2>4. N \in 1 .. N
    BY <1>1, <1>4
  <2>5. Len(f[N]) = g[N]
    BY <2>3, <2>4
  <2> QED
    BY <1>2, <2>1, <2>5
<1> QED
  BY <1>3, <1>4

-----------------------------------------------------------------------------
(* what is put together from something for each element *)

ImageOf(f, s) == [ i \in DOMAIN s |-> f[s[i]] ]
FlatMap(f, s) == FlattenSeq(ImageOf(f, s))

IsMap(f, S, T) == f \in [ S -> T ]
PutsTogether(f, S, B) == f \in [ S -> Seq(B) ]

LEMMA MapConcat ==
  ASSUME NEW S, NEW T, NEW f, IsMap(f, S, T), NEW s \in Seq(S), NEW t \in Seq(S)
  PROVE  /\ ImageOf(f, s) \in Seq(T) /\ ImageOf(f, t) \in Seq(T)
         /\ ImageOf(f, s \o t) = ImageOf(f, s) \o ImageOf(f, t)
<1> DEFINE m(v) == [ i \in DOMAIN v |-> f[v[i]] ]
<1>1. ASSUME NEW v \in Seq(S)
      PROVE  /\ m(v) \in Seq(T) /\ Len(m(v)) = Len(v) /\ Len(v) \in Nat
             /\ \A i \in 1 .. Len(v) : m(v)[i] = f[v[i]]
  <2>1. Len(v) \in Nat /\ DOMAIN v = 1 .. Len(v) /\ \A i \in 1 .. Len(v) : v[i] \in S
    OBVIOUS
  <2>2. m(v) \in [ 1 .. Len(v) -> T ] /\ \A i \in 1 .. Len(v) : m(v)[i] = f[v[i]]
    BY <2>1 DEF IsMap
  <2> HIDE DEF m
  <2> QED
    BY <2>1, <2>2
<1>2. /\ s \o t \in Seq(S) /\ Len(s \o t) = Len(s) + Len(t)
      /\ \A i \in 1 .. Len(s) + Len(t) : (s \o t)[i] = IF i <= Len(s) THEN s[i] ELSE t[i - Len(s)]
  BY ConcatProperties
<1> DEFINE z == s \o t
           w == m(s) \o m(t)
<1>3. m(s) \in Seq(T) /\ m(t) \in Seq(T) /\ m(z) \in Seq(T)
  BY <1>1, <1>2
<1> HIDE DEF m, z
<1>4. /\ w \in Seq(T) /\ Len(w) = Len(s) + Len(t)
      /\ \A i \in 1 .. Len(s) + Len(t) : w[i] = IF i <= Len(s) THEN m(s)[i] ELSE m(t)[i - Len(s)]
  <2> DEFINE a == m(s)
             b == m(t)
  <2>1. a \in Seq(T) /\ b \in Seq(T) /\ Len(a) = Len(s) /\ Len(b) = Len(t)
    BY <1>1, <1>3
  <2> HIDE DEF a, b
  <2>2. /\ a \o b \in Seq(T) /\ Len(a \o b) = Len(a) + Len(b)
        /\ \A i \in 1 .. Len(a) + Len(b) : (a \o b)[i] = IF i <= Len(a) THEN a[i] ELSE b[i - Len(a)]
    BY <2>1, ConcatProperties
  <2> QED
    BY <2>1, <2>2 DEF a, b
<1> HIDE DEF w
<1>5. Len(s) \in Nat /\ Len(t) \in Nat /\ Len(m(z)) = Len(s) + Len(t) /\ z \in Seq(S)
  BY <1>1, <1>2 DEF z
<1>6. ASSUME NEW i \in 1 .. Len(s) + Len(t) PROVE m(z)[i] = w[i]
  <2>1. m(z)[i] = f[z[i]] /\ z[i] = IF i <= Len(s) THEN s[i] ELSE t[i - Len(s)]
    BY <1>1, <1>2, <1>5 DEF z
  <2>2. CASE i <= Len(s)
    <3>1. i \in 1 .. Len(s)
      BY <1>5, <2>2
    <3> QED
      BY <1>1, <1>4, <2>1, <2>2, <3>1
  <2>3. CASE ~ (i <= Len(s))
    <3>1. i - Len(s) \in 1 .. Len(t)
      BY <1>5, <2>3
    <3> QED
      BY <1>1, <1>4, <2>1, <2>3, <3>1
  <2> QED
    BY <2>2, <2>3
<1>7. m(z) = w
  BY <1>3, <1>4, <1>5, <1>6, SeqEqual
<1> QED
  BY <1>3, <1>7 DEF m, w, z, ImageOf

LEMMA FlatMapConcat ==
  ASSUME NEW S, NEW B, NEW f, PutsTogether(f, S, B), NEW s \in Seq(S), NEW t \in Seq(S)
  PROVE  /\ FlatMap(f, s) \in Seq(B)
         /\ FlatMap(f, s \o t) = FlatMap(f, s) \o FlatMap(f, t)
<1> DEFINE T == Seq(B)
           m == ImageOf(f, s)
           n == ImageOf(f, t)
<1>1. IsMap(f, S, T)
  BY DEF IsMap, PutsTogether
<1> HIDE DEF T
<1>2. m \in Seq(T) /\ n \in Seq(T) /\ ImageOf(f, s \o t) = m \o n
  BY <1>1, MapConcat
<1> HIDE DEF m, n
<1>3. FlattenSeq(m \o n) = FlattenSeq(m) \o FlattenSeq(n) /\ FlattenSeq(m) \in Seq(B)
  BY <1>2, FlattenConcat, FlattenType DEF T
<1> QED
  BY <1>2, <1>3 DEF FlatMap, m, n

LEMMA FlatMapFew ==
  ASSUME NEW S, NEW B, NEW f, PutsTogether(f, S, B), NEW x \in S
  PROVE  FlatMap(f, << >>) = << >> /\ FlatMap(f, << x >>) = f[x]
<1>1. [ i \in DOMAIN << >> |-> f[<< >>[i]] ] = << >>
  OBVIOUS
<1>2. [ i \in DOMAIN << x >> |-> f[<< x >>[i]] ] = << f[x] >>
  OBVIOUS
<1>3. FlattenSeq(<< f[x] >>) = f[x]
  BY FlattenOne DEF PutsTogether
<1> QED
  BY <1>1, <1>2, <1>3, FlattenEmpty DEF FlatMap, ImageOf
=============================================================================

---------------------------- MODULE MetadataHeap ----------------------------
(***************************************************************************)
(* The binary heap that MetadataQueue (src/metadata_queue.h) keeps in its  *)
(* vector `q`, as operators on sequences: the ordering of metadata items,  *)
(* and the three standard algorithms the queue calls on the vector         *)
(* (std::push_heap, std::pop_heap, std::remove_if).                        *)
(*                                                                         *)
(* The heap is kept concrete, position by position, because drop_id        *)
(* erases elements from the middle of it and never rebuilds it: what a     *)
(* later pop returns then depends on where every element stands.  The      *)
(* algorithms are those of libstdc++, the library of the documented        *)
(* toolchain (GCC >= 8).                                                   *)
(*                                                                         *)
(* An item is a record with (at least) the fields id, pts and order: the   *)
(* input it belongs to, its time on the system clock, and its place among  *)
(* the items of one packet.                                                *)
(***************************************************************************)
EXTENDS Integers, Sequences, FiniteSets

(***************************************************************************)
(* comparator(lhs, rhs): lhs must come out of the queue after rhs.         *)
(***************************************************************************)
Later(lhs, rhs) ==
  \/ lhs.pts > rhs.pts
  \/ lhs.pts = rhs.pts /\ lhs.id > rhs.id
  \/ lhs.pts = rhs.pts /\ lhs.id = rhs.id /\ lhs.order > rhs.order

(***************************************************************************)
(* Position i of a heap has the children 2*i and 2*i+1; Ancestors[i] is    *)
(* the path from position i up to the root, both included.                 *)
(***************************************************************************)
Ancestors[i \in Nat \ {0}] ==
  IF i = 1 THEN {1} ELSE {i} \cup Ancestors[i \div 2]

Lowest(S) == CHOOSE i \in S : \A j \in S : i <= j
Deepest(S) == CHOOSE i \in S : \A j \in S : j <= i

(***************************************************************************)
(* libstdc++'s __push_heap: value v climbs from position hole towards the  *)
(* root for as long as the parent is Later than v; every parent it passes  *)
(* moves one level down.                                                   *)
(***************************************************************************)
SiftUp(a, hole, v) ==
  LET passed == { i \in Ancestors[hole] \ {1} :
                    \A j \in Ancestors[hole] : j >= i => Later(a[j \div 2], v) }
      rest   == IF passed = {} THEN hole ELSE Lowest(passed) \div 2
  IN  [ i \in 1 .. Len(a) |->
          IF i \in passed THEN a[i \div 2] ELSE IF i = rest THEN v ELSE a[i] ]

\* mutant of PushHeap: the item stays where push_back put it
PushBackOnly(q, v) == Append(q, v)

\* q.push_back(v) followed by std::push_heap
PushHeap(q, v) == SiftUp(Append(q, v), Len(q) + 1, v)

(***************************************************************************)
(* The child that __adjust_heap moves into a hole at position i of a heap  *)
(* of m elements: the right one unless it is missing or Later than the     *)
(* left one.                                                               *)
(***************************************************************************)
EarlierChild(q, m, i) ==
  IF 2 * i + 1 <= m /\ ~ Later(q[2 * i + 1], q[2 * i]) THEN 2 * i + 1 ELSE 2 * i

(***************************************************************************)
(* std::pop_heap followed by pop_back on a non-empty vector, whose front   *)
(* is the element removed: the hole at the root sinks to a leaf along the  *)
(* earlier children, and the former last element climbs from that leaf.    *)
(***************************************************************************)
PopHeap(q) ==
  LET m      == Len(q) - 1
      sunk   == { i \in 1 .. m :
                    \A j \in Ancestors[i] \ {1} : j = EarlierChild(q, m, j \div 2) }
      leaf   == Deepest(sunk)
      lifted == [ i \in 1 .. m |->
                    IF i \in sunk /\ 2 * i <= m THEN q[EarlierChild(q, m, i)] ELSE q[i] ]
  IN  IF m = 0 THEN << >> ELSE SiftUp(lifted, leaf, q[m + 1])

\* mutant of RemoveId: a CC reset, whose order is below all others, is spared
RemoveIdButResets(q, id) == SelectSeq(q, LAMBDA x : x.id # id \/ x.order < 0)

(***************************************************************************)
(* std::remove_if and erase: the items of other inputs, in their previous  *)
(* order, moved together.  Nothing restores the heap.                      *)
(***************************************************************************)
RemoveId(q, id) ==
  LET keep == { i \in 1 .. Len(q) : q[i].id # id }
  IN  [ k \in 1 .. Cardinality(keep) |->
          q[Lowest({ i \in keep : Cardinality({ j \in keep : j <= i }) >= k })] ]

Elements(q) == { q[i] : i \in DOMAIN q }

\* the items of S in the order a heap gives them out
InOrder(S) ==
  [ k \in 1 .. Cardinality(S) |->
      CHOOSE x \in S : Cardinality({ y \in S : Later(x, y) }) = k - 1 ]

(***************************************************************************)
(* The precondition of push_heap and pop_heap: no parent is Later than its *)
(* child.                                                                  *)
(***************************************************************************)
IsHeap(q) == \A i \in 2 .. Len(q) : ~ Later(q[i \div 2], q[i])
=============================================================================

------------------------- MODULE MetadataQueueProofs -------------------------
(***************************************************************************)
(* Theorems about MetadataQueue and OrderlyQueue, for every set of inputs, *)
(* instants and items and every capacity.                                  *)
(***************************************************************************)
EXTENDS OrderlyQueue, MetadataHeapProofs

\* A query in progress has its four arguments.
LEMMA JobFields ==
  ASSUME job \in Job, ~ Unlocked
  PROVE  /\ job \in [ stage : Stage \ {"idle"}, id : Input, since : TS, until : TS,
                      all : BOOLEAN ]
         /\ job.since \in TS /\ job.until \in TS /\ job.id \in Input
BY DEF Job, Unlocked

\* Between two stages a query keeps its arguments.
LEMMA GotoType ==
  ASSUME job \in Job, ~ Unlocked, NEW stage \in Stage \ {"idle"}, Goto(stage)
  PROVE  /\ job' \in Job
         /\ job'.id = job.id /\ job'.since = job.since /\ job'.until = job.until
<1>1. job \in [ stage : Stage \ {"idle"}, id : Input, since : TS, until : TS, all : BOOLEAN ]
  BY JobFields
<1> QED
  BY <1>1 DEF Goto, Job

-----------------------------------------------------------------------------
LEMMA InitType == Init => TypeOK
BY DEF Init, TypeOK, Job

LEMMA PushType ==
  ASSUME TypeOK, NEW x \in Item, Push(x)
  PROVE  TypeOK'
<1>1. PushHeap(q, x) \in Seq(Item)
  BY PushHeapType DEF TypeOK
<1> QED
  BY <1>1 DEF Push, TypeOK

LEMMA DropIdType ==
  ASSUME TypeOK, NEW id \in Input, DropId(id)
  PROVE  TypeOK'
<1>1. RemoveId(q, id) \in Seq(Item)
  BY RemoveIdType DEF TypeOK
<1> QED
  BY <1>1 DEF DropId, TypeOK

LEMMA LockType ==
  ASSUME TypeOK, NEW id \in Input, NEW since \in TS, NEW until \in TS,
         NEW all \in BOOLEAN, Lock(id, since, until, all)
  PROVE  TypeOK'
<1>1. job' \in Job
  BY DEF Lock, Job, Stage
<1>2. out' \in Seq(Item) /\ q' \in Seq(Item)
  BY DEF Lock, TypeOK
<1> QED
  BY <1>1, <1>2 DEF TypeOK

\* One round of the loops of pop and pop_all.
LEMMA PopLoopType ==
  ASSUME TypeOK, PopLoop
  PROVE  TypeOK'
<1>1. q # << >> => PopHeap(q) \in Seq(Item) /\ q[1] \in Item
  <2>1. ASSUME q # << >> PROVE 1 \in 1 .. Len(q)
    BY <2>1 DEF TypeOK
  <2> QED
    BY <2>1, PopHeapType DEF TypeOK
<1>2. ~ Unlocked
  BY DEF PopLoop, Skip, Take, DropColliding, Taken, Exhausted, Unlocked, Idle
<1>3. ASSUME NEW stage \in Stage \ {"idle"}, Goto(stage) PROVE job' \in Job
  BY <1>2, <1>3, GotoType DEF TypeOK
<1>4. CASE Skip
  BY <1>1, <1>4 DEF Skip, HasNext, TypeOK
<1>5. CASE Take
  <2>1. job' \in Job
    BY <1>3, <1>5 DEF Take, Stage
  <2>2. out' \in Seq(Item) /\ q' \in Seq(Item)
    BY <1>1, <1>5 DEF Take, HasNext, TypeOK
  <2> QED
    BY <2>1, <2>2 DEF TypeOK
<1>6. CASE DropColliding
  BY <1>1, <1>6 DEF DropColliding, Collides, TypeOK
<1>7. CASE Taken
  <2>1. job' \in Job
    <3>1. Goto("search") \/ Goto("return")
      BY <1>7 DEF Taken
    <3> QED
      BY <1>3, <3>1 DEF Stage
  <2> QED
    BY <1>7, <2>1 DEF Taken, TypeOK
<1>8. CASE Exhausted
  <2>1. job' \in Job
    BY <1>3, <1>8 DEF Exhausted, Stage
  <2> QED
    BY <1>8, <2>1 DEF Exhausted, TypeOK
<1> QED
  BY <1>4, <1>5, <1>6, <1>7, <1>8 DEF PopLoop

LEMMA UnlockType == TypeOK /\ Unlock => TypeOK'
BY DEF Unlock, TypeOK, Job

LEMMA NextType == TypeOK /\ [Next]_vars => TypeOK'
<1> SUFFICES ASSUME TypeOK, [Next]_vars PROVE TypeOK'
  OBVIOUS
<1>1. CASE UNCHANGED vars
  BY <1>1 DEF vars, TypeOK
<1> QED
  BY <1>1, PushType, DropIdType, LockType, PopLoopType, UnlockType DEF Next

\* The queue is a vector of items and a query has the arguments it was
\* called with, whatever the callers do (metadata_queue.h).
THEOREM QueueTypeCorrect == Spec => []TypeOK
BY InitType, NextType, PTL DEF Spec

-----------------------------------------------------------------------------
\* Only Take adds to what a query has popped, and it checks the query first.
LEMMA PopLoopAnswer ==
  ASSUME TypeOK, PoppedSatisfyQuery, PopLoop
  PROVE  PoppedSatisfyQuery'
<1>1. job \in Job /\ ~ Unlocked
  BY DEF PopLoop, Skip, Take, DropColliding, Taken, Exhausted, Unlocked, Idle, TypeOK
<1>2. ASSUME NEW stage \in Stage \ {"idle"}, Goto(stage)
      PROVE  job'.id = job.id /\ job'.since = job.since /\ job'.until = job.until
  BY <1>1, <1>2, GotoType
<1>3. CASE Skip \/ DropColliding
  BY <1>1, <1>3 DEF Skip, DropColliding, PoppedSatisfyQuery, Unlocked
<1>4. CASE Taken \/ Exhausted
  <2>1. Goto("search") \/ Goto("return")
    BY <1>4 DEF Taken, Exhausted
  <2>2. job'.id = job.id /\ job'.since = job.since /\ job'.until = job.until
    BY <1>2, <2>1 DEF Stage
  <2>3. out' = out
    BY <1>4 DEF Taken, Exhausted
  <2> QED
    BY <1>1, <2>2, <2>3 DEF PoppedSatisfyQuery
<1>5. CASE Take
  <2>1. job'.id = job.id /\ job'.since = job.since /\ job'.until = job.until
    BY <1>2, <1>5 DEF Take, Stage
  <2>2. q[1].id = job.id /\ q[1].pts >= job.since /\ q[1].pts < job.until
    BY <1>5 DEF Take, HasNext, Matches
  <2>3. q[1] \in Item /\ q[1].pts \in Int /\ job.since \in Int
    <3>1. 1 \in 1 .. Len(q)
      BY <1>5 DEF Take, HasNext, TypeOK
    <3>2. q[1] \in Item
      BY <3>1 DEF TypeOK
    <3> QED
      BY <1>1, <3>2, JobFields, QueueAssumption
  <2>4. job.since <= q[1].pts
    BY <2>2, <2>3
  <2>5. ASSUME NEW k \in DOMAIN out'
        PROVE  (k \in DOMAIN out /\ out'[k] = out[k]) \/ out'[k] = q[1]
    BY <1>5, <2>3 DEF Take, TypeOK
  <2>6. \A k \in DOMAIN out :
          out[k].id = job.id /\ job.since <= out[k].pts /\ out[k].pts < job.until
    BY <1>1 DEF PoppedSatisfyQuery
  <2> QED
    BY <2>1, <2>2, <2>4, <2>5, <2>6 DEF PoppedSatisfyQuery
<1> QED
  BY <1>3, <1>4, <1>5 DEF PopLoop

LEMMA NextAnswer == TypeOK /\ PoppedSatisfyQuery /\ [Next]_vars => PoppedSatisfyQuery'
<1> SUFFICES ASSUME TypeOK, PoppedSatisfyQuery, [Next]_vars PROVE PoppedSatisfyQuery'
  OBVIOUS
<1>1. CASE UNCHANGED vars
  BY <1>1 DEF vars, PoppedSatisfyQuery, Unlocked
<1>2. ASSUME NEW x \in Item, Push(x) PROVE PoppedSatisfyQuery'
  BY <1>2 DEF Push, PoppedSatisfyQuery, Unlocked
<1>3. ASSUME NEW id \in Input, DropId(id) PROVE PoppedSatisfyQuery'
  BY <1>3 DEF DropId, PoppedSatisfyQuery, Unlocked
<1>4. ASSUME NEW id \in Input, NEW since \in TS, NEW until \in TS, NEW all \in BOOLEAN,
             Lock(id, since, until, all)
      PROVE  PoppedSatisfyQuery'
  BY <1>4 DEF Lock, PoppedSatisfyQuery
<1>5. CASE Unlock
  BY <1>5 DEF Unlock, PoppedSatisfyQuery, Unlocked
<1> QED
  BY <1>1, <1>2, <1>3, <1>4, <1>5, PopLoopAnswer DEF Next

\* Every item a pop hands out satisfies its query (the assertion of pop_impl,
\* line 162): nothing about the order of the heap is needed, so it also holds
\* after drop_id has put the heap out of order.
THEOREM PopAnswersQuery == Spec => []PoppedSatisfyQuery
<1>1. Init => PoppedSatisfyQuery
  BY DEF Init, PoppedSatisfyQuery, Unlocked
<1> QED
  BY <1>1, NextAnswer, QueueTypeCorrect, PTL DEF Spec

-----------------------------------------------------------------------------
\* While pop_impl drops what collides with its match, there is a match.
MatchTaken == job.stage = "collide" => out # << >>

LEMMA NextMatchTaken == TypeOK /\ MatchTaken /\ [Next]_vars => MatchTaken'
<1> SUFFICES ASSUME TypeOK, MatchTaken, [Next]_vars PROVE MatchTaken'
  OBVIOUS
<1>1. CASE UNCHANGED vars
  BY <1>1 DEF vars, MatchTaken
<1>2. ASSUME NEW x \in Item, Push(x) PROVE MatchTaken'
  BY <1>2 DEF Push, MatchTaken
<1>3. ASSUME NEW id \in Input, DropId(id) PROVE MatchTaken'
  BY <1>3 DEF DropId, MatchTaken
<1>4. ASSUME NEW id \in Input, NEW since \in TS, NEW until \in TS, NEW all \in BOOLEAN,
             Lock(id, since, until, all)
      PROVE  MatchTaken'
  BY <1>4 DEF Lock, MatchTaken
<1>5. CASE Unlock
  BY <1>5 DEF Unlock, Idle, MatchTaken
<1>6. CASE PopLoop
  <2>1. job \in [ stage : Stage \ {"idle"}, id : Input, since : TS, until : TS, all : BOOLEAN ]
    BY <1>6, JobFields
       DEF PopLoop, Skip, Take, DropColliding, Taken, Exhausted, Unlocked, Idle, TypeOK
  <2>2. CASE Skip \/ DropColliding
    BY <2>2 DEF Skip, DropColliding, MatchTaken
  <2>3. CASE Take
    <3>1. out' = Append(out, q[1]) /\ q[1] \in Item /\ out \in Seq(Item)
      BY <2>3 DEF Take, HasNext, TypeOK
    <3> QED
      BY <3>1 DEF MatchTaken
  <2>4. CASE Taken \/ Exhausted
    <3>1. job'.stage \in {"search", "return"}
      BY <2>1, <2>4 DEF Taken, Exhausted, Goto
    <3> QED
      BY <3>1 DEF MatchTaken
  <2> QED
    BY <1>6, <2>2, <2>3, <2>4 DEF PopLoop
<1> QED
  BY <1>1, <1>2, <1>3, <1>4, <1>5, <1>6 DEF Next

LEMMA MatchAlwaysTaken == Spec => []MatchTaken
<1>1. Init => MatchTaken
  BY DEF Init, Idle, MatchTaken
<1> QED
  BY <1>1, NextMatchTaken, QueueTypeCorrect, PTL DEF Spec

\* A round of the loops pops nothing, or a front that lies before the end of
\* the time frame: one that collides shares the instant of a match.
LEMMA PopLoopPops ==
  ASSUME TypeOK, PoppedSatisfyQuery, MatchTaken, PopLoop
  PROVE  q' = q \/ (q # << >> /\ q' = PopHeap(q) /\ q[1].pts < job.until)
<1>1. CASE Skip \/ Take
  BY <1>1 DEF Skip, Take, HasNext
<1>2. CASE DropColliding
  <2>1. q # << >> /\ q' = PopHeap(q) /\ q[1].pts = out[Len(out)].pts /\ out # << >>
    BY <1>2 DEF DropColliding, Collides, MatchTaken
  <2>2. Len(out) \in DOMAIN out /\ ~ Unlocked
    BY <1>2, <2>1 DEF DropColliding, Unlocked, Idle, TypeOK
  <2> QED
    BY <2>1, <2>2 DEF PoppedSatisfyQuery
<1>3. CASE Taken \/ Exhausted
  BY <1>3 DEF Taken, Exhausted
<1> QED
  BY <1>1, <1>2, <1>3 DEF PopLoop

\* What a step under the mutex does to the queue.
LEMMA StepKeepsFuture ==
  ASSUME TypeOK, PoppedSatisfyQuery, MatchTaken, [Next]_vars, ~ Unlocked
  PROVE  /\ \A x \in Elements(q) : x.pts >= job.until => Copies(q', x) = Copies(q, x)
         /\ Elements(q') \subseteq Elements(q)
         /\ Len(q') \in {Len(q), Len(q) - 1}
<1>1. q' = q \/ (q # << >> /\ q' = PopHeap(q) /\ q[1].pts < job.until)
  <2>1. PopLoop \/ q' = q
    BY DEF Next, Push, DropId, Lock, Unlock, vars
  <2> QED
    BY <2>1, PopLoopPops
<1>2. CASE q' = q
  BY <1>2
<1>3. CASE q # << >> /\ q' = PopHeap(q) /\ q[1].pts < job.until
  <2>1. q[1].pts \in Int /\ job.until \in Int
    <3>1. 1 \in 1 .. Len(q)
      BY <1>3 DEF TypeOK
    <3>2. q[1] \in Item
      BY <3>1 DEF TypeOK
    <3>3. job.until \in TS
      BY JobFields DEF TypeOK
    <3> QED
      BY <3>2, <3>3, QueueAssumption
  <2>2. \A x \in Elements(q) : x.pts >= job.until => x # q[1]
    BY <1>3, <2>1
  <2>3. q \in Seq(Item) /\ q # << >>
    BY <1>3 DEF TypeOK
  <2>4. /\ Elements(PopHeap(q)) \subseteq Elements(q)
        /\ \A x : x # q[1] => Copies(PopHeap(q), x) = Copies(q, x)
    <3>1. \A s, x : Copies(s, x) = Cardinality(Places(s, DOMAIN s, x))
      BY DEF Copies, Places
    <3> QED
      BY <2>3, <3>1, PopHeapKeeps
  <2>5. Len(PopHeap(q)) = Len(q) - 1
    BY <2>3, PopHeapType
  <2> QED
    BY <1>3, <2>2, <2>4, <2>5
<1> QED
  BY <1>1, <1>2, <1>3

\* An item of the future survives every query, however badly drop_id has
\* disordered the heap, and the loops of pop and pop_all under the mutex
\* neither duplicate an item nor invent one.
THEOREM FutureSurvivesQueries == Spec => FutureIsKept
<1>1. TypeOK /\ PoppedSatisfyQuery /\ MatchTaken /\ [Next]_vars
      => [ ~ Unlocked =>
             /\ \A x \in Elements(q) : x.pts >= job.until => Copies(q', x) = Copies(q, x)
             /\ Elements(q') \subseteq Elements(q)
             /\ Len(q') \in {Len(q), Len(q) - 1} ]_vars
  BY StepKeepsFuture
<1> QED
  BY <1>1, QueueTypeCorrect, PopAnswersQuery, MatchAlwaysTaken, PTL DEF Spec, FutureIsKept

-----------------------------------------------------------------------------
(***************************************************************************)
(* The queue as it is when nobody drops an input.                          *)
(***************************************************************************)
UndroppedNext ==
  \/ \E x \in Item : Push(x)
  \/ \E id \in Input, since, until \in TS, all \in BOOLEAN : Lock(id, since, until, all)
  \/ PopLoop
  \/ Unlock

UndroppedSpec == Init /\ [][UndroppedNext]_vars

\* Two items of the queue can be compared.
LEMMA ItemsComparable == Comparable(Item)
BY QueueAssumption DEF Comparable

LEMMA UndroppedOrdered == TypeOK /\ HeapOrdered /\ [UndroppedNext]_vars => HeapOrdered'
<1> SUFFICES ASSUME TypeOK, HeapOrdered, [UndroppedNext]_vars PROVE HeapOrdered'
  OBVIOUS
<1>1. q \in Seq(Item) /\ IsHeap(q)
  BY DEF TypeOK, HeapOrdered
<1>2. ASSUME NEW x \in Item, Push(x) PROVE HeapOrdered'
  <2>1. IsHeap(PushHeap(q, x))
    BY <1>1, ItemsComparable, PushHeapOrdered
  <2> QED
    BY <1>2, <2>1 DEF Push, HeapOrdered
<1>3. \/ \E x \in Item : Push(x)
      \/ q' = q
      \/ q # << >> /\ q' = PopHeap(q)
  BY DEF UndroppedNext, Lock, PopLoop, Skip, Take, DropColliding, Taken, Exhausted, Unlock,
         HasNext, Collides, vars
<1>4. CASE q' = q
  BY <1>1, <1>4 DEF HeapOrdered
<1>5. CASE q # << >> /\ q' = PopHeap(q)
  <2>1. IsHeap(PopHeap(q))
    BY <1>1, <1>5, ItemsComparable, PopHeapOrdered
  <2> QED
    BY <1>5, <2>1 DEF HeapOrdered
<1> QED
  BY <1>2, <1>3, <1>4, <1>5

\* As long as nobody drops an input, the vector stays a heap.
THEOREM HeapStaysOrdered == UndroppedSpec => []HeapOrdered
<1>1. Init => HeapOrdered
  BY DEF Init, HeapOrdered, IsHeap
<1>2. UndroppedSpec => Spec
  <2>1. [UndroppedNext]_vars => [Next]_vars
    BY DEF UndroppedNext, Next
  <2> QED
    BY <2>1, PTL DEF UndroppedSpec, Spec
<1> QED
  BY <1>1, <1>2, UndroppedOrdered, QueueTypeCorrect, PTL DEF UndroppedSpec

\* The front of a heap is its earliest item.
LEMMA HeapHasEarliest ==
  ASSUME TypeOK, HeapOrdered
  PROVE  FrontIsEarliest
<1> SUFFICES ASSUME q # << >>, NEW i \in DOMAIN q PROVE q[1].pts <= q[i].pts
  BY DEF FrontIsEarliest
<1>1. q \in Seq(Item) /\ i \in 1 .. Len(q) /\ 1 \in 1 .. Len(q)
  BY DEF TypeOK
<1>2. ~ Later(q[1], q[i])
  BY <1>1, ItemsComparable, HeapFront DEF HeapOrdered
<1>3. q[1] \in Item /\ q[i] \in Item
  BY <1>1
<1>4. q[1].pts \in Int /\ q[i].pts \in Int
  BY <1>3, QueueAssumption
<1> QED
  BY <1>2, <1>4 DEF Later

\* Then what pop_impl looks at is the earliest item ("Pops value earliest in
\* given time frame", line 75), which drop_id spoils.
THEOREM FrontStaysEarliest == UndroppedSpec => []FrontIsEarliest
<1>1. TypeOK /\ HeapOrdered => FrontIsEarliest
  BY HeapHasEarliest
<1>2. UndroppedSpec => Spec
  <2>1. [UndroppedNext]_vars => [Next]_vars
    BY DEF UndroppedNext, Next
  <2> QED
    BY <2>1, PTL DEF UndroppedSpec, Spec
<1> QED
  BY <1>1, <1>2, HeapStaysOrdered, QueueTypeCorrect, PTL

-----------------------------------------------------------------------------
(***************************************************************************)
(* The queue implements TimedQueue.  Besides the order of the heap the     *)
(* step-by-step argument needs that no two queued items of an input share  *)
(* an instant, so that the heap has one order only, and what a query has   *)
(* popped at each of its stages.                                           *)
(***************************************************************************)
OneEach ==
  \A i, k \in DOMAIN q : q[i].id = q[k].id /\ q[i].pts = q[k].pts => i = k

QueryProgress ==
  /\ Unlocked => out = << >>
  /\ job.stage = "collide" =>
       out # << >> /\ \A x \in Elements(q) : out[Len(out)].pts <= x.pts
  /\ ~ Unlocked /\ ~ job.all =>
       /\ job.stage = "search" => out = << >>
       /\ job.stage = "collide" => Len(out) = 1

OrderlyInv == HeapOrdered /\ FrontIsEarliest /\ OneEach /\ QueryProgress

\* A pop takes the front, the earliest item, away from the queue.
LEMMA PopOrderly ==
  ASSUME TypeOK, FrontIsEarliest, OneEach, q # << >>
  PROVE  /\ q[1] \in Elements(q) /\ q[1] \in Item
         /\ Elements(PopHeap(q)) = Elements(q) \ {q[1]}
         /\ \A x \in Elements(q) : q[1].pts <= x.pts
         /\ \A i, k \in DOMAIN PopHeap(q) :
              PopHeap(q)[i].id = PopHeap(q)[k].id /\ PopHeap(q)[i].pts = PopHeap(q)[k].pts
              => i = k
<1> DEFINE n == Len(q)
           b == PopHeap(q)
<1>1. q \in Seq(Item) /\ n \in Nat \ {0} /\ DOMAIN q = 1 .. n
  BY DEF TypeOK
<1>2. 1 \in DOMAIN q
  BY <1>1
<1>3. q[1] \in Elements(q) /\ q[1] \in Item
  BY <1>1, <1>2 DEF Elements
<1>4. \A x \in Elements(q) : q[1].pts <= x.pts
  BY DEF FrontIsEarliest, Elements
<1>5. Elements(b) = { q[j] : j \in 2 .. n }
  BY <1>1, PopHeapElements
<1> HIDE DEF b, n
<1>6. \A j \in DOMAIN q : j = 1 \/ j \in 2 .. n
  BY <1>1
<1>7. \A j \in 2 .. n : j \in DOMAIN q /\ j # 1 /\ q[j] # q[1]
  <2>1. \A j \in 2 .. n : j \in DOMAIN q /\ j # 1
    BY <1>1
  <2> QED
    BY <1>2, <2>1 DEF OneEach
<1>8. Elements(b) = Elements(q) \ {q[1]}
  <2>1. \A x \in Elements(b) : x \in Elements(q) /\ x # q[1]
    BY <1>5, <1>7 DEF Elements
  <2>2. \A x \in Elements(q) : x # q[1] => x \in Elements(b)
    BY <1>5, <1>6 DEF Elements
  <2> QED
    BY <2>1, <2>2
<1>9. ASSUME NEW i \in DOMAIN b, NEW k \in DOMAIN b, b[i].id = b[k].id, b[i].pts = b[k].pts
      PROVE  i = k
  <2>1. DrawnFrom(b, q, 2 .. n)
    BY <1>1, PopHeapDrawn DEF b, n
  <2>2. PICK f \in [ DOMAIN b -> 2 .. n ] :
          /\ \A j, l \in DOMAIN b : f[j] = f[l] => j = l
          /\ \A j \in DOMAIN b : b[j] = q[f[j]]
    BY <2>1 DEF DrawnFrom
  <2>3. f[i] \in DOMAIN q /\ f[k] \in DOMAIN q
    BY <1>7
  <2>4. f[i] = f[k]
    BY <1>9, <2>2, <2>3 DEF OneEach
  <2> QED
    BY <2>2, <2>4
<1> QED
  BY <1>3, <1>4, <1>8, <1>9 DEF b

LEMMA PushOneEach ==
  ASSUME TypeOK, OneEach, NEW x \in Item, OnePerInstant(x), Push(x)
  PROVE  OneEach'
<1> DEFINE n == Len(q) + 1
           a == Append(q, x)
           b == PushHeap(q, x)
<1>1. q \in Seq(Item) /\ q' = b
  BY DEF TypeOK, Push
<1>2. \A i \in 1 .. n : (i \in DOMAIN q /\ a[i] = q[i]) \/ (i = n /\ a[i] = x)
  BY <1>1
<1>3. DrawnFrom(b, a, 1 .. n)
  BY <1>1, PushHeapDrawn
<1> HIDE DEF n, a, b
<1>4. \A i \in DOMAIN q : q[i].id # x.id \/ q[i].pts # x.pts
  BY DEF OnePerInstant, Elements
<1>5. ASSUME NEW i \in 1 .. n, NEW k \in 1 .. n, a[i].id = a[k].id, a[i].pts = a[k].pts
      PROVE  i = k
  BY <1>2, <1>4, <1>5 DEF OneEach
<1>6. PICK f \in [ DOMAIN b -> 1 .. n ] :
        /\ \A j, l \in DOMAIN b : f[j] = f[l] => j = l
        /\ \A j \in DOMAIN b : b[j] = a[f[j]]
  BY <1>3 DEF DrawnFrom
<1>7. ASSUME NEW i \in DOMAIN b, NEW k \in DOMAIN b, b[i].id = b[k].id, b[i].pts = b[k].pts
      PROVE  i = k
  <2>1. f[i] = f[k]
    BY <1>5, <1>6, <1>7
  <2> QED
    BY <1>6, <2>1
<1> QED
  BY <1>1, <1>7 DEF OneEach

LEMMA StepOneEach ==
  ASSUME TypeOK, FrontIsEarliest, OneEach, [OrderlyNext]_vars
  PROVE  OneEach'
<1>1. ASSUME NEW x \in Item, OnePerInstant(x) /\ Push(x) PROVE OneEach'
  BY <1>1, PushOneEach
<1>2. \/ \E x \in Item : OnePerInstant(x) /\ Push(x)
      \/ q' = q
      \/ q # << >> /\ q' = PopHeap(q)
  BY DEF OrderlyNext, Lock, PopLoop, Skip, Take, DropColliding, Taken, Exhausted, Unlock,
         HasNext, Collides, vars
<1>3. CASE q' = q
  BY <1>3 DEF OneEach
<1>4. CASE q # << >> /\ q' = PopHeap(q)
  BY <1>4, PopOrderly DEF OneEach
<1> QED
  BY <1>1, <1>2, <1>3, <1>4

LEMMA StepProgress ==
  ASSUME TypeOK, FrontIsEarliest, OneEach, QueryProgress, [OrderlyNext]_vars
  PROVE  QueryProgress'
<1>1. CASE UNCHANGED vars
  BY <1>1 DEF vars, QueryProgress, Unlocked
<1>2. ASSUME NEW x \in Item, Push(x) PROVE QueryProgress'
  BY <1>2 DEF Push, QueryProgress, Unlocked, Idle
<1>3. ASSUME NEW id \in Input, NEW since \in TS, NEW until \in TS, NEW all \in BOOLEAN,
             Lock(id, since, until, all)
      PROVE  QueryProgress'
  BY <1>3 DEF Lock, QueryProgress, Unlocked, Idle
<1>4. CASE Unlock
  BY <1>4 DEF Unlock, QueryProgress, Unlocked, Idle
<1>5. CASE PopLoop
  <2>1. job \in [ stage : Stage \ {"idle"}, id : Input, since : TS, until : TS, all : BOOLEAN ]
    BY <1>5, JobFields
       DEF PopLoop, Skip, Take, DropColliding, Taken, Exhausted, Unlocked, Idle, TypeOK
  <2>2. ~ Unlocked
    BY <1>5 DEF PopLoop, Skip, Take, DropColliding, Taken, Exhausted, Unlocked, Idle
  <2>3. CASE Skip
    BY <2>2, <2>3 DEF Skip, QueryProgress, Unlocked
  <2>4. CASE Take
    <3>1. q # << >> /\ out' = Append(out, q[1]) /\ out \in Seq(Item) /\ q' = PopHeap(q)
      BY <2>4 DEF Take, HasNext, TypeOK
    <3>2. q[1] \in Item
      BY <3>1, PopOrderly
    <3>3. out' # << >> /\ Len(out') = Len(out) + 1 /\ out'[Len(out')] = q[1]
      BY <3>1, <3>2
    <3>4. \A x \in Elements(q') : q[1].pts <= x.pts
      BY <3>1, PopOrderly
    <3>5. job'.stage = "collide" /\ job'.all = job.all
      BY <2>1, <2>4 DEF Take, Goto
    <3>6. ~ job.all => Len(out') = 1
      BY <2>2, <2>4, <3>3 DEF Take, QueryProgress
    <3>7. ~ Unlocked'
      BY <3>5 DEF Unlocked, Idle
    <3> QED
      BY <3>3, <3>4, <3>5, <3>6, <3>7 DEF QueryProgress
  <2>5. CASE DropColliding
    <3>1. q # << >> /\ out' = out /\ job' = job /\ q' = PopHeap(q)
      BY <2>5 DEF DropColliding, Collides
    <3>2. Elements(q') \subseteq Elements(q)
      BY <3>1, PopOrderly
    <3> QED
      BY <2>2, <3>1, <3>2 DEF QueryProgress, Unlocked
  <2>6. CASE Taken \/ Exhausted
    <3>1. job'.stage \in {"search", "return"} /\ job'.all = job.all
          /\ (~ job.all => job'.stage = "return")
      BY <2>1, <2>6 DEF Taken, Exhausted, Goto
    <3>2. ~ Unlocked'
      BY <3>1 DEF Unlocked, Idle
    <3> QED
      BY <3>1, <3>2 DEF QueryProgress
  <2> QED
    BY <1>5, <2>3, <2>4, <2>5, <2>6 DEF PopLoop
<1> QED
  BY <1>1, <1>2, <1>3, <1>4, <1>5 DEF OrderlyNext

\* Every step of the history is a step of the queue.
LEMMA HistoryIsQueue == HistorySpec => Spec
<1>1. [HistoryNext]_historyVars => [Next]_vars
  BY DEF HistoryNext, historyVars
<1> QED
  BY <1>1, PTL DEF HistorySpec, HistoryInit, Spec

\* The empty queue is in order.
LEMMA InitOrderly == Init => HeapOrdered /\ OneEach /\ QueryProgress
BY DEF Init, HeapOrdered, IsHeap, OneEach, QueryProgress, Idle

\* The callers are orderly after a step if they were and the step was, or if
\* the queue is empty.
LEMMA RememberedStep ==
  ASSUME [HistoryNext]_historyVars, orderly'
  PROVE  (orderly /\ [OrderlyNext]_vars) \/ Init'
BY DEF HistoryNext, Remember, historyVars

\* While the callers are orderly the vector is a heap, and again after it has
\* been emptied, whatever drop_id did to it before (push_heap, pop_heap).
THEOREM HeapStaysWhenOrderly == HistorySpec => []HeapWhenOrderly
<1>1. HistoryInit => HeapWhenOrderly
  BY InitOrderly DEF HistoryInit, HeapWhenOrderly
<1>2. ASSUME TypeOK, HeapWhenOrderly, [HistoryNext]_historyVars PROVE HeapWhenOrderly'
  <2> SUFFICES ASSUME orderly' PROVE HeapOrdered'
    BY DEF HeapWhenOrderly
  <2>1. CASE orderly /\ [OrderlyNext]_vars
    <3>1. [UndroppedNext]_vars
      BY <2>1 DEF OrderlyNext, UndroppedNext
    <3> QED
      BY <1>2, <2>1, <3>1, UndroppedOrdered DEF HeapWhenOrderly
  <2>2. CASE Init'
    BY <2>2 DEF Init, HeapOrdered, IsHeap
  <2> QED
    BY <1>2, <2>1, <2>2, RememberedStep
<1> QED
  BY <1>1, <1>2, HistoryIsQueue, QueueTypeCorrect, PTL DEF HistorySpec

OrderlyHistory == orderly => OrderlyInv

LEMMA OrderlyInvariant == HistorySpec => [](TypeOK /\ OrderlyHistory)
<1> DEFINE Inv == orderly => OneEach /\ QueryProgress
<1>1. HistoryInit => Inv
  BY InitOrderly DEF HistoryInit
<1>2. HistorySpec => []TypeOK
  BY HistoryIsQueue, QueueTypeCorrect, PTL
<1>3. TypeOK /\ HeapWhenOrderly => (orderly => FrontIsEarliest)
  BY HeapHasEarliest DEF HeapWhenOrderly
<1>4. HistorySpec => [](HeapWhenOrderly /\ (orderly => FrontIsEarliest))
  BY <1>2, <1>3, HeapStaysWhenOrderly, PTL
<1>5. ASSUME TypeOK, orderly => FrontIsEarliest, Inv, [HistoryNext]_historyVars PROVE Inv'
  <2> SUFFICES ASSUME orderly' PROVE OneEach' /\ QueryProgress'
    OBVIOUS
  <2>1. CASE orderly /\ [OrderlyNext]_vars
    BY <1>5, <2>1, StepOneEach, StepProgress
  <2>2. CASE Init'
    BY <2>2 DEF Init, OneEach, QueryProgress, Idle
  <2> QED
    BY <1>5, <2>1, <2>2, RememberedStep
<1>6. HistorySpec => []Inv
  <2> HIDE DEF Inv
  <2> QED
    BY <1>1, <1>2, <1>4, <1>5, PTL DEF HistorySpec
<1>7. HeapWhenOrderly /\ (orderly => FrontIsEarliest) /\ Inv => OrderlyHistory
  BY DEF HeapWhenOrderly, OrderlyHistory, OrderlyInv
<1> QED
  BY <1>2, <1>4, <1>6, <1>7, PTL

\* The items of the queue come out in one order only.
LEMMA ItemsRanked ==
  ASSUME TypeOK, OneEach, NEW S \in SUBSET Elements(q)
  PROVE  Ranked(S) /\ S \subseteq Item
<1>1. q \in Seq(Item) /\ DOMAIN q = 1 .. Len(q) /\ Len(q) \in Nat
  BY DEF TypeOK
<1>2. IsFiniteSet(S)
  <2>1. IsFiniteSet(DOMAIN q)
    <3>1. 1 \in Int /\ Len(q) \in Int
      BY <1>1
    <3> QED
      BY <1>1, <3>1, FS_Interval
  <2> DEFINE E == Elements(q)
  <2>2. q \in [ DOMAIN q -> E ] /\ \A x \in E : \E i \in DOMAIN q : q[i] = x
    BY <1>1 DEF Elements
  <2> HIDE DEF E
  <2>3. q \in Surjection(DOMAIN q, E)
    BY <2>2, Fun_IsSurj
  <2>4. IsFiniteSet(E)
    BY <2>1, <2>3, FS_Surjection
  <2> QED
    BY <2>4, FS_Subset DEF E
<1>3. S \subseteq Item
  BY <1>1 DEF Elements
<1>4. Comparable(S)
  BY <1>3, ItemsComparable DEF Comparable
<1>5. ASSUME NEW x \in S, NEW y \in S, x # y PROVE Later(x, y) \/ Later(y, x)
  <2>1. x.id # y.id \/ x.pts # y.pts
    BY <1>5 DEF Elements, OneEach
  <2> QED
    BY <1>4, <2>1 DEF Comparable, Later
<1> QED
  BY <1>2, <1>3, <1>4, <1>5 DEF Ranked

\* what a query has popped, followed by the matches still queued
Whole == out \o InOrder(Pending)

LEMMA AnswerIs == Answer = IF job.all \/ Whole = << >> THEN Whole ELSE << Whole[1] >>
BY DEF Answer, Whole

LEMMA PendingOrder ==
  ASSUME TypeOK, OneEach
  PROVE  /\ Pending \in SUBSET Elements(q) /\ Ranked(Pending) /\ Pending \subseteq Item
         /\ out \in Seq(Item) /\ InOrder(Pending) \in Seq(Item)
         /\ InOrder(Pending) # << >> => InOrder(Pending)[1] \in Pending
         /\ out = << >> => Whole = InOrder(Pending)
         /\ Pending = {} => Whole = out
<1>1. Pending \in SUBSET Elements(q)
  BY DEF Pending
<1>2. Ranked(Pending) /\ Pending \subseteq Item
  BY <1>1, ItemsRanked
<1>3. InOrder(Pending) \in Seq(Pending)
  BY <1>2, InOrderType
<1>4. out \in Seq(Item)
  BY DEF TypeOK
<1> DEFINE s == InOrder(Pending)
           P == Pending
<1>5. Pending = {} => s = << >>
  BY InOrderEmpty
<1> HIDE DEF s, P
<1>6. s \in Seq(P) /\ P \subseteq Item
  BY <1>2, <1>3 DEF s, P
<1>7. s \in Seq(Item)
  BY <1>6
<1>8. s # << >> => s[1] \in P
  BY <1>6
<1>9. Whole = out \o s
  BY DEF Whole, s
<1>10. (out = << >> => Whole = s) /\ (s = << >> => Whole = out)
  BY <1>4, <1>7, <1>9
<1> QED
  BY <1>1, <1>2, <1>4, <1>5, <1>7, <1>8, <1>10 DEF s, P

\* What a round of the loops pops is not one of the items that survive.
LEMMA SurvivorsStay ==
  ASSUME TypeOK, FrontIsEarliest, OneEach, q # << >>, q' = PopHeap(q), Answer' = Answer,
         job'.all = job.all, job'.until = job.until, q[1].pts < job.until, job.until \in Int,
         ~ job.all /\ Answer # << >> => ~ (q[1].pts > Answer[1].pts)
  PROVE  Survivors' = Survivors
<1>1. Elements(q') = Elements(q) \ {q[1]} /\ q[1] \in Item
  BY PopOrderly
<1>2. ~ (q[1].pts >= job.until)
  <2>1. q[1].pts \in Int
    BY <1>1, QueueAssumption
  <2> QED
    BY <2>1
<1>3. CASE job.all \/ Answer = << >>
  <2>1. /\ Survivors = { x \in Elements(q) : x.pts >= job.until }
        /\ Survivors' = { x \in Elements(q') : x.pts >= job'.until }
    BY <1>3 DEF Survivors
  <2> QED
    BY <1>1, <1>2, <2>1
<1>4. CASE ~ (job.all \/ Answer = << >>)
  <2>1. /\ Survivors = { x \in Elements(q) : x.pts > Answer[1].pts }
        /\ Survivors' = { x \in Elements(q') : x.pts > Answer[1].pts }
    BY <1>4 DEF Survivors
  <2> QED
    BY <1>1, <1>4, <2>1
<1> QED
  BY <1>3, <1>4

LEMMA SkipStutters ==
  ASSUME TypeOK, OrderlyInv, Skip
  PROVE  Answer' = Answer /\ Survivors' = Survivors
<1>1. q # << >> /\ q' = PopHeap(q) /\ out' = out /\ job' = job /\ job.stage = "search"
      /\ q[1].pts < job.until /\ ~ Matches(q[1])
  BY DEF Skip, HasNext
<1>2. FrontIsEarliest /\ OneEach /\ QueryProgress
  BY DEF OrderlyInv
<1>3. Elements(q') = Elements(q) \ {q[1]} /\ \A x \in Elements(q) : q[1].pts <= x.pts
  BY <1>1, <1>2, PopOrderly
<1>4. Pending' = Pending
  BY <1>1, <1>3 DEF Pending, Matches
<1>5. Answer' = Answer
  BY <1>1, <1>4 DEF Answer
<1>6. ~ Unlocked /\ job.until \in Int
  <2>1. ~ Unlocked
    BY <1>1 DEF Unlocked, Idle
  <2> QED
    BY <2>1, JobFields, QueueAssumption DEF TypeOK
<1>7. ASSUME ~ job.all, Answer # << >> PROVE ~ (q[1].pts > Answer[1].pts)
  <2>1. out = << >>
    BY <1>1, <1>2, <1>6, <1>7 DEF QueryProgress
  <2>2. Whole = InOrder(Pending) /\ (Whole # << >> => Whole[1] \in Pending)
        /\ Pending \subseteq Elements(q) /\ Pending \subseteq Item
    BY <1>2, <2>1, PendingOrder
  <2>3. Answer[1] = Whole[1] /\ Whole # << >>
    BY <1>7, AnswerIs
  <2>4. Answer[1] \in Elements(q) /\ Answer[1] \in Item
    BY <2>2, <2>3
  <2>5. q[1].pts <= Answer[1].pts /\ q[1].pts \in Int /\ Answer[1].pts \in Int
    <3>1. q[1] \in Item
      BY <1>1, <1>2, PopOrderly
    <3> QED
      BY <1>3, <2>4, <3>1, QueueAssumption
  <2> QED
    BY <2>5
<1> QED
  BY <1>1, <1>2, <1>5, <1>6, <1>7, SurvivorsStay

LEMMA TakeStutters ==
  ASSUME TypeOK, OrderlyInv, Take
  PROVE  Answer' = Answer /\ Survivors' = Survivors
<1> DEFINE x == q[1]
           R == Pending \ {x}
<1>1. /\ q # << >> /\ q' = PopHeap(q) /\ out' = Append(out, x) /\ job.stage = "search"
      /\ x.pts < job.until /\ Matches(x)
  BY DEF Take, HasNext
<1>2. FrontIsEarliest /\ OneEach /\ QueryProgress
  BY DEF OrderlyInv
<1>3. ~ Unlocked /\ job.until \in Int
  <2>1. ~ Unlocked
    BY <1>1 DEF Unlocked, Idle
  <2> QED
    BY <2>1, JobFields, QueueAssumption DEF TypeOK
<1>4. job'.stage = "collide" /\ job'.all = job.all /\ job'.id = job.id
      /\ job'.since = job.since /\ job'.until = job.until
  <2>1. job \in [ stage : Stage \ {"idle"}, id : Input, since : TS, until : TS, all : BOOLEAN ]
    BY <1>3, JobFields DEF TypeOK
  <2> QED
    BY <2>1 DEF Take, Goto
<1>5. /\ Elements(q') = Elements(q) \ {x} /\ x \in Elements(q) /\ x \in Item
      /\ \A y \in Elements(q) : x.pts <= y.pts
  BY <1>1, <1>2, PopOrderly
<1>6. out \in Seq(Item) /\ out'[Len(out')] = x
  <2>1. out \in Seq(Item)
    BY DEF TypeOK
  <2> QED
    BY <1>1, <1>5, <2>1
<1>7. x \in Pending
  BY <1>1, <1>5 DEF Pending
<1>8. \A y \in Pending : y # x => Later(y, x) /\ y.pts > x.pts
  <2> SUFFICES ASSUME NEW y \in Pending, y # x PROVE Later(y, x) /\ y.pts > x.pts
    OBVIOUS
  <2>1. y \in Elements(q) /\ y.id = x.id /\ x.pts <= y.pts
    BY <1>1, <1>5 DEF Pending, Matches
  <2>2. y.pts # x.pts
    BY <1>2, <1>5, <2>1 DEF OneEach, Elements
  <2>3. y.pts \in Int /\ x.pts \in Int
    <3>1. y \in Item
      BY <2>1 DEF TypeOK, Elements
    <3> QED
      BY <1>5, <3>1, QueueAssumption
  <2> QED
    BY <2>1, <2>2, <2>3 DEF Later
<1>9. Pending' = R
  <2>1. Pending' = { y \in Elements(q) \ {x} :
                       y.pts >= job.since /\ y.id = job.id /\ y.pts < job.until
                       /\ y.pts > x.pts }
    BY <1>4, <1>5, <1>6 DEF Pending, Matches
  <2>2. Pending = { y \in Elements(q) :
                      y.pts >= job.since /\ y.id = job.id /\ y.pts < job.until }
    BY <1>1 DEF Pending, Matches
  <2> QED
    BY <1>8, <2>1, <2>2
<1>10. InOrder(Pending) = << x >> \o InOrder(R) /\ InOrder(R) \in Seq(Item)
  <2>1. Ranked(Pending)
    BY <1>2, PendingOrder
  <2>2. Ranked(R) /\ InOrder(Pending) = << x >> \o InOrder(R)
    BY <1>7, <1>8, <2>1, InOrderFirst
  <2>3. R \in SUBSET Elements(q)
    BY DEF Pending
  <2>4. R \subseteq Item
    BY <1>2, <2>3, ItemsRanked
  <2>5. InOrder(R) \in Seq(R)
    BY <2>2, InOrderType
  <2> HIDE DEF R
  <2> QED
    BY <2>2, <2>4, <2>5
<1>11. Whole' = Whole
  <2> DEFINE s == InOrder(R)
  <2> HIDE DEF s
  <2>1. Whole' = Append(out, x) \o s
    BY <1>1, <1>9 DEF Whole, s
  <2>2. Whole = out \o (<< x >> \o s)
    BY <1>10 DEF Whole, s
  <2>3. s \in Seq(Item) /\ x \in Item /\ out \in Seq(Item)
    BY <1>5, <1>6, <1>10 DEF s
  <2> HIDE DEF x
  <2>4. Append(out, x) \o s = out \o (<< x >> \o s)
    BY <2>3
  <2> QED
    BY <2>1, <2>2, <2>4
<1>12. Answer' = Answer
  <2>1. Answer' = IF job'.all \/ Whole' = << >> THEN Whole' ELSE << Whole'[1] >>
    BY DEF Answer, Whole
  <2> QED
    BY <1>4, <1>11, <2>1, AnswerIs
<1>13. ASSUME ~ job.all PROVE Answer[1] = x
  <2>1. out = << >>
    BY <1>1, <1>2, <1>3, <1>13 DEF QueryProgress
  <2>2. Whole = InOrder(Pending)
    BY <1>2, <2>1, PendingOrder
  <2> DEFINE s == InOrder(R)
  <2> HIDE DEF s
  <2>3. Whole = << x >> \o s /\ s \in Seq(Item) /\ x \in Item
    BY <1>5, <1>10, <2>2 DEF s
  <2> HIDE DEF x
  <2>4. Whole # << >> /\ Whole[1] = x
    BY <2>3
  <2> QED
    BY <1>13, <2>4, AnswerIs
<1>14. ~ (x.pts > x.pts)
  <2>1. x.pts \in Int
    BY <1>5, QueueAssumption
  <2> QED
    BY <2>1
<1> QED
  BY <1>1, <1>2, <1>3, <1>4, <1>12, <1>13, <1>14, SurvivorsStay

LEMMA DropCollidingStutters ==
  ASSUME TypeOK, OrderlyInv, PoppedSatisfyQuery, DropColliding
  PROVE  Answer' = Answer /\ Survivors' = Survivors
<1> DEFINE last == out[Len(out)]
<1>1. q # << >> /\ q' = PopHeap(q) /\ out' = out /\ job' = job /\ job.stage = "collide"
      /\ q[1].pts = last.pts
  BY DEF DropColliding, Collides
<1>2. FrontIsEarliest /\ OneEach /\ QueryProgress
  BY DEF OrderlyInv
<1>3. ~ Unlocked /\ job.until \in Int
  <2>1. ~ Unlocked
    BY <1>1 DEF Unlocked, Idle
  <2> QED
    BY <2>1, JobFields, QueueAssumption DEF TypeOK
<1>4. Elements(q') = Elements(q) \ {q[1]}
  BY <1>1, <1>2, PopOrderly
<1>5. out # << >> /\ last.pts < job.until /\ last \in Item /\ last.pts \in Int
      /\ out \in Seq(Item)
  <2>1. out # << >> /\ out \in Seq(Item)
    BY <1>1, <1>2 DEF QueryProgress, TypeOK
  <2>2. Len(out) \in DOMAIN out
    BY <2>1
  <2>3. last \in Item /\ last.pts < job.until
    BY <1>3, <2>1, <2>2 DEF PoppedSatisfyQuery
  <2> QED
    BY <2>1, <2>3, QueueAssumption
<1>6. ~ (q[1].pts > last.pts)
  BY <1>1, <1>5
<1>7. Pending' = Pending
  BY <1>1, <1>4, <1>6 DEF Pending, Matches
<1>8. Answer' = Answer
  BY <1>1, <1>7 DEF Answer
<1>9. ASSUME ~ job.all PROVE Answer[1] = last
  <2>1. Len(out) = 1
    BY <1>1, <1>2, <1>3, <1>9 DEF QueryProgress
  <2> DEFINE s == InOrder(Pending)
  <2>2. s \in Seq(Item)
    BY <1>2, PendingOrder
  <2> HIDE DEF s
  <2>3. Whole = out \o s
    BY DEF Whole, s
  <2>4. Whole # << >> /\ Whole[1] = out[1]
    BY <1>5, <2>1, <2>2, <2>3
  <2> QED
    BY <1>9, <2>1, <2>4, AnswerIs
<1> QED
  BY <1>1, <1>2, <1>3, <1>5, <1>6, <1>8, <1>9, SurvivorsStay

\* pop_impl has returned: a pop_all looks for the next match, a pop is done.
LEMMA TakenImplements ==
  ASSUME TypeOK, OrderlyInv, PoppedSatisfyQuery, Taken
  PROVE  /\ q' = q /\ out' = out /\ ~ Unlocked /\ ~ Unlocked'
         /\ Popping' => Answer' = Answer /\ Survivors' = Survivors
         /\ ~ Popping' => Answer = out /\ Survivors = Elements(q)
<1> DEFINE last == out[Len(out)]
<1>1. q' = q /\ out' = out /\ job.stage = "collide" /\ ~ Collides
  BY DEF Taken
<1>2. FrontIsEarliest /\ OneEach /\ QueryProgress
  BY DEF OrderlyInv
<1>3. ~ Unlocked
  BY <1>1 DEF Unlocked, Idle
<1>4. job'.stage = (IF job.all THEN "search" ELSE "return") /\ job'.all = job.all
      /\ job'.id = job.id /\ job'.since = job.since /\ job'.until = job.until
  <2>1. job \in [ stage : Stage \ {"idle"}, id : Input, since : TS, until : TS, all : BOOLEAN ]
    BY <1>3, JobFields DEF TypeOK
  <2>2. job' = [ job EXCEPT !.stage = IF job.all THEN "search" ELSE "return" ]
    BY DEF Taken, Goto
  <2> QED
    BY <2>1, <2>2
<1>5. ~ Unlocked'
  BY <1>4 DEF Unlocked, Idle
<1>6. out # << >> /\ last.pts \in Int /\ out \in Seq(Item)
  <2>1. out # << >> /\ out \in Seq(Item)
    BY <1>1, <1>2 DEF QueryProgress, TypeOK
  <2>2. Len(out) \in DOMAIN out
    BY <2>1
  <2>3. last \in Item
    BY <2>1, <2>2
  <2> QED
    BY <2>1, <2>3, QueueAssumption
<1>7. ASSUME NEW x \in Elements(q) PROVE x.pts > last.pts
  <2>1. q # << >>
    BY <1>7 DEF Elements
  <2>2. q[1].pts # last.pts
    BY <1>1, <2>1 DEF Collides
  <2>3. q[1].pts <= x.pts /\ q[1] \in Elements(q)
    BY <1>2, <2>1, PopOrderly
  <2>4. last.pts <= q[1].pts
    BY <1>1, <1>2, <2>3 DEF QueryProgress
  <2>5. q[1].pts \in Int /\ x.pts \in Int
    <3>1. q[1] \in Item /\ x \in Item
      BY <1>2, <2>1, PopOrderly DEF TypeOK, Elements
    <3> QED
      BY <3>1, QueueAssumption
  <2> QED
    BY <1>6, <2>2, <2>3, <2>4, <2>5
<1>8. ASSUME Popping' PROVE Answer' = Answer /\ Survivors' = Survivors
  <2>1. job.all /\ job'.stage = "search"
    BY <1>4, <1>8 DEF Popping
  <2>2. Pending = { x \in Elements(q) :
                      Matches(x) /\ x.pts < job.until /\ x.pts > last.pts }
    BY <1>1 DEF Pending
  <2>3. Pending' = { x \in Elements(q) : Matches(x) /\ x.pts < job.until }
    BY <1>1, <1>4, <2>1 DEF Pending, Matches
  <2>4. Pending' = Pending
    BY <1>7, <2>2, <2>3
  <2>5. Answer' = Answer
    BY <1>1, <1>4, <2>4 DEF Answer
  <2> QED
    BY <1>1, <1>4, <2>1, <2>5 DEF Survivors
<1>9. ASSUME ~ Popping' PROVE Answer = out /\ Survivors = Elements(q)
  <2>1. ~ job.all
    BY <1>4, <1>9 DEF Popping
  <2>2. Len(out) = 1
    BY <1>1, <1>2, <1>3, <2>1 DEF QueryProgress
  <2> DEFINE s == InOrder(Pending)
  <2>3. s \in Seq(Item)
    BY <1>2, PendingOrder
  <2> HIDE DEF s
  <2>4. Whole = out \o s
    BY DEF Whole, s
  <2>5. Whole # << >> /\ Whole[1] = out[1]
    BY <1>6, <2>2, <2>3, <2>4
  <2>6. out = << out[1] >>
    BY <1>6, <2>2
  <2>7. Answer = out
    BY <2>1, <2>5, <2>6, AnswerIs
  <2>8. Survivors = { x \in Elements(q) : x.pts > last.pts }
    BY <1>6, <2>1, <2>2, <2>7 DEF Survivors
  <2> QED
    BY <1>7, <2>7, <2>8
<1> QED
  BY <1>1, <1>3, <1>5, <1>8, <1>9

\* No match is left: what has been popped is the answer.
LEMMA ExhaustedImplements ==
  ASSUME TypeOK, OrderlyInv, Exhausted
  PROVE  /\ q' = q /\ out' = out /\ ~ Unlocked /\ ~ Unlocked' /\ ~ Popping'
         /\ Answer = out /\ Survivors = Elements(q)
<1>1. q' = q /\ out' = out /\ job.stage = "search" /\ ~ HasNext
  BY DEF Exhausted
<1>2. FrontIsEarliest /\ OneEach /\ QueryProgress
  BY DEF OrderlyInv
<1>3. ~ Unlocked /\ job.until \in Int
  <2>1. ~ Unlocked
    BY <1>1 DEF Unlocked, Idle
  <2> QED
    BY <2>1, JobFields, QueueAssumption DEF TypeOK
<1>4. job'.stage = "return"
  <2>1. job \in [ stage : Stage \ {"idle"}, id : Input, since : TS, until : TS, all : BOOLEAN ]
    BY <1>3, JobFields DEF TypeOK
  <2> QED
    BY <2>1 DEF Exhausted, Goto
<1>5. ~ Unlocked' /\ ~ Popping'
  BY <1>4 DEF Unlocked, Idle, Popping
<1>6. ASSUME NEW x \in Elements(q) PROVE x.pts >= job.until /\ ~ (x.pts < job.until)
  <2>1. q # << >>
    BY <1>6 DEF Elements
  <2>2. ~ (q[1].pts < job.until)
    BY <1>1, <2>1 DEF HasNext
  <2>3. q[1].pts <= x.pts
    BY <1>2, <2>1, PopOrderly
  <2>4. q[1].pts \in Int /\ x.pts \in Int
    <3>1. q[1] \in Item /\ x \in Item
      BY <1>2, <2>1, PopOrderly DEF TypeOK, Elements
    <3> QED
      BY <3>1, QueueAssumption
  <2> QED
    BY <1>3, <2>2, <2>3, <2>4
<1>7. Pending = {}
  BY <1>6 DEF Pending
<1>8. Whole = out
  BY <1>2, <1>7, PendingOrder
<1>9. job.all \/ out = << >>
  BY <1>1, <1>2, <1>3 DEF QueryProgress
<1>10. Answer = out
  BY <1>8, <1>9, AnswerIs
<1>11. Survivors = { x \in Elements(q) : x.pts >= job.until }
  BY <1>9, <1>10 DEF Survivors
<1> QED
  BY <1>1, <1>3, <1>5, <1>6, <1>10, <1>11

\* The order in which TimedQueue hands out items is the one of the heap.
LEMMA SameOrder == \A S : Promised!InOrder(S) = InOrder(S)
BY DEF Promised!InOrder, InOrder, Promised!Later, Later, Promised!Cardinality, Cardinality

\* A query takes effect when it gets the mutex.
LEMMA LockImplements ==
  ASSUME TypeOK, OrderlyInv, NEW id \in Input, NEW since \in TS, NEW until \in TS,
         NEW all \in BOOLEAN, Lock(id, since, until, all)
  PROVE  Promised!PopAll(id, since, until) \/ Promised!Pop(id, since, until)
<1> DEFINE M == { x \in Elements(q) : x.id = id /\ since <= x.pts /\ x.pts < until }
           s == InOrder(M)
<1>1. /\ Unlocked /\ q' = q /\ out' = << >>
      /\ job' = [ stage |-> "search", id |-> id, since |-> since, until |-> until, all |-> all ]
  BY DEF Lock
<1>2. OneEach
  BY DEF OrderlyInv
<1>3. job'.stage = "search" /\ job'.id = id /\ job'.since = since /\ job'.until = until
      /\ job'.all = all
  BY <1>1
<1>4. ~ Popping /\ Popping' /\ ~ Unlocked'
  BY <1>1, <1>3 DEF Popping, Unlocked, Idle
<1>5. \A x \in Elements(q) : x.pts \in Int
  <2>1. Elements(q) \subseteq Item
    BY DEF TypeOK, Elements
  <2> QED
    BY <2>1, QueueAssumption
<1>6. since \in Int
  BY QueueAssumption
<1>7. Pending' = M
  <2>1. Pending' = { x \in Elements(q) : x.pts >= since /\ x.id = id /\ x.pts < until }
    BY <1>1, <1>3 DEF Pending, Matches
  <2> QED
    BY <1>5, <1>6, <2>1
<1>8. s \in Seq(Item)
  <2>1. Ranked(M) /\ M \subseteq Item
    BY <1>2, ItemsRanked
  <2>2. s \in Seq(M)
    BY <2>1, InOrderType
  <2> HIDE DEF s, M
  <2> QED
    BY <2>1, <2>2
<1>9. Promised!Matching(id, since, until) = M
  BY <1>4 DEF Promised!Matching
<1> HIDE DEF M
<1>10. << >> \o s = s
  BY <1>8
<1>11. Answer' = IF all \/ s = << >> THEN s ELSE << s[1] >>
  BY <1>1, <1>3, <1>7, <1>10 DEF Answer
<1>12. Survivors' = IF all \/ Answer' = << >>
                    THEN { x \in Elements(q) : x.pts >= until }
                    ELSE { x \in Elements(q) : x.pts > Answer'[1].pts }
  BY <1>1, <1>3 DEF Survivors
<1>13. Promised!InOrder(M) = s
  BY SameOrder
<1> HIDE DEF s
<1>14. CASE all
  <2>1. Answer' = s /\ Survivors' = { x \in Elements(q) : x.pts >= until }
    BY <1>11, <1>12, <1>14
  <2> QED
    BY <1>1, <1>4, <1>9, <1>13, <2>1 DEF Promised!PopAll
<1>15. CASE ~ all /\ s = << >>
  <2>1. Answer' = << >> /\ Survivors' = { x \in Elements(q) : x.pts >= until }
    BY <1>11, <1>12, <1>15
  <2> QED
    BY <1>1, <1>4, <1>9, <1>13, <1>15, <2>1 DEF Promised!Pop
<1>16. CASE ~ all /\ s # << >>
  <2>1. Answer' = << s[1] >> /\ Answer' # << >> /\ Answer'[1] = s[1]
    BY <1>11, <1>16
  <2>2. Survivors' = { x \in Elements(q) : x.pts > s[1].pts }
    BY <1>12, <1>16, <2>1
  <2> QED
    BY <1>1, <1>4, <1>9, <1>13, <1>16, <2>1, <2>2 DEF Promised!Pop
<1> QED
  BY <1>14, <1>15, <1>16

LEMMA PushImplements ==
  ASSUME TypeOK, NEW x \in Item, Push(x)
  PROVE  Promised!Push(x)
<1>1. Unlocked /\ q' = PushHeap(q, x) /\ job' = job /\ out' = out
  BY DEF Push
<1>2. Elements(q') = Elements(q) \cup {x}
  BY <1>1, PushHeapElements DEF TypeOK
<1>3. ~ Popping /\ ~ Popping' /\ Unlocked'
  BY <1>1 DEF Popping, Unlocked, Idle
<1> QED
  BY <1>1, <1>2, <1>3 DEF Promised!Push

LEMMA UnlockImplements == Unlock => Promised!Return
<1> SUFFICES ASSUME Unlock PROVE Promised!Return
  OBVIOUS
<1>1. job.stage = "return" /\ job' = Idle /\ out' = << >> /\ q' = q
  BY DEF Unlock
<1>2. ~ Unlocked /\ Unlocked' /\ ~ Popping /\ ~ Popping'
  BY <1>1 DEF Unlocked, Popping, Idle
<1> QED
  BY <1>1, <1>2 DEF Promised!Return

LEMMA PopLoopImplements ==
  ASSUME TypeOK, OrderlyInv, PoppedSatisfyQuery, PopLoop
  PROVE  UNCHANGED Promised!vars
<1>1. CASE Skip \/ DropColliding
  <2>1. job' = job /\ Popping /\ Popping' /\ Unlocked' = Unlocked
    BY <1>1 DEF Skip, DropColliding, Popping, Unlocked
  <2>2. Answer' = Answer /\ Survivors' = Survivors
    BY <1>1, SkipStutters, DropCollidingStutters
  <2> QED
    BY <2>1, <2>2 DEF Promised!vars
<1>2. CASE Take
  <2>1. job.stage = "search" /\ ~ Unlocked
    BY <1>2 DEF Take, Unlocked, Idle
  <2>2. job'.stage = "collide"
    <3>1. job \in [ stage : Stage \ {"idle"}, id : Input, since : TS, until : TS, all : BOOLEAN ]
      BY <2>1, JobFields DEF TypeOK
    <3> QED
      BY <1>2, <3>1 DEF Take, Goto
  <2>3. Popping /\ Popping' /\ ~ Unlocked'
    BY <2>1, <2>2 DEF Popping, Unlocked, Idle
  <2>4. Answer' = Answer /\ Survivors' = Survivors
    BY <1>2, TakeStutters
  <2> QED
    BY <2>1, <2>3, <2>4 DEF Promised!vars
<1>3. CASE Taken
  <2>1. Popping
    BY <1>3 DEF Taken, Popping
  <2> QED
    BY <1>3, <2>1, TakenImplements DEF Promised!vars
<1>4. CASE Exhausted
  <2>1. Popping
    BY <1>4 DEF Exhausted, Popping
  <2> QED
    BY <1>4, <2>1, ExhaustedImplements DEF Promised!vars
<1> QED
  BY <1>1, <1>2, <1>3, <1>4 DEF PopLoop

LEMMA StepImplements ==
  TypeOK /\ OrderlyInv /\ PoppedSatisfyQuery /\ [OrderlyNext]_vars
  => [Promised!Next]_(Promised!vars)
<1> SUFFICES ASSUME TypeOK, OrderlyInv, PoppedSatisfyQuery, [OrderlyNext]_vars
             PROVE  [Promised!Next]_(Promised!vars)
  OBVIOUS
<1>1. CASE UNCHANGED vars
  BY <1>1 DEF vars, Promised!vars, Popping, Unlocked, Answer, Survivors, Pending, Matches
<1>2. ASSUME NEW x \in Item, Push(x) PROVE Promised!Next
  BY <1>2, PushImplements DEF Promised!Next
<1>3. ASSUME NEW id \in Input, NEW since \in TS, NEW until \in TS, NEW all \in BOOLEAN,
             Lock(id, since, until, all)
      PROVE  Promised!Next
  BY <1>3, LockImplements DEF Promised!Next
<1>4. CASE PopLoop
  BY <1>4, PopLoopImplements
<1>5. CASE Unlock
  BY <1>5, UnlockImplements DEF Promised!Next
<1> QED
  BY <1>1, <1>2, <1>3, <1>4, <1>5 DEF OrderlyNext

\* A drop_id that empties the queue is one of TimedQueue.
LEMMA EmptyingImplements ==
  ASSUME TypeOK, orderly => OrderlyInv, Next, Init', orderly
  PROVE  [OrderlyNext]_vars \/ Promised!Next
<1>1. ASSUME NEW x \in Item, Push(x) PROVE FALSE
  <2>1. Elements(q') = Elements(q) \cup {x}
    BY <1>1, PushHeapElements DEF TypeOK, Push
  <2>2. Elements(q') = {}
    BY DEF Init, Elements
  <2> QED
    BY <2>1, <2>2
<1>2. ASSUME NEW id \in Input, DropId(id) PROVE Promised!DropId(id)
  <2>1. q \in Seq(Item) /\ Unlocked /\ RemoveId(q, id) = << >> /\ job' = job /\ out' = out
    BY <1>2 DEF TypeOK, DropId, Init
  <2>2. /\ IsFiniteSet(Kept(q, id))
        /\ Cardinality(Kept(q, id)) \in Nat
    <3>1. IsFiniteSet(DOMAIN q)
      <4>1. DOMAIN q = 1 .. Len(q) /\ Len(q) \in Int /\ 1 \in Int
        BY <2>1
      <4> QED
        BY <4>1, FS_Interval
    <3>2. Kept(q, id) \subseteq DOMAIN q
      BY DEF Kept
    <3>3. IsFiniteSet(Kept(q, id))
      BY <3>1, <3>2, FS_Subset
    <3> QED
      BY <3>3, FS_CardinalityType
  <2>3. DOMAIN RemoveId(q, id) = 1 .. Cardinality(Kept(q, id))
    BY <2>1, RemoveIdDrawn
  <2>4. Cardinality(Kept(q, id)) = 0
    <3>1. 1 .. Cardinality(Kept(q, id)) = {}
      BY <2>1, <2>3
    <3> QED
      BY <2>2, <3>1
  <2>5. Kept(q, id) = {}
    BY <2>2, <2>4, FS_EmptySet
  <2>6. \A x \in Elements(q) : x.id = id
    BY <2>5 DEF Kept, Elements
  <2>7. Elements(q') = {} /\ ~ Popping /\ ~ Popping' /\ Unlocked'
    BY <2>1 DEF Init, Elements, Popping, Unlocked, Idle
  <2> QED
    BY <2>1, <2>6, <2>7 DEF Promised!DropId
<1> QED
  BY <1>1, <1>2 DEF Next, OrderlyNext, Promised!Next

\* What the comments of MetadataQueue promise (lines 75-96) is what its loops
\* do, element by element, as long as callers push one item of an input per
\* instant and drop no input, and again from every moment on at which the
\* queue is empty and no pop under way.
THEOREM QueueImplementsTimedQueue == HistorySpec => ImplementsTimedQueue
<1>1. Init => Promised!Init
  BY DEF Init, Promised!Init, Popping, Unlocked, Idle, Elements
<1>2. HistorySpec => []PoppedSatisfyQuery
  BY HistoryIsQueue, PopAnswersQuery, PTL
<1> DEFINE Step == orderly' => IF orderly THEN [Promised!Next]_(Promised!vars)
                                          ELSE Promised!Init'
<1>3. ASSUME TypeOK, OrderlyHistory, PoppedSatisfyQuery, [HistoryNext]_historyVars
      PROVE  [Step]_historyVars
  <2> SUFFICES ASSUME HistoryNext, orderly' PROVE Step
    BY <1>3
  <2>1. CASE orderly /\ [OrderlyNext]_vars
    BY <1>3, <2>1, StepImplements DEF OrderlyHistory
  <2>2. CASE Init' /\ ~ orderly
    BY <2>2 DEF Init, Promised!Init, Popping, Unlocked, Idle, Elements
  <2>3. CASE Init' /\ orderly /\ ~ [OrderlyNext]_vars
    BY <1>3, <2>3, EmptyingImplements DEF OrderlyHistory, HistoryNext
  <2> QED
    BY <1>3, <2>1, <2>2, <2>3, RememberedStep
<1>4. HistorySpec => [][Step]_historyVars
  <2> HIDE DEF Step
  <2> QED
    BY <1>2, <1>3, OrderlyInvariant, PTL DEF HistorySpec
<1>5. HistorySpec => Promised!Init
  BY <1>1 DEF HistorySpec, HistoryInit
<1> QED
  BY <1>4, <1>5 DEF ImplementsTimedQueue
=============================================================================

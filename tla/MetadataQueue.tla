---------------------------- MODULE MetadataQueue ----------------------------
(***************************************************************************)
(* One MetadataQueue (src/metadata_queue.h): a vector kept as a heap under *)
(* a mutex.  Extractors push into it and drop their own items, the         *)
(* injector pops from it.                                                  *)
(*                                                                         *)
(* push and drop_id hold the mutex for a fixed piece of work and are one   *)
(* step each.  pop and pop_all loop under the mutex; every round of the    *)
(* loops is a step of its own, and until Unlock no other operation can     *)
(* start.                                                                  *)
(***************************************************************************)
EXTENDS MetadataHeap

CONSTANTS
  Input,      \* the input ids (integers)
  TS,         \* the instants of the system clock (integers)
  Item,       \* the metadata items: records with fields id, pts, order
  Capacity    \* bound: no push into a queue of this many items

ASSUME QueueAssumption ==
  /\ Input \subseteq Int
  /\ TS \subseteq Int
  /\ Capacity \in Nat
  /\ \A x \in Item : x.id \in Input /\ x.pts \in TS /\ x.order \in Int

VARIABLES
  q,      \* the vector
  job,    \* the pop or pop_all in progress: its stage and its arguments
  out     \* what it has popped so far

vars == << q, job, out >>

(***************************************************************************)
(* The stages of a pop: pop_impl looks for a match ("search"), drops what  *)
(* collides with the match it took ("collide"), and the call returns with  *)
(* the mutex still held ("return").                                        *)
(***************************************************************************)
Stage == {"idle", "search", "collide", "return"}

Idle == [ stage |-> "idle" ]

Job == {Idle} \cup
       [ stage : Stage \ {"idle"}, id : Input, since : TS, until : TS, all : BOOLEAN ]

TypeOK ==
  /\ q \in Seq(Item)
  /\ out \in Seq(Item)
  /\ job \in Job

Init ==
  /\ q = << >>
  /\ out = << >>
  /\ job = Idle

Unlocked == job = Idle

\* mutant of Goto: the arguments of the query are lost
GotoForgetting(stage) == job' = [ stage |-> stage ]

Goto(stage) == job' = [ job EXCEPT !.stage = stage ]

(***************************************************************************)
(* push and drop_id.                                                       *)
(***************************************************************************)
Push(x) ==
  /\ Unlocked
  /\ Len(q) < Capacity
  /\ q' = PushHeap(q, x)
  /\ UNCHANGED << job, out >>

DropId(id) ==
  /\ Unlocked
  /\ q' = RemoveId(q, id)
  /\ UNCHANGED << job, out >>

(***************************************************************************)
(* pop (all = FALSE) and pop_all (all = TRUE).                             *)
(***************************************************************************)
Lock(id, since, until, all) ==
  /\ Unlocked
  /\ job' = [ stage |-> "search", id |-> id, since |-> since, until |-> until, all |-> all ]
  /\ out' = << >>
  /\ UNCHANGED q

\* mutant of HasNext: the end of the time frame is taken as inclusive
HasNextUpToUntil == q # << >> /\ q[1].pts <= job.until

\* the head of pop_impl's loop does not return nullopt
HasNext == q # << >> /\ q[1].pts < job.until

\* mutant of Matches: the input is not compared
MatchesAnyInput(x) == x.pts >= job.since

Matches(x) == x.pts >= job.since /\ x.id = job.id

\* mutant of Collides: only the items of the same input are dropped
CollidesInInput == q # << >> /\ q[1].pts = out[Len(out)].pts /\ q[1].id = job.id

Collides == q # << >> /\ q[1].pts = out[Len(out)].pts

\* mutant of Skip: the item is not popped
SkipInPlace ==
  /\ job.stage = "search"
  /\ HasNext
  /\ ~ Matches(q[1])
  /\ UNCHANGED << q, job, out >>

\* an earlier item, or one of another input: dropped
Skip ==
  /\ job.stage = "search"
  /\ HasNext
  /\ ~ Matches(q[1])
  /\ q' = PopHeap(q)
  /\ UNCHANGED << job, out >>

Take ==
  /\ job.stage = "search"
  /\ HasNext
  /\ Matches(q[1])
  /\ out' = Append(out, q[1])
  /\ q' = PopHeap(q)
  /\ Goto("collide")

DropColliding ==
  /\ job.stage = "collide"
  /\ Collides
  /\ q' = PopHeap(q)
  /\ UNCHANGED << job, out >>

\* pop_impl returns a value: pop is done, pop_all calls it again
Taken ==
  /\ job.stage = "collide"
  /\ ~ Collides
  /\ Goto(IF job.all THEN "search" ELSE "return")
  /\ UNCHANGED << q, out >>

\* pop_impl returns nullopt
Exhausted ==
  /\ job.stage = "search"
  /\ ~ HasNext
  /\ Goto("return")
  /\ UNCHANGED << q, out >>

\* the caller gets what was popped
Unlock ==
  /\ job.stage = "return"
  /\ job' = Idle
  /\ out' = << >>
  /\ UNCHANGED q

PopLoop == Skip \/ Take \/ DropColliding \/ Taken \/ Exhausted

Next ==
  \/ \E x \in Item : Push(x)
  \/ \E id \in Input : DropId(id)
  \/ \E id \in Input, since, until \in TS, all \in BOOLEAN : Lock(id, since, until, all)
  \/ PopLoop
  \/ Unlock

Spec == Init /\ [][Next]_vars

\* A thread inside pop or pop_all is never stopped by another one.
Fairness == WF_vars(PopLoop) /\ WF_vars(Unlock)

-----------------------------------------------------------------------------
(***************************************************************************)
(* Properties that hold whatever was pushed and dropped before.            *)
(***************************************************************************)

\* Every popped item satisfies the query (the assertion of pop_impl, line
\* 162), also while the heap is out of order.
PoppedSatisfyQuery ==
  ~ Unlocked =>
    \A k \in DOMAIN out :
      /\ out[k].id = job.id
      /\ job.since <= out[k].pts /\ out[k].pts < job.until

\* A pop consumes only what lies before the end of its time frame: an item
\* of the future stays in the queue however badly the heap is ordered, and
\* the loops under the mutex neither duplicate nor invent an item.
Copies(s, x) == Cardinality({ i \in DOMAIN s : s[i] = x })

FutureIsKept ==
  [][ ~ Unlocked =>
        /\ \A x \in Elements(q) : x.pts >= job.until => Copies(q', x) = Copies(q, x)
        /\ Elements(q') \subseteq Elements(q)
        /\ Len(q') \in {Len(q), Len(q) - 1} ]_vars

\* Every pop gives the mutex back: the loops consume the queue.
PopReturns == ~ Unlocked ~> Unlocked

(***************************************************************************)
(* Properties stated by comments and assertions of the code.               *)
(***************************************************************************)

\* "Pops value earliest in given time frame" (line 75): what pop_impl looks
\* at, the front of the vector, is the earliest item of the queue.
FrontIsEarliest == q # << >> => \A i \in DOMAIN q : q[1].pts <= q[i].pts

\* The vector is a heap.  drop_id (lines 119-126) breaks this; as long as it
\* is not used, push and the pops keep it.
HeapOrdered == IsHeap(q)

(***************************************************************************)
(* MetadataQueue implements TimedQueue.  A query takes effect when it gets *)
(* the mutex: from then on its answer is what it has popped, followed by   *)
(* the matches still queued, and the items it is going to drop are gone.   *)
(***************************************************************************)
Popping == job.stage \in {"search", "collide"}

Pending ==
  { x \in Elements(q) :
      /\ Matches(x) /\ x.pts < job.until
      /\ job.stage = "collide" => x.pts > out[Len(out)].pts }

Answer ==
  LET all == out \o InOrder(Pending)
  IN  IF job.all \/ all = << >> THEN all ELSE << all[1] >>

Survivors ==
  IF job.all \/ Answer = << >>
  THEN { x \in Elements(q) : x.pts >= job.until }
  ELSE { x \in Elements(q) : x.pts > Answer[1].pts }

Promised == INSTANCE TimedQueue WITH
              items  <- IF Popping THEN Survivors ELSE Elements(q),
              result <- IF Popping THEN Answer ELSE out,
              held   <- ~ Unlocked
=============================================================================

----------------------------- MODULE MixerProofs -----------------------------
(***************************************************************************)
(* Theorems about OutputClock and Mixer, for any time base, any number of  *)
(* inputs, any adjustments, any order of the output source's timestamps,   *)
(* any number of captions per packet and with the bounds of the model at   *)
(* any value.                                                              *)
(***************************************************************************)
EXTENDS Mixer, MetadataHeapProofs

-----------------------------------------------------------------------------
(* OutputClock: type correctness and the two properties of the clock *)

\* Rescaling a timestamp (rescale_ts) gives a timestamp.
LEMMA RescaleTsType == \A ts \in Int : RescaleTs(ts) \in Int
<1> SUFFICES ASSUME NEW ts \in Int PROVE RescaleTs(ts) \in Int
  OBVIOUS
<1>1. \A a \in Int : (a * Num + Den \div 2) \div Den \in Int
  BY ClockAssumption
<1> QED
  BY <1>1 DEF RescaleTs

\* The first packet a rescaler sees is at the rescaler's base.
LEMMA RescaleTsZero == RescaleTs(0) = 0
<1>1. Den \div 2 \in Nat /\ Den \div 2 < Den
  BY ClockAssumption
<1>2. \A x \in Nat : x < Den => x \div Den = 0
  BY ClockAssumption
<1>3. 0 * Num = 0
  BY ClockAssumption
<1> QED
  BY <1>1, <1>2, <1>3 DEF RescaleTs

\* Rounding (rescale_ts) does not swap two timestamps.
LEMMA RescaleTsMonotone ==
  ASSUME NEW a \in Int, NEW b \in Int, a <= b
  PROVE  RescaleTs(a) <= RescaleTs(b)
<1> DEFINE rounded(n) == (n * Num + Den \div 2) \div Den
<1>1. \A x, y \in Int : x <= y => x * Num <= y * Num /\ x * Num \in Int /\ y * Num \in Int
  BY ClockAssumption
<1>2. \A x, y \in Int : x <= y => x \div Den <= y \div Den /\ x \div Den \in Int
  BY ClockAssumption
<1>3. Den \div 2 \in Nat
  BY ClockAssumption
<1>4. \A x, y \in Int : x <= y => rounded(x) <= rounded(y)
  BY <1>1, <1>2, <1>3
<1>5. \A x \in Int : rounded(x) \in Int
  BY ClockAssumption
<1>6. \A x \in Nat : rounded(x) >= 0
  BY ClockAssumption
<1>7. /\ RescaleTs(a) = IF a >= 0 THEN rounded(a) ELSE - rounded(- a)
      /\ RescaleTs(b) = IF b >= 0 THEN rounded(b) ELSE - rounded(- b)
  BY DEF RescaleTs
<1> HIDE DEF rounded
<1>8. CASE a >= 0
  BY <1>4, <1>7, <1>8
<1>9. CASE a < 0 /\ b >= 0
  <2>1. - a \in Nat /\ b \in Nat /\ - a \in Int
    BY <1>9
  <2>2. rounded(- a) \in Int /\ rounded(- a) >= 0 /\ rounded(b) \in Int /\ rounded(b) >= 0
    BY <1>5, <1>6, <2>1
  <2> QED
    BY <1>7, <1>9, <2>2
<1>10. CASE a < 0 /\ b < 0
  <2>1. - a \in Int /\ - b \in Int /\ - b <= - a
    BY <1>10
  <2>2. rounded(- b) <= rounded(- a) /\ rounded(- b) \in Int /\ rounded(- a) \in Int
    BY <1>4, <1>5, <2>1
  <2> QED
    BY <1>7, <1>10, <2>2
<1> QED
  BY <1>8, <1>9, <1>10

\* A rescaler stays a rescaler once it has its zero, which is then a number.
LEMMA AnchoredType ==
  ASSUME NEW r \in Rescaler, NEW ts \in Int
  PROVE  /\ Anchored(r, ts) \in Rescaler
         /\ Anchored(r, ts).zero \in Int
BY ClockAssumption DEF Anchored, Rescaler

\* TSRescaler::rescale_to_clock gives a number, anchored or not.
LEMMA RescaleToClockType ==
  ASSUME NEW r \in Rescaler, NEW ts \in Int
  PROVE  RescaleToClock(r, ts) \in Int
<1>1. ts - Anchored(r, ts).zero \in Int
  BY AnchoredType
<1>2. r.base \in Int
  BY DEF Rescaler
<1> QED
  BY <1>1, <1>2, RescaleTsType DEF RescaleToClock

-----------------------------------------------------------------------------
\* What makes ClockNotBehind inductive: the first timestamp of a ticker is
\* added to the clock as it is, so the clock must not be negative.
ClockInv ==
  /\ ClockTypeOK
  /\ clock >= 0
  /\ ClockNotBehind

LEMMA ClockInitInv == ClockInit => ClockInv
BY ClockAssumption DEF ClockInit, ClockInv, ClockTypeOK, ClockNotBehind, ClockRelative, Rescaler

LEMMA NewTickerInv == ClockInv /\ NewTicker => ClockInv'
BY DEF NewTicker, ClockInv, ClockTypeOK, ClockNotBehind, ClockRelative, Rescaler

\* One packet of the output source (ClockTicker::process).
LEMMA TickInv ==
  ASSUME ClockInv, NEW pts \in Int, Tick(pts)
  PROVE  ClockInv' /\ clock' >= clock
<1> DEFINE ts == RescaleToClock(rescaler, pts)
           delta == IF last = NoTS THEN ts ELSE ts - last
<1>1. /\ clock \in Int /\ clock >= 0
      /\ last \in Int \cup {NoTS}
      /\ rescaler \in Rescaler
      /\ last # NoTS => last <= clock
  BY DEF ClockInv, ClockTypeOK, ClockNotBehind
<1>2. ts \in Int
  BY <1>1, RescaleToClockType
<1>3. rescaler' \in Rescaler
  BY <1>1, AnchoredType DEF Tick
<1>4. last' = ts /\ clock' = Incremented(clock, delta)
  BY DEF Tick
<1>5. delta \in Int
  BY <1>1, <1>2
<1> HIDE DEF ts
<1>6. clock' \in Int /\ clock' >= clock
  BY <1>1, <1>4, <1>5 DEF Incremented
<1>7. ts <= clock'
  <2>1. CASE last = NoTS
    BY <2>1, <1>1, <1>2, <1>4 DEF Incremented
  <2>2. CASE last # NoTS
    BY <2>2, <1>1, <1>2, <1>4 DEF Incremented
  <2> QED
    BY <2>1, <2>2
<1> QED
  BY <1>1, <1>2, <1>3, <1>4, <1>6, <1>7 DEF ClockInv, ClockTypeOK, ClockNotBehind

LEMMA ClockStepInv ==
  ASSUME ClockInv, [ClockNext]_clockVars
  PROVE  ClockInv' /\ [clock' >= clock]_clockVars
<1>1. CASE UNCHANGED clockVars
  BY <1>1 DEF clockVars, ClockInv, ClockTypeOK, ClockNotBehind
<1>2. CASE NewTicker
  BY <1>2, NewTickerInv DEF NewTicker, ClockInv, ClockTypeOK
<1>3. ASSUME NEW pts \in Int, Tick(pts) PROVE ClockInv' /\ clock' >= clock
  BY <1>3, TickInv
<1> QED
  BY <1>1, <1>2, <1>3 DEF ClockNext

-----------------------------------------------------------------------------
\* The invariant holds in every run of the clock (src/clock.cpp).
THEOREM ClockInvariant == ClockSpec => []ClockInv
BY ClockInitInv, ClockStepInv, PTL DEF ClockSpec

\* Clock, ticker and rescaler always hold timestamps, whatever the time base.
THEOREM ClockTypeCorrect == ClockSpec => []ClockTypeOK
<1>1. ClockInv => ClockTypeOK
  BY DEF ClockInv
<1> QED
  BY <1>1, ClockInvariant, PTL

\* The clock is never behind the packet the injector works on, in whatever
\* order timestamps come and however often the ticker is replaced.
THEOREM ClockNeverBehind == ClockSpec => []ClockNotBehind
<1>1. ClockInv => ClockNotBehind
  BY DEF ClockInv
<1> QED
  BY <1>1, ClockInvariant, PTL

\* The clock never runs backwards (Clock::increment).
THEOREM ClockNeverBack == ClockSpec => ClockMonotone
<1>1. ClockInv /\ [ClockNext]_clockVars => [clock' >= clock]_clockVars
  BY ClockStepInv
<1> QED
  BY <1>1, ClockInvariant, PTL DEF ClockSpec, ClockMonotone

-----------------------------------------------------------------------------
(* Mixer *)

\* The mixer keeps no memory of whether its callers are orderly, and uses none
\* of the theorems that speak of it.
QueueProofs == INSTANCE MetadataQueueProofs WITH TS <- Int, orderly <- TRUE

\* The metadata of the mixer meet the assumptions of the queue.
LEMMA QueueParameters ==
  /\ Input \subseteq Int
  /\ Int \subseteq Int
  /\ Capacity \in Nat
  /\ \A x \in Item : x.id \in Input /\ x.pts \in Int /\ x.order \in Int
BY MixerAssumption DEF Input, Item, Clear

(***************************************************************************)
(* The two instances of MetadataQueue, that of Mixer and that of its       *)
(* proofs, are the same.                                                   *)
(***************************************************************************)
LEMMA SameHeap ==
  /\ \A a, v : Queue!PushHeap(a, v) = QueueProofs!PushHeap(a, v)
  /\ \A a, id : Queue!RemoveId(a, id) = QueueProofs!RemoveId(a, id)
  /\ \A a : Queue!PopHeap(a) = QueueProofs!PopHeap(a)
<1>1. Queue!Ancestors = QueueProofs!Ancestors
  BY DEF Queue!Ancestors, QueueProofs!Ancestors
<1>2. ASSUME NEW a, NEW hole, NEW v
      PROVE  Queue!SiftUp(a, hole, v) = QueueProofs!SiftUp(a, hole, v)
  BY <1>1 DEF Queue!SiftUp, QueueProofs!SiftUp, Queue!Later, QueueProofs!Later,
              Queue!Lowest, QueueProofs!Lowest
<1>3. ASSUME NEW a, NEW v PROVE Queue!PushHeap(a, v) = QueueProofs!PushHeap(a, v)
  BY <1>2 DEF Queue!PushHeap, QueueProofs!PushHeap
<1>4. ASSUME NEW a PROVE Queue!PopHeap(a) = QueueProofs!PopHeap(a)
  BY <1>1, <1>2 DEF Queue!PopHeap, QueueProofs!PopHeap, Queue!EarlierChild,
                    QueueProofs!EarlierChild, Queue!Later, QueueProofs!Later,
                    Queue!Deepest, QueueProofs!Deepest
<1>5. ASSUME NEW a, NEW id PROVE Queue!RemoveId(a, id) = QueueProofs!RemoveId(a, id)
  <2>1. ASSUME NEW S PROVE Queue!Cardinality(S) = QueueProofs!Cardinality(S)
    BY DEF Queue!Cardinality, QueueProofs!Cardinality
  <2>2. ASSUME NEW S PROVE Queue!Lowest(S) = QueueProofs!Lowest(S)
    BY DEF Queue!Lowest, QueueProofs!Lowest
  <2> DEFINE keep == { i \in 1 .. Len(a) : a[i].id # id }
             from(k) == { i \in keep : Queue!Cardinality({ j \in keep : j <= i }) >= k }
             from2(k) == { i \in keep : QueueProofs!Cardinality({ j \in keep : j <= i }) >= k }
  <2>3. ASSUME NEW k PROVE from(k) = from2(k)
    BY <2>1
  <2>4. Queue!RemoveId(a, id) =
          [ k \in 1 .. Queue!Cardinality(keep) |-> a[Queue!Lowest(from(k))] ]
    BY DEF Queue!RemoveId
  <2>5. QueueProofs!RemoveId(a, id) =
          [ k \in 1 .. QueueProofs!Cardinality(keep) |-> a[QueueProofs!Lowest(from2(k))] ]
    BY DEF QueueProofs!RemoveId
  <2>6. Queue!Cardinality(keep) = QueueProofs!Cardinality(keep)
    BY <2>1
  <2> HIDE DEF keep, from, from2
  <2> QED
    BY <2>2, <2>3, <2>4, <2>5, <2>6
<1> QED
  BY <1>3, <1>4, <1>5

\* The heap of Mixer's queue is MetadataHeap's as well.
LEMMA PlainHeap ==
  /\ \A a, v : Queue!PushHeap(a, v) = PushHeap(a, v)
  /\ \A a, id : Queue!RemoveId(a, id) = RemoveId(a, id)
  /\ \A a : Queue!PopHeap(a) = PopHeap(a)
<1>1. Queue!Ancestors = Ancestors
  BY DEF Queue!Ancestors, Ancestors
<1>2. ASSUME NEW a, NEW hole, NEW v
      PROVE  Queue!SiftUp(a, hole, v) = SiftUp(a, hole, v)
  BY <1>1 DEF Queue!SiftUp, SiftUp, Queue!Later, Later,
              Queue!Lowest, Lowest
<1>3. ASSUME NEW a, NEW v PROVE Queue!PushHeap(a, v) = PushHeap(a, v)
  BY <1>2 DEF Queue!PushHeap, PushHeap
<1>4. ASSUME NEW a PROVE Queue!PopHeap(a) = PopHeap(a)
  BY <1>1, <1>2 DEF Queue!PopHeap, PopHeap, Queue!EarlierChild,
                    EarlierChild, Queue!Later, Later,
                    Queue!Deepest, Deepest
<1>5. ASSUME NEW a, NEW id PROVE Queue!RemoveId(a, id) = RemoveId(a, id)
  <2>1. ASSUME NEW S PROVE Queue!Cardinality(S) = Cardinality(S)
    BY DEF Queue!Cardinality, Cardinality
  <2>2. ASSUME NEW S PROVE Queue!Lowest(S) = Lowest(S)
    BY DEF Queue!Lowest, Lowest
  <2> DEFINE keep == { i \in 1 .. Len(a) : a[i].id # id }
             from(k) == { i \in keep : Queue!Cardinality({ j \in keep : j <= i }) >= k }
             from2(k) == { i \in keep : Cardinality({ j \in keep : j <= i }) >= k }
  <2>3. ASSUME NEW k PROVE from(k) = from2(k)
    BY <2>1
  <2>4. Queue!RemoveId(a, id) =
          [ k \in 1 .. Queue!Cardinality(keep) |-> a[Queue!Lowest(from(k))] ]
    BY DEF Queue!RemoveId
  <2>5. RemoveId(a, id) =
          [ k \in 1 .. Cardinality(keep) |-> a[Lowest(from2(k))] ]
    BY DEF RemoveId
  <2>6. Queue!Cardinality(keep) = Cardinality(keep)
    BY <2>1
  <2> HIDE DEF keep, from, from2
  <2> QED
    BY <2>2, <2>3, <2>4, <2>5, <2>6
<1> QED
  BY <1>3, <1>4, <1>5

LEMMA SameState ==
  /\ Queue!TypeOK <=> QueueProofs!TypeOK
  /\ Queue!TypeOK' <=> QueueProofs!TypeOK'
  /\ Queue!PoppedSatisfyQuery <=> QueueProofs!PoppedSatisfyQuery
  /\ Queue!PoppedSatisfyQuery' <=> QueueProofs!PoppedSatisfyQuery'
BY DEF Queue!TypeOK, QueueProofs!TypeOK, Queue!Job, QueueProofs!Job, Queue!Idle,
       QueueProofs!Idle, Queue!Stage, QueueProofs!Stage, Queue!PoppedSatisfyQuery,
       QueueProofs!PoppedSatisfyQuery, Queue!Unlocked, QueueProofs!Unlocked

LEMMA SamePopLoop == Queue!PopLoop <=> QueueProofs!PopLoop
<1>1. Queue!Skip <=> QueueProofs!Skip
  BY SameHeap DEF Queue!Skip, QueueProofs!Skip, Queue!HasNext, QueueProofs!HasNext,
                  Queue!Matches, QueueProofs!Matches
<1>2. Queue!Take <=> QueueProofs!Take
  BY SameHeap DEF Queue!Take, QueueProofs!Take, Queue!HasNext, QueueProofs!HasNext,
                  Queue!Matches, QueueProofs!Matches, Queue!Goto, QueueProofs!Goto
<1>3. Queue!DropColliding <=> QueueProofs!DropColliding
  BY SameHeap DEF Queue!DropColliding, QueueProofs!DropColliding, Queue!Collides,
                  QueueProofs!Collides
<1>4. Queue!Taken <=> QueueProofs!Taken
  BY DEF Queue!Taken, QueueProofs!Taken, Queue!Collides, QueueProofs!Collides, Queue!Goto,
         QueueProofs!Goto
<1>5. Queue!Exhausted <=> QueueProofs!Exhausted
  BY DEF Queue!Exhausted, QueueProofs!Exhausted, Queue!HasNext, QueueProofs!HasNext,
         Queue!Goto, QueueProofs!Goto
<1> QED
  BY <1>1, <1>2, <1>3, <1>4, <1>5 DEF Queue!PopLoop, QueueProofs!PopLoop

-----------------------------------------------------------------------------
(***************************************************************************)
(* The operations of the queue, seen from the mixer.                       *)
(***************************************************************************)
QueueInv == Queue!TypeOK /\ Queue!PoppedSatisfyQuery

\* An extractor pushes or drops: whoever pops is not disturbed.
LEMMA QueuePush ==
  ASSUME QueueInv, NEW x \in Item, Queue!Push(x)
  PROVE  QueueInv' /\ UNCHANGED << job, out >>
<1>1. QueueProofs!Push(x)
  BY SameHeap DEF Queue!Push, QueueProofs!Push, Queue!Unlocked, QueueProofs!Unlocked,
                  Queue!Idle, QueueProofs!Idle
<1>2. Queue!TypeOK'
  BY <1>1, SameState, QueueParameters, QueueProofs!PushType DEF QueueInv
<1>3. UNCHANGED << job, out >>
  BY DEF Queue!Push
<1> QED
  BY <1>2, <1>3 DEF QueueInv, Queue!PoppedSatisfyQuery, Queue!Unlocked

LEMMA QueueDropId ==
  ASSUME QueueInv, NEW id \in Input, Queue!DropId(id)
  PROVE  QueueInv' /\ UNCHANGED << job, out >>
<1>1. QueueProofs!DropId(id)
  BY SameHeap DEF Queue!DropId, QueueProofs!DropId, Queue!Unlocked, QueueProofs!Unlocked,
                  Queue!Idle, QueueProofs!Idle
<1>2. Queue!TypeOK'
  BY <1>1, SameState, QueueParameters, QueueProofs!DropIdType DEF QueueInv
<1>3. UNCHANGED << job, out >>
  BY DEF Queue!DropId
<1> QED
  BY <1>2, <1>3 DEF QueueInv, Queue!PoppedSatisfyQuery, Queue!Unlocked

LEMMA QueueLock ==
  ASSUME QueueInv, NEW id \in Input, NEW since \in Int, NEW until \in Int,
         Queue!Lock(id, since, until, TRUE)
  PROVE  QueueInv' /\ ~ Queue!Unlocked' /\ job'.id = id
<1>1. job' = [ stage |-> "search", id |-> id, since |-> since, until |-> until, all |-> TRUE ]
      /\ out' = << >> /\ q' = q
  BY DEF Queue!Lock
<1>2. job' \in Queue!Job /\ ~ Queue!Unlocked'
  BY <1>1 DEF Queue!Job, Queue!Stage, Queue!Unlocked, Queue!Idle
<1> QED
  BY <1>1, <1>2 DEF QueueInv, Queue!TypeOK, Queue!PoppedSatisfyQuery

LEMMA QueuePopLoop ==
  ASSUME QueueInv, Queue!PopLoop
  PROVE  QueueInv' /\ ~ Queue!Unlocked /\ ~ Queue!Unlocked' /\ job'.id = job.id
<1>1. Queue!TypeOK' /\ Queue!PoppedSatisfyQuery'
  BY SameState, SamePopLoop, QueueParameters, QueueProofs!PopLoopType,
     QueueProofs!PopLoopAnswer DEF QueueInv
<1>2. ~ Queue!Unlocked /\ job \in Queue!Job
  BY DEF Queue!PopLoop, Queue!Skip, Queue!Take, Queue!DropColliding, Queue!Taken,
         Queue!Exhausted, Queue!Unlocked, Queue!Idle, QueueInv, Queue!TypeOK
<1>3. \/ job' = job
      \/ Queue!Goto("search") \/ Queue!Goto("collide") \/ Queue!Goto("return")
  BY DEF Queue!PopLoop, Queue!Skip, Queue!Take, Queue!DropColliding, Queue!Taken,
         Queue!Exhausted
<1>4. ~ Queue!Unlocked' /\ job'.id = job.id
  BY <1>2, <1>3 DEF Queue!Goto, Queue!Job, Queue!Unlocked, Queue!Idle
<1> QED
  BY <1>1, <1>2, <1>4 DEF QueueInv

LEMMA QueueUnlock ==
  ASSUME QueueInv, Queue!Unlock
  PROVE  QueueInv' /\ Queue!Unlocked'
BY DEF Queue!Unlock, QueueInv, Queue!TypeOK, Queue!PoppedSatisfyQuery, Queue!Unlocked,
       Queue!Job

-----------------------------------------------------------------------------
(***************************************************************************)
(* The inductive invariant.  ResetBetweenInputs speaks of the moment a     *)
(* packet is emitted; to get there one has to follow the injector from the *)
(* moment it reads the current input: what it found is of that input, the  *)
(* query that holds the mutex is its own, and a caption written last is of *)
(* the input of the previous packet unless a reset is already in found.    *)
(***************************************************************************)
Querying == inj.pc \in {"clear", "query", "pop", "emit"}

OwnQuery ==
  /\ Queue!Unlocked <=> inj.pc # "pop"
  /\ inj.pc = "pop" => job.id = inj.input

OwnCaptions ==
  /\ ~ Querying => found = << >>
  /\ Querying =>
       /\ inj.input \in Input
       /\ inj.prev = inj.input
       /\ \A k \in DOMAIN found : found[k].kind = "caption" => found[k].id = inj.input

Separated ==
  written.kind = "caption" /\ ~ lost =>
    \/ written.id = inj.prev
    \/ inj.prev = NoInput
    \/ found # << >> /\ found[1].kind = "reset"

MixerInv ==
  /\ TypeOK
  /\ Queue!PoppedSatisfyQuery
  /\ OwnQuery
  /\ OwnCaptions
  /\ Separated

LEMMA QueueInvOfMixer == MixerInv => QueueInv
BY DEF MixerInv, TypeOK, QueueInv

-----------------------------------------------------------------------------
LEMMA ExtractorAtType ==
  ASSUME NEW pc \in {"start", "open", "stream", "sei", "drop", "now", "reset"}, NEW runs \in Nat
  PROVE  ExtractorAt(pc, runs) \in Extractor
BY DEF ExtractorAt, Extractor, ClockRelative, Rescaler

LEMMA InjectorAtType ==
  ASSUME NEW pc \in {"start", "idle", "ticked", "adjusted", "clear", "query", "pop", "emit"},
         NEW runs \in Nat
  PROVE  InjectorAt(pc, runs) \in Injector
BY MixerAssumption DEF InjectorAt, Injector, ClockRelative, Rescaler

LEMMA ResetType ==
  ASSUME NEW id \in Input, NEW ts \in Int
  PROVE  Reset(id, ts) \in Item /\ Reset(id, ts).kind = "reset"
BY DEF Reset, Item

LEMMA InitInv == Init => MixerInv
<1> SUFFICES ASSUME Init PROVE MixerInv
  OBVIOUS
<1>1. ClockTypeOK
  BY ClockInitInv DEF Init, ClockInv
<1>2. Queue!TypeOK /\ Queue!PoppedSatisfyQuery /\ Queue!Unlocked
  BY DEF Init, Queue!Init, Queue!TypeOK, Queue!Job, Queue!PoppedSatisfyQuery, Queue!Unlocked
<1>3. ext \in [UserInput -> Extractor] /\ restart \in [UserInput -> BOOLEAN]
  BY ExtractorAtType DEF Init
<1>4. inj \in Injector /\ inj.pc = "start" /\ inj.prev = NoInput
  <2>1. inj = InjectorAt("start", 0)
    BY DEF Init
  <2> QED
    BY <2>1, InjectorAtType DEF InjectorAt
<1>5. written \in Item /\ written.kind = "reset"
  <2>1. Clear \in Input
    BY DEF Input
  <2> QED
    BY <2>1, ResetType DEF Init
<1>6. current \in Input /\ adjustment \in Int /\ found = << >> /\ lost \in BOOLEAN /\ outTime \in Int
  <2>1. Adjustment \subseteq Int
    BY MixerAssumption
  <2>2. adjustment \in Int /\ outTime \in Int
    BY <2>1 DEF Init
  <2>3. current \in Input /\ found = << >> /\ lost = FALSE
    BY DEF Init
  <2> QED
    BY <2>2, <2>3
<1>7. TypeOK
  BY <1>1, <1>2, <1>3, <1>4, <1>5, <1>6 DEF TypeOK
<1> QED
  BY <1>2, <1>4, <1>5, <1>6, <1>7 DEF MixerInv, OwnQuery, OwnCaptions, Querying, Separated

(***************************************************************************)
(* The controller and the extractors leave the injector alone: of what the *)
(* invariant speaks of they only change the vector of the queue.           *)
(***************************************************************************)
LEMMA OthersInv ==
  ASSUME MixerInv, QueueInv', UNCHANGED << clockVars, job, out, outputVars >>,
         current' \in Input, adjustment' \in Int, restart' \in [UserInput -> BOOLEAN],
         ext' \in [UserInput -> Extractor]
  PROVE  MixerInv'
<1>1. ClockTypeOK'
  BY DEF MixerInv, TypeOK, clockVars, ClockTypeOK
<1>2. TypeOK'
  BY <1>1 DEF MixerInv, TypeOK, outputVars, QueueInv
<1>3. OwnQuery' /\ OwnCaptions' /\ Separated'
  BY DEF MixerInv, OwnQuery, OwnCaptions, Querying, Separated, outputVars, Queue!Unlocked
<1> QED
  BY <1>2, <1>3 DEF MixerInv, QueueInv

LEMMA QueueUnchanged ==
  ASSUME QueueInv, UNCHANGED queueVars
  PROVE  QueueInv'
BY DEF QueueInv, queueVars, Queue!TypeOK, Queue!PoppedSatisfyQuery, Queue!Unlocked

LEMMA ControllerInv == MixerInv /\ Controller => MixerInv'
<1> SUFFICES ASSUME MixerInv, Controller PROVE MixerInv'
  OBVIOUS
<1>1. QueueInv' /\ UNCHANGED << clockVars, job, out, outputVars >>
  BY QueueInvOfMixer, QueueUnchanged
     DEF Controller, SetCurrentInput, SetAdjustment, ScheduleRestart, queueVars
<1>2. current' \in Input /\ adjustment' \in Int /\ restart' \in [UserInput -> BOOLEAN]
      /\ ext' \in [UserInput -> Extractor]
  BY MixerAssumption DEF Controller, SetCurrentInput, SetAdjustment, ScheduleRestart, MixerInv,
                         TypeOK
<1> QED
  BY <1>1, <1>2, OthersInv

\* An extractor that does not touch the queue.
LEMMA ExtractorLocal ==
  ASSUME MixerInv, NEW i \in UserInput, NEW e \in Extractor, ext' = [ ext EXCEPT ![i] = e ],
         restart' \in [UserInput -> BOOLEAN],
         UNCHANGED << clockVars, queueVars, current, adjustment, outputVars >>
  PROVE  MixerInv'
<1>1. QueueInv' /\ UNCHANGED << job, out >>
  BY QueueInvOfMixer, QueueUnchanged DEF queueVars
<1>2. ext' \in [UserInput -> Extractor] /\ current' \in Input /\ adjustment' \in Int
  BY DEF MixerInv, TypeOK
<1> QED
  BY <1>1, <1>2, OthersInv

\* What an extractor pushes is an item.
LEMMA ExtPushItem ==
  ASSUME MixerInv, NEW i \in UserInput
  PROVE  [ id |-> i, pts |-> RescaleToClock(ext[i].rescaler, ext[i].frame),
           order |-> ext[i].order, kind |-> "caption", run |-> ext[i].runs,
           due |-> ext[i].opened + RescaleTs(ext[i].frame - 1) ] \in Item
<1>1. ext[i] \in Extractor
  BY DEF MixerInv, TypeOK
<1>2. /\ ext[i].rescaler \in Rescaler /\ ext[i].frame \in Nat /\ ext[i].order \in Nat
      /\ ext[i].runs \in Nat /\ ext[i].opened \in Int
  BY <1>1 DEF Extractor
<1>3. RescaleToClock(ext[i].rescaler, ext[i].frame) \in Int
  BY <1>2, RescaleToClockType
<1>4. RescaleTs(ext[i].frame - 1) \in Int
  <2>1. ext[i].frame - 1 \in Int
    BY <1>2
  <2> QED
    BY <2>1, RescaleTsType
<1>5. ext[i].opened + RescaleTs(ext[i].frame - 1) \in Int /\ ext[i].order \in Int
  BY <1>2, <1>4
<1>6. i \in Input
  BY DEF Input
<1> QED
  BY <1>2, <1>3, <1>5, <1>6 DEF Item

LEMMA ExtractInv ==
  ASSUME MixerInv, NEW i \in UserInput, Extract(i)
  PROVE  MixerInv'
<1>1. ext \in [UserInput -> Extractor] /\ ext[i] \in Extractor
  BY DEF MixerInv, TypeOK
<1>2. /\ ext[i].runs \in Nat /\ ext[i].frame \in Nat /\ ext[i].todo \in Nat
      /\ ext[i].order \in Nat /\ ext[i].rescaler \in Rescaler /\ ext[i].resetAt \in Int
  BY <1>1 DEF Extractor
<1>3. clock \in Int /\ outTime \in Int /\ restart \in [UserInput -> BOOLEAN]
  BY DEF MixerInv, TypeOK, ClockTypeOK
<1>4. current \in Input /\ adjustment \in Int
  BY DEF MixerInv, TypeOK
<1>5. CASE ExtStart(i)
  <2> DEFINE e == [ ext[i] EXCEPT !.pc = "open", !.runs = @ + 1 ]
  <2>1. ext[i].runs + 1 \in Nat
    BY <1>2
  <2>2. e \in Extractor
    BY <1>1, <2>1 DEF Extractor
  <2>3. ext' = [ ext EXCEPT ![i] = e ]
    BY <1>1, <1>5 DEF ExtStart
  <2>4. /\ restart' \in [UserInput -> BOOLEAN]
        /\ UNCHANGED << clockVars, queueVars, current, adjustment, outputVars >>
    BY <1>3, <1>5 DEF ExtStart
  <2> QED
    BY <2>2, <2>3, <2>4, ExtractorLocal
<1>6. CASE ExtOpen(i)
  <2> DEFINE e == [ ext[i] EXCEPT !.pc = "stream", !.rescaler = ClockRelative(clock),
                                  !.frame = 0, !.opened = outTime ]
  <2>1. e \in Extractor
    BY <1>1, <1>3 DEF Extractor, ClockRelative, Rescaler
  <2>2. ext' = [ ext EXCEPT ![i] = e ]
    BY <1>1, <1>6 DEF ExtOpen
  <2> QED
    BY <1>3, <1>6, <2>1, <2>2, ExtractorLocal DEF ExtOpen, controlVars
<1>7. ASSUME NEW n \in CaptionsPerFrame, ExtPacket(i, n) PROVE MixerInv'
  <2> DEFINE e == [ ext[i] EXCEPT !.pc = "sei", !.frame = @ + 1, !.todo = n, !.order = 0,
                                  !.brk = restart[i] ]
  <2>1. ext[i].frame + 1 \in Nat
    BY <1>2
  <2>2. n \in Nat
    BY MixerAssumption
  <2>3. restart[i] \in BOOLEAN
    BY <1>3
  <2>4. e \in Extractor
    BY <1>1, <2>1, <2>2, <2>3 DEF Extractor
  <2>5. ext' = [ ext EXCEPT ![i] = e ]
    BY <1>1, <1>7 DEF ExtPacket
  <2> QED
    BY <1>3, <1>7, <2>4, <2>5, ExtractorLocal DEF ExtPacket, controlVars
<1>8. CASE ExtPush(i)
  <2> DEFINE e == [ ext[i] EXCEPT !.rescaler = Anchored(ext[i].rescaler, ext[i].frame),
                                  !.todo = @ - 1, !.order = @ + 1 ]
  <2>1. Anchored(ext[i].rescaler, ext[i].frame) \in Rescaler
    <3>1. ext[i].frame \in Int
      BY <1>2
    <3> QED
      BY <1>2, <3>1, AnchoredType
  <2>2. ext[i].todo - 1 \in Nat /\ ext[i].order + 1 \in Nat
    BY <1>2, <1>8 DEF ExtPush
  <2>3. e \in Extractor
    BY <1>1, <2>1, <2>2 DEF Extractor
  <2>4. ext' = [ ext EXCEPT ![i] = e ]
    BY <1>1, <1>8 DEF ExtPush
  <2>5. ext' \in [UserInput -> Extractor]
    BY <1>1, <2>3, <2>4
  <2>6. QueueInv' /\ UNCHANGED << job, out >>
    BY <1>8, ExtPushItem, QueueInvOfMixer, QueuePush DEF ExtPush
  <2> QED
    BY <1>3, <1>4, <1>8, <2>5, <2>6, OthersInv DEF ExtPush, controlVars
<1>9. CASE ExtRemuxed(i)
  <2> DEFINE e == IF ext[i].brk THEN ExtractorAt("drop", ext[i].runs)
                                ELSE [ ext[i] EXCEPT !.pc = "stream" ]
  <2>1. e \in Extractor
    <3>1. [ ext[i] EXCEPT !.pc = "stream" ] \in Extractor
      BY <1>1 DEF Extractor
    <3> QED
      BY <1>2, <3>1, ExtractorAtType
  <2>2. ext' = [ ext EXCEPT ![i] = e ]
    BY <1>1, <1>9 DEF ExtRemuxed
  <2> QED
    BY <1>3, <1>9, <2>1, <2>2, ExtractorLocal DEF ExtRemuxed, controlVars
<1>10. CASE ExtFail(i)
  <2>1. ExtractorAt("drop", ext[i].runs) \in Extractor
    BY <1>2, ExtractorAtType
  <2>2. ext' = [ ext EXCEPT ![i] = ExtractorAt("drop", ext[i].runs) ]
    BY <1>1, <1>10 DEF ExtFail
  <2> QED
    BY <1>3, <1>10, <2>1, <2>2, ExtractorLocal DEF ExtFail, controlVars
<1>11. CASE ExtDrop(i)
  <2>1. [ ext[i] EXCEPT !.pc = "now" ] \in Extractor
    BY <1>1 DEF Extractor
  <2>2. ext' \in [UserInput -> Extractor]
    BY <1>1, <1>11, <2>1 DEF ExtDrop
  <2>3. i \in Input
    BY DEF Input
  <2>4. QueueInv' /\ UNCHANGED << job, out >>
    BY <1>11, <2>3, QueueInvOfMixer, QueueDropId DEF ExtDrop
  <2> QED
    BY <1>3, <1>4, <1>11, <2>2, <2>4, OthersInv DEF ExtDrop, controlVars
<1>12. CASE ExtNow(i)
  <2> DEFINE e == [ ext[i] EXCEPT !.pc = "reset", !.resetAt = clock + 1 ]
  <2>1. clock + 1 \in Int
    BY <1>3
  <2>2. e \in Extractor
    BY <1>1, <2>1 DEF Extractor
  <2>3. ext' = [ ext EXCEPT ![i] = e ]
    BY <1>1, <1>12 DEF ExtNow
  <2> QED
    BY <1>3, <1>12, <2>2, <2>3, ExtractorLocal DEF ExtNow, controlVars
<1>13. CASE ExtReset(i)
  <2>1. ext' \in [UserInput -> Extractor]
    BY <1>1, <1>2, <1>13, ExtractorAtType DEF ExtReset
  <2>2. Reset(i, ext[i].resetAt) \in Item
    BY <1>2, ResetType DEF Input
  <2>3. QueueInv' /\ UNCHANGED << job, out >>
    BY <1>13, <2>2, QueueInvOfMixer, QueuePush DEF ExtReset
  <2> QED
    BY <1>3, <1>4, <1>13, <2>1, <2>3, OthersInv DEF ExtReset, controlVars
<1> QED
  BY <1>5, <1>6, <1>7, <1>8, <1>9, <1>10, <1>11, <1>12, <1>13 DEF Extract

-----------------------------------------------------------------------------
(***************************************************************************)
(* The injector.                                                           *)
(***************************************************************************)

\* Steps that do not touch the queue.
LEMMA QueueIdleInv ==
  ASSUME MixerInv, UNCHANGED queueVars
  PROVE  /\ Queue!TypeOK' /\ Queue!PoppedSatisfyQuery'
         /\ Queue!Unlocked' <=> Queue!Unlocked
BY QueueInvOfMixer, QueueUnchanged DEF QueueInv, queueVars, Queue!Unlocked

LEMMA InjectorFields ==
  ASSUME MixerInv
  PROVE  /\ inj \in Injector
         /\ inj.rescaler \in Rescaler /\ inj.pts \in Int /\ inj.ts \in Int /\ inj.since \in Int
         /\ inj.prev \in Input \cup {NoInput} /\ inj.input \in Input \cup {NoInput}
         /\ inj.shift \in Int /\ inj.runs \in Nat
         /\ clock \in Int /\ rescaler \in Rescaler /\ adjustment \in Int
         /\ current \in Input /\ found \in Seq(Item) /\ written \in Item
BY DEF MixerInv, TypeOK, Injector, ClockTypeOK

\* A step of the injector on the fields the invariant does not relate.
LEMMA InjectorLocal ==
  ASSUME MixerInv, inj' \in Injector, ClockTypeOK', outTime' \in Int, ~ Querying, ~ Querying',
         inj'.prev = inj.prev,
         UNCHANGED << queueVars, controlVars, ext, found, written, lost >>
  PROVE  MixerInv'
<1>1. Queue!TypeOK' /\ Queue!PoppedSatisfyQuery' /\ (Queue!Unlocked' <=> Queue!Unlocked)
  BY QueueIdleInv
<1>2. TypeOK'
  BY <1>1 DEF MixerInv, TypeOK, controlVars
<1>3. OwnQuery'
  BY <1>1 DEF MixerInv, OwnQuery, Querying
<1>4. OwnCaptions' /\ Separated'
  BY DEF MixerInv, OwnCaptions, Separated
<1> QED
  BY <1>1, <1>2, <1>3, <1>4 DEF MixerInv

LEMMA InjStartInv == MixerInv /\ InjStart => MixerInv'
<1> SUFFICES ASSUME MixerInv, InjStart PROVE MixerInv'
  OBVIOUS
<1>1. Queue!TypeOK' /\ Queue!PoppedSatisfyQuery' /\ (Queue!Unlocked' <=> Queue!Unlocked)
  BY QueueIdleInv DEF InjStart
<1>2. inj' \in Injector /\ inj'.pc = "idle" /\ inj'.prev = NoInput
  <2>1. inj.runs + 1 \in Nat
    BY InjectorFields
  <2>2. InjectorAt("idle", inj.runs + 1) \in Injector
    BY <2>1, InjectorAtType
  <2>3. ClockRelative(clock) \in Rescaler
    BY InjectorFields DEF ClockRelative, Rescaler
  <2>4. inj' = [ InjectorAt("idle", inj.runs + 1) EXCEPT !.rescaler = ClockRelative(clock) ]
    BY DEF InjStart
  <2> QED
    BY <2>2, <2>3, <2>4 DEF Injector, InjectorAt
<1>3. ClockTypeOK'
  BY InjectorFields DEF InjStart, NewTicker, ClockTypeOK, ClockRelative, Rescaler
<1>4. TypeOK'
  BY <1>1, <1>2, <1>3 DEF InjStart, MixerInv, TypeOK, controlVars
<1>5. OwnQuery' /\ OwnCaptions' /\ Separated'
  BY <1>1, <1>2 DEF InjStart, MixerInv, OwnQuery, OwnCaptions, Querying, Separated
<1> QED
  BY <1>1, <1>4, <1>5 DEF MixerInv

LEMMA InjTickInv ==
  ASSUME MixerInv, NEW step \in PtsStep, InjTick(step)
  PROVE  MixerInv'
<1>1. inj.pts + step \in Int
  <2>1. step \in Int
    BY MixerAssumption
  <2> QED
    BY <2>1, InjectorFields
<1>2. inj' \in Injector /\ inj'.pc = "ticked" /\ inj'.prev = inj.prev
  <2>1. inj' = [ inj EXCEPT !.pc = "ticked", !.pts = inj.pts + step ]
    BY DEF InjTick
  <2> QED
    BY <1>1, <2>1, InjectorFields DEF Injector
<1> DEFINE ts == RescaleToClock(rescaler, inj.pts + step)
<1>3. ts \in Int
  BY <1>1, InjectorFields, RescaleToClockType
<1>4. Tick(inj.pts + step)
  BY DEF InjTick
<1>5. last' = ts /\ rescaler' = Anchored(rescaler, inj.pts + step)
      /\ clock' = Incremented(clock, IF last = NoTS THEN ts ELSE ts - last)
  BY <1>4 DEF Tick
<1>6. clock' \in Int
  <2>1. last \in Int \cup {NoTS}
    BY DEF MixerInv, TypeOK, ClockTypeOK
  <2>2. (IF last = NoTS THEN ts ELSE ts - last) \in Int
    BY <1>3, <2>1
  <2> HIDE DEF ts
  <2> QED
    BY <1>5, <2>2, InjectorFields DEF Incremented
<1>7. rescaler' \in Rescaler
  BY <1>1, <1>5, InjectorFields, AnchoredType
<1>8. ClockTypeOK' /\ outTime' \in Int
  BY <1>3, <1>5, <1>6, <1>7 DEF ClockTypeOK, InjTick
<1>9. ~ Querying /\ ~ Querying'
  BY <1>2 DEF InjTick, Querying
<1> QED
  BY <1>2, <1>8, <1>9, InjectorLocal DEF InjTick

LEMMA InjAdjustInv == MixerInv /\ InjAdjust => MixerInv'
<1> SUFFICES ASSUME MixerInv, InjAdjust PROVE MixerInv'
  OBVIOUS
<1> DEFINE ts == RescaleToClock(inj.rescaler, inj.pts) - adjustment
<1>1. ts \in Int
  <2>1. RescaleToClock(inj.rescaler, inj.pts) \in Int
    BY InjectorFields, RescaleToClockType
  <2> QED
    BY <2>1, InjectorFields
<1>2. Anchored(inj.rescaler, inj.pts) \in Rescaler
  BY InjectorFields, AnchoredType
<1>3. inj' = [ inj EXCEPT !.pc = "adjusted", !.rescaler = Anchored(inj.rescaler, inj.pts),
                          !.ts = ts, !.shift = adjustment ]
  BY DEF InjAdjust
<1> HIDE DEF ts
<1>4. inj' \in Injector /\ inj'.pc = "adjusted" /\ inj'.prev = inj.prev
  BY <1>1, <1>2, <1>3, InjectorFields DEF Injector
<1>5. ~ Querying /\ ~ Querying'
  BY <1>4 DEF InjAdjust, Querying
<1>6. ClockTypeOK' /\ outTime' \in Int
  BY DEF InjAdjust, MixerInv, TypeOK, ClockTypeOK, clockVars
<1> QED
  BY <1>4, <1>5, <1>6, InjectorLocal DEF InjAdjust

\* The reset that InjSelect puts first when the input changes is what keeps
\* inputs apart: without a change the previous packet had this input.
LEMMA InjSelectInv == MixerInv /\ InjSelect => MixerInv'
<1> SUFFICES ASSUME MixerInv, InjSelect PROVE MixerInv'
  OBVIOUS
<1>1. Queue!TypeOK' /\ Queue!PoppedSatisfyQuery' /\ (Queue!Unlocked' <=> Queue!Unlocked)
  BY QueueIdleInv DEF InjSelect
<1>2. inj' = [ inj EXCEPT !.pc = IF current = Clear THEN "clear" ELSE "query",
                          !.input = current, !.prev = current ]
  BY DEF InjSelect
<1>3. inj' \in Injector /\ inj'.pc \in {"clear", "query"} /\ inj'.input = current
      /\ inj'.prev = current
  BY <1>2, InjectorFields DEF Injector
<1>4. Reset(current, inj.ts) \in Item /\ Reset(current, inj.ts).kind = "reset"
  BY InjectorFields, ResetType
<1>5. CASE current = inj.prev
  <2>1. found' = << >>
    BY <1>5 DEF InjSelect
  <2>2. TypeOK'
    BY <1>1, <1>3, <2>1 DEF InjSelect, MixerInv, TypeOK, clockVars, ClockTypeOK, controlVars
  <2>3. OwnQuery'
    BY <1>1, <1>3 DEF InjSelect, MixerInv, OwnQuery
  <2>4. OwnCaptions'
    BY <1>3, <2>1, InjectorFields DEF OwnCaptions, Querying
  <2>5. found = << >>
    BY DEF InjSelect, MixerInv, OwnCaptions, Querying
  <2>6. Separated'
    BY <1>3, <1>5, <2>1, <2>5 DEF InjSelect, MixerInv, Separated
  <2> QED
    BY <1>1, <2>2, <2>3, <2>4, <2>6 DEF MixerInv
<1>6. CASE current # inj.prev
  <2>1. found' = << Reset(current, inj.ts) >>
    BY <1>6 DEF InjSelect
  <2>2. found' \in Seq(Item) /\ found' # << >> /\ found'[1].kind = "reset"
        /\ \A k \in DOMAIN found' : found'[k].kind = "reset"
    BY <1>4, <2>1
  <2>3. TypeOK'
    BY <1>1, <1>3, <2>2 DEF InjSelect, MixerInv, TypeOK, clockVars, ClockTypeOK, controlVars
  <2>4. OwnQuery'
    BY <1>1, <1>3 DEF InjSelect, MixerInv, OwnQuery
  <2>5. OwnCaptions'
    BY <1>3, <2>2, InjectorFields DEF OwnCaptions, Querying
  <2>6. Separated'
    BY <2>2 DEF Separated
  <2> QED
    BY <1>1, <2>2, <2>3, <2>4, <2>5, <2>6 DEF MixerInv
<1> QED
  BY <1>5, <1>6

\* A query appends items of the injector's input to what is found already.
LEMMA QueriedInv ==
  ASSUME MixerInv, Querying, Querying', inj' \in Injector,
         inj'.prev = inj.prev, inj'.input = inj.input,
         NEW items \in Seq(Item), found' = found \o items,
         \A k \in DOMAIN items : items[k].kind = "caption" => items[k].id = inj.input,
         Queue!TypeOK', Queue!PoppedSatisfyQuery', OwnQuery',
         UNCHANGED << clockVars, controlVars, ext, written, lost, outTime >>
  PROVE  MixerInv'
<1>1. found \in Seq(Item) /\ found' \in Seq(Item)
  BY InjectorFields
<1>2. TypeOK'
  BY <1>1 DEF MixerInv, TypeOK, clockVars, ClockTypeOK, controlVars
<1>3. OwnCaptions'
  <2>1. /\ inj.input \in Input /\ inj.prev = inj.input
        /\ \A k \in DOMAIN found : found[k].kind = "caption" => found[k].id = inj.input
    BY DEF MixerInv, OwnCaptions
  <2>2. ASSUME NEW k \in DOMAIN found', found'[k].kind = "caption"
        PROVE  found'[k].id = inj.input
    <3>1. CASE k \in DOMAIN found
      <4>1. found'[k] = found[k]
        BY <1>1, <3>1
      <4> QED
        BY <2>1, <2>2, <3>1, <4>1
    <3>2. CASE k \notin DOMAIN found
      <4>1. k - Len(found) \in DOMAIN items /\ found'[k] = items[k - Len(found)]
        BY <1>1, <2>2, <3>2
      <4> QED
        BY <2>2, <4>1
    <3> QED
      BY <3>1, <3>2
  <2> QED
    BY <2>1, <2>2 DEF OwnCaptions
<1>4. Separated'
  <2>1. found # << >> => found' # << >> /\ found'[1] = found[1]
    BY <1>1
  <2> QED
    BY <2>1 DEF MixerInv, Separated
<1> QED
  BY <1>2, <1>3, <1>4 DEF MixerInv

LEMMA InjClearInv == MixerInv /\ InjClear => MixerInv'
<1> SUFFICES ASSUME MixerInv, InjClear PROVE MixerInv'
  OBVIOUS
<1>1. Queue!TypeOK' /\ Queue!PoppedSatisfyQuery' /\ (Queue!Unlocked' <=> Queue!Unlocked)
  BY QueueIdleInv DEF InjClear
<1>2. inj' = [ inj EXCEPT !.pc = "emit", !.since = inj.ts + 1 ]
  BY DEF InjClear
<1>3. inj.ts + 1 \in Int
  BY InjectorFields
<1>4. inj' \in Injector /\ inj'.pc = "emit" /\ inj'.prev = inj.prev /\ inj'.input = inj.input
  BY <1>2, <1>3, InjectorFields DEF Injector
<1> DEFINE x == Reset(Clear, IF inj.since > inj.ts THEN inj.since ELSE inj.ts)
<1>5. x \in Item /\ x.kind = "reset"
  <2>1. (IF inj.since > inj.ts THEN inj.since ELSE inj.ts) \in Int /\ Clear \in Input
    BY InjectorFields DEF Input
  <2> QED
    BY <2>1, ResetType
<1>6. found' = found \o << x >>
  <2>1. found' = Append(found, x)
    BY DEF InjClear
  <2> HIDE DEF x
  <2> QED
    BY <1>5, <2>1, InjectorFields
<1> HIDE DEF x
<1>7. << x >> \in Seq(Item)
      /\ \A k \in DOMAIN << x >> : << x >>[k].kind = "caption" => << x >>[k].id = inj.input
  BY <1>5
<1>8. Querying /\ Querying'
  BY <1>4 DEF InjClear, Querying
<1>9. OwnQuery'
  BY <1>1, <1>4 DEF InjClear, MixerInv, OwnQuery
<1> QED
  BY <1>1, <1>4, <1>6, <1>7, <1>8, <1>9, QueriedInv DEF InjClear

LEMMA InjLockInv == MixerInv /\ InjLock => MixerInv'
<1> SUFFICES ASSUME MixerInv, InjLock PROVE MixerInv'
  OBVIOUS
<1>1. inj.input \in Input
  BY DEF InjLock, MixerInv, OwnCaptions, Querying
<1>2. inj.since \in Int /\ inj.ts + 1 \in Int
  BY InjectorFields
<1>3. QueueInv' /\ ~ Queue!Unlocked' /\ job'.id = inj.input
  BY <1>1, <1>2, QueueInvOfMixer, QueueLock DEF InjLock
<1>4. inj' \in Injector /\ inj'.pc = "pop" /\ inj'.prev = inj.prev /\ inj'.input = inj.input
  BY InjectorFields DEF InjLock, Injector
<1>5. Querying /\ Querying'
  BY <1>4 DEF InjLock, Querying
<1>6. OwnQuery'
  BY <1>3, <1>4 DEF OwnQuery
<1>7. << >> \in Seq(Item) /\ found' = found \o << >>
  BY InjectorFields DEF InjLock
<1>8. \A k \in DOMAIN << >> : << >>[k].kind = "caption" => << >>[k].id = inj.input
  OBVIOUS
<1> QED
  BY <1>3, <1>4, <1>5, <1>6, <1>7, <1>8, QueriedInv DEF InjLock, QueueInv

LEMMA InjPopInv == MixerInv /\ InjPop => MixerInv'
<1> SUFFICES ASSUME MixerInv, InjPop PROVE MixerInv'
  OBVIOUS
<1>1. QueueInv' /\ ~ Queue!Unlocked' /\ job'.id = job.id
  BY QueueInvOfMixer, QueuePopLoop DEF InjPop
<1>2. inj' = inj /\ found' = found
      /\ UNCHANGED << clockVars, controlVars, ext, written, lost, outTime >>
  BY DEF InjPop, outputVars
<1>3. inj' \in Injector
  BY <1>2, InjectorFields
<1>4. OwnQuery'
  BY <1>1, <1>2 DEF InjPop, MixerInv, OwnQuery
<1>5. Querying /\ Querying'
  BY <1>2 DEF InjPop, Querying
<1>6. << >> \in Seq(Item) /\ found' = found \o << >>
  BY <1>2, InjectorFields
<1>7. \A k \in DOMAIN << >> : << >>[k].kind = "caption" => << >>[k].id = inj.input
  OBVIOUS
<1>8. inj'.prev = inj.prev /\ inj'.input = inj.input
  BY <1>2
<1> QED
  BY <1>1, <1>2, <1>3, <1>4, <1>5, <1>6, <1>7, <1>8, QueriedInv DEF QueueInv

LEMMA InjPoppedInv == MixerInv /\ InjPopped => MixerInv'
<1> SUFFICES ASSUME MixerInv, InjPopped PROVE MixerInv'
  OBVIOUS
<1>1. QueueInv' /\ Queue!Unlocked'
  BY QueueInvOfMixer, QueueUnlock DEF InjPopped
<1>2. inj' = [ inj EXCEPT !.pc = "emit", !.since = inj.ts + 1 ]
  BY DEF InjPopped
<1>3. inj.ts + 1 \in Int
  BY InjectorFields
<1>4. inj' \in Injector /\ inj'.pc = "emit" /\ inj'.prev = inj.prev /\ inj'.input = inj.input
  BY <1>2, <1>3, InjectorFields DEF Injector
<1>5. out \in Seq(Item)
  BY DEF MixerInv, TypeOK, Queue!TypeOK
<1>6. ASSUME NEW k \in DOMAIN out PROVE out[k].id = inj.input
  BY DEF InjPopped, MixerInv, OwnQuery, Queue!PoppedSatisfyQuery
<1>7. Querying /\ Querying'
  BY <1>4 DEF InjPopped, Querying
<1>8. OwnQuery'
  BY <1>1, <1>4 DEF OwnQuery
<1> QED
  BY <1>1, <1>4, <1>5, <1>6, <1>7, <1>8, QueriedInv DEF InjPopped, QueueInv

-----------------------------------------------------------------------------
LEMMA ProcessedType ==
  ASSUME MixerInv
  PROVE  Processed \in Injector /\ Processed.pc = "idle" /\ Processed.prev = inj.prev
<1>1. Processed.pc = "idle" /\ Processed.prev = inj.prev
  BY InjectorFields DEF Processed, Injector
<1>2. 0 \in Int /\ NoInput \in Input \cup {NoInput}
  OBVIOUS
<1>3. Processed \in Injector
  BY <1>2, InjectorFields DEF Processed, Injector
<1> QED
  BY <1>1, <1>3

\* A packet is out of the injector: emitted, lost, or dropped in a failure.
LEMMA PacketDone ==
  ASSUME MixerInv, inj' \in Injector, inj'.pc \in {"start", "idle"}, inj.pc # "pop",
         found' = << >>, written' \in Item, lost' \in BOOLEAN, Separated',
         UNCHANGED << clockVars, queueVars, controlVars, ext, outTime >>
  PROVE  MixerInv'
<1>1. Queue!TypeOK' /\ Queue!PoppedSatisfyQuery' /\ (Queue!Unlocked' <=> Queue!Unlocked)
  BY QueueIdleInv
<1>2. TypeOK'
  BY <1>1 DEF MixerInv, TypeOK, clockVars, ClockTypeOK, controlVars
<1>3. OwnQuery' /\ OwnCaptions'
  BY <1>1 DEF MixerInv, OwnQuery, OwnCaptions, Querying
<1> QED
  BY <1>1, <1>2, <1>3 DEF MixerInv

LEMMA InjEmitInv == MixerInv /\ InjEmit => MixerInv'
<1> SUFFICES ASSUME MixerInv, InjEmit PROVE MixerInv'
  OBVIOUS
<1>1. inj' \in Injector /\ inj'.pc = "idle" /\ inj'.prev = inj.prev /\ found' = << >>
  BY ProcessedType DEF InjEmit
<1>2. /\ inj.prev = inj.input
      /\ \A k \in DOMAIN found : found[k].kind = "caption" => found[k].id = inj.prev
  BY DEF InjEmit, MixerInv, OwnCaptions, Querying
<1>3. found \in Seq(Item) /\ written \in Item
  BY InjectorFields
<1>4. lost' \in BOOLEAN
  BY DEF InjEmit
<1>5. CASE found = << >>
  <2>1. written' = written
    BY <1>5 DEF InjEmit
  <2>2. lost' = lost
    <3>1. DOMAIN found = {}
      BY <1>5
    <3> QED
      BY <3>1 DEF InjEmit, MixerInv, TypeOK
  <2>3. Separated'
    BY <1>1, <1>5, <2>1, <2>2 DEF MixerInv, Separated
  <2> QED
    BY <1>1, <1>3, <1>4, <2>1, <2>3, PacketDone DEF InjEmit
<1>6. CASE found # << >>
  <2>1. Len(found) \in DOMAIN found /\ found[Len(found)] \in Item
    BY <1>3, <1>6
  <2>2. written' = found[Len(found)]
    BY <1>6 DEF InjEmit
  <2>3. Separated'
    BY <1>1, <1>2, <2>1, <2>2 DEF Separated
  <2> QED
    BY <1>1, <1>4, <2>1, <2>2, <2>3, PacketDone DEF InjEmit
<1> QED
  BY <1>5, <1>6

LEMMA InjLoseInv == MixerInv /\ InjLose => MixerInv'
<1> SUFFICES ASSUME MixerInv, InjLose PROVE MixerInv'
  OBVIOUS
<1>1. inj' \in Injector /\ inj'.pc = "idle" /\ inj'.prev = inj.prev /\ found' = << >>
  BY ProcessedType DEF InjLose
<1>2. written' = written /\ written \in Item
  BY InjectorFields DEF InjLose
<1>3. lost' \in BOOLEAN
  BY DEF InjLose, MixerInv, TypeOK
<1>4. ASSUME ~ lost' PROVE ~ lost /\ ~ (found # << >> /\ found[1].kind = "reset")
  <2>1. ~ lost /\ \A k \in DOMAIN found : found[k].kind # "reset"
    BY <1>4 DEF InjLose
  <2>2. found # << >> => 1 \in DOMAIN found
    BY InjectorFields
  <2> QED
    BY <2>1, <2>2
<1>5. Separated'
  BY <1>1, <1>2, <1>4 DEF MixerInv, Separated
<1> QED
  BY <1>1, <1>2, <1>3, <1>5, PacketDone DEF InjLose

LEMMA InjFailInv == MixerInv /\ InjFail => MixerInv'
<1> SUFFICES ASSUME MixerInv, InjFail PROVE MixerInv'
  OBVIOUS
<1>1. inj' \in Injector /\ inj'.pc = "start" /\ inj'.prev = NoInput
  <2>1. inj' = InjectorAt("start", inj.runs) /\ inj.runs \in Nat
    BY InjectorFields DEF InjFail
  <2> QED
    BY <2>1, InjectorAtType DEF InjectorAt
<1>2. found' = << >> /\ written' = written /\ lost' = lost /\ inj.pc # "pop"
      /\ UNCHANGED << clockVars, queueVars, controlVars, ext, outTime >>
  BY DEF InjFail
<1>3. Separated'
  BY <1>1 DEF Separated
<1>4. written' \in Item /\ lost' \in BOOLEAN
  BY <1>2 DEF MixerInv, TypeOK
<1> QED
  BY <1>1, <1>2, <1>3, <1>4, PacketDone

LEMMA InjectInv == MixerInv /\ Inject => MixerInv'
BY InjStartInv, InjTickInv, InjAdjustInv, InjSelectInv, InjClearInv, InjLockInv, InjPopInv,
   InjPoppedInv, InjEmitInv, InjLoseInv, InjFailInv DEF Inject

LEMMA StutterInv == MixerInv /\ UNCHANGED vars => MixerInv'
<1> SUFFICES ASSUME MixerInv, UNCHANGED vars PROVE MixerInv'
  OBVIOUS
<1>1. QueueInv' /\ UNCHANGED << clockVars, job, out, outputVars >>
  BY QueueInvOfMixer, QueueUnchanged DEF vars, queueVars
<1>2. UNCHANGED << current, adjustment, restart, ext >>
  BY DEF vars, controlVars
<1> QED
  BY <1>1, <1>2, OthersInv DEF MixerInv, TypeOK

LEMMA NextInv == MixerInv /\ [Next]_vars => MixerInv'
BY ControllerInv, ExtractInv, InjectInv, StutterInv DEF Next

\* The inductive invariant of the mixer (proc/injector.cpp, proc/extractor.cpp).
THEOREM MixerInvariant == Spec => []MixerInv
BY InitInv, NextInv, PTL DEF Spec

\* All threads keep their state well-formed, in every interleaving.
THEOREM MixerTypeCorrect == Spec => []TypeOK
<1>1. MixerInv => TypeOK
  BY DEF MixerInv
<1> QED
  BY <1>1, MixerInvariant, PTL

-----------------------------------------------------------------------------
\* In the order in which messages are written, a CC reset comes between the
\* captions of two inputs unless it was lost with its packet: for any number of
\* inputs and extractors, however often they and the injector restart, and
\* however the changes of the current input interleave with the injector's query
\* (SeiInjector::process).  Whether a reader finds the reset is not said here.
THEOREM ResetsSeparateInputs == Spec => []ResetBetweenInputs
<1>1. MixerInv => ResetBetweenInputs
  <2> SUFFICES ASSUME MixerInv, inj.pc = "emit", NEW k \in DOMAIN found, FollowsCaption(k)
               PROVE  found[k].id = Before(k).id \/ (k = 1 /\ lost)
    BY DEF ResetBetweenInputs
  <2>1. /\ inj.input \in Input /\ inj.prev = inj.input
        /\ \A n \in DOMAIN found : found[n].kind = "caption" => found[n].id = inj.input
    BY DEF MixerInv, OwnCaptions, Querying
  <2>2. found[k].id = inj.input
    BY <2>1 DEF FollowsCaption
  <2>3. CASE k = 1
    <3>1. written.kind = "caption" /\ found[1].kind = "caption"
      BY <2>3 DEF FollowsCaption, Before
    <3>2. inj.prev # NoInput
      BY <2>1, MixerAssumption DEF Input, NoInput, Clear
    <3>3. lost \/ written.id = inj.prev
      BY <3>1, <3>2 DEF MixerInv, Separated
    <3> QED
      BY <2>1, <2>2, <2>3, <3>3 DEF Before
  <2>4. CASE k # 1
    <3>1. k - 1 \in DOMAIN found
      BY <2>4, InjectorFields
    <3>2. Before(k) = found[k - 1] /\ found[k - 1].kind = "caption"
      BY <2>4 DEF FollowsCaption, Before
    <3> QED
      BY <2>1, <2>2, <3>1, <3>2
  <2> QED
    BY <2>3, <2>4
<1> QED
  BY <1>1, MixerInvariant, PTL

-----------------------------------------------------------------------------
(***************************************************************************)
(* What is in the queue.  NoLeftovers and OneResetPerInput are about the   *)
(* same two steps: after drop_id nothing of the input is left, and nothing *)
(* comes until post_exit has pushed its reset.                             *)
(***************************************************************************)
ItemsFit ==
  \A x \in Elements(q) :
    /\ x.id \in UserInput
    /\ ext[x.id].pc \notin {"now", "reset"}
    /\ x.kind = "caption" =>
         x.run = ext[x.id].runs /\ ext[x.id].pc \in {"stream", "sei", "drop"}

ContentInv == ItemsFit /\ OneResetPerInput


\* What the operations do to the items of the queue.
LEMMA PushItems ==
  ASSUME q \in Seq(Item), NEW x \in Item
  PROVE  Elements(Queue!PushHeap(q, x)) = Elements(q) \cup {x}
BY PlainHeap, PushHeapElements

LEMMA PopItems ==
  ASSUME q \in Seq(Item), q # << >>
  PROVE  Elements(Queue!PopHeap(q)) \subseteq Elements(q)
BY PlainHeap, PopHeapKeeps

LEMMA DropItems ==
  ASSUME q \in Seq(Item), NEW id
  PROVE  \A x \in Elements(Queue!RemoveId(q, id)) : x \in Elements(q) /\ x.id # id
<1> DEFINE E == Elements(q)
           b == Queue!RemoveId(q, id)
<1>1. q \in Seq(E)
  BY DEF Elements
<1> HIDE DEF E
<1>2. b \in Seq(E) /\ \A k \in DOMAIN b : b[k].id # id
  BY <1>1, PlainHeap, RemoveIdType
<1> HIDE DEF b
<1>3. \A k \in DOMAIN b : b[k] \in E /\ b[k].id # id
  BY <1>2
<1> QED
  BY <1>3 DEF b, E, Elements

\* at most one CC reset of an input among the places in D
OneReset(c, D) ==
  \A i, j \in D : c[i].kind = "reset" /\ c[j].kind = "reset" /\ c[i].id = c[j].id => i = j

LEMMA OneResetDrawn ==
  ASSUME NEW b, NEW c, NEW D, DrawnFrom(b, c, D), OneReset(c, D)
  PROVE  OneReset(b, DOMAIN b)
<1>1. PICK f \in [ DOMAIN b -> D ] :
        /\ \A i, k \in DOMAIN b : f[i] = f[k] => i = k
        /\ \A i \in DOMAIN b : b[i] = c[f[i]]
  BY DEF DrawnFrom
<1>2. ASSUME NEW i \in DOMAIN b, NEW j \in DOMAIN b,
             b[i].kind = "reset", b[j].kind = "reset", b[i].id = b[j].id
      PROVE  i = j
  <2>1. f[i] = f[j]
    BY <1>1, <1>2 DEF OneReset
  <2> QED
    BY <1>1, <2>1
<1> QED
  BY <1>2 DEF OneReset

\* What is pushed is a caption, or the only reset of its input.
LEMMA PushKeepsOneReset ==
  ASSUME q \in Seq(Item), OneResetPerInput, NEW x \in Item, Queue!Push(x),
         x.kind = "reset" => \A y \in Elements(q) : y.id # x.id
  PROVE  OneResetPerInput'
<1> DEFINE n == Len(q) + 1
           a == Append(q, x)
           b == Queue!PushHeap(q, x)
<1>1. q' = b
  BY DEF Queue!Push
<1>2. \A i \in 1 .. n : (i \in DOMAIN q /\ a[i] = q[i]) \/ (i = n /\ a[i] = x)
  OBVIOUS
<1>3. DrawnFrom(b, a, 1 .. n)
  BY PlainHeap, PushHeapDrawn
<1>4. \A i \in DOMAIN q : x.kind = "reset" => q[i].id # x.id
  BY DEF Elements
<1> HIDE DEF n, a, b
<1>5. OneReset(a, 1 .. n)
  <2> SUFFICES ASSUME NEW i \in 1 .. n, NEW j \in 1 .. n,
                      a[i].kind = "reset", a[j].kind = "reset", a[i].id = a[j].id
               PROVE  i = j
    BY DEF OneReset
  <2> QED
    BY <1>2, <1>4 DEF OneResetPerInput
<1>6. OneReset(b, DOMAIN b)
  BY <1>3, <1>5, OneResetDrawn
<1> QED
  BY <1>1, <1>6 DEF OneReset, OneResetPerInput

LEMMA PopKeepsOneReset ==
  ASSUME q \in Seq(Item), q # << >>, OneResetPerInput, q' = Queue!PopHeap(q)
  PROVE  OneResetPerInput'
<1>1. DrawnFrom(q', q, 2 .. Len(q))
  BY PlainHeap, PopHeapDrawn
<1>2. OneReset(q, 2 .. Len(q))
  <2>1. 2 .. Len(q) \subseteq DOMAIN q
    OBVIOUS
  <2> QED
    BY <2>1 DEF OneReset, OneResetPerInput
<1>3. OneReset(q', DOMAIN q')
  BY <1>1, <1>2, OneResetDrawn
<1> QED
  BY <1>3 DEF OneReset, OneResetPerInput

LEMMA DropKeepsOneReset ==
  ASSUME q \in Seq(Item), OneResetPerInput, NEW id, q' = Queue!RemoveId(q, id)
  PROVE  OneResetPerInput'
<1>1. DrawnFrom(q', q, Kept(q, id))
  BY PlainHeap, RemoveIdDrawn
<1>2. OneReset(q, Kept(q, id))
  <2>1. Kept(q, id) \subseteq DOMAIN q
    BY DEF Kept
  <2> QED
    BY <2>1 DEF OneReset, OneResetPerInput
<1>3. OneReset(q', DOMAIN q')
  BY <1>1, <1>2, OneResetDrawn
<1> QED
  BY <1>3 DEF OneReset, OneResetPerInput

-----------------------------------------------------------------------------
\* The controller and the injector leave the extractors alone, and the
\* injector takes items out of the queue.
LEMMA OthersQueue ==
  ASSUME MixerInv, Controller \/ Inject \/ UNCHANGED vars
  PROVE  ext' = ext /\ (q' = q \/ (q # << >> /\ q' = Queue!PopHeap(q)))
<1>1. ext' = ext
  BY DEF Controller, SetCurrentInput, SetAdjustment, ScheduleRestart, Inject, InjStart, InjTick,
         InjAdjust, InjSelect, InjClear, InjLock, InjPop, InjPopped, InjEmit, InjLose, InjFail,
         vars
<1>2. CASE InjPop
  BY <1>1, <1>2 DEF InjPop, Queue!PopLoop, Queue!Skip, Queue!Take, Queue!DropColliding,
                    Queue!Taken, Queue!Exhausted, Queue!HasNext, Queue!Collides
<1>3. CASE ~ InjPop
  BY <1>1, <1>3 DEF Controller, SetCurrentInput, SetAdjustment, ScheduleRestart, Inject,
                    InjStart, InjTick, InjAdjust, InjSelect, InjClear, InjLock, InjPopped,
                    InjEmit, InjLose, InjFail, vars, queueVars, Queue!Lock, Queue!Unlock
<1> QED
  BY <1>2, <1>3

LEMMA OthersContent ==
  ASSUME MixerInv, ContentInv, Controller \/ Inject \/ UNCHANGED vars
  PROVE  ContentInv'
<1>1. q \in Seq(Item)
  BY DEF MixerInv, TypeOK, Queue!TypeOK
<1>2. ext' = ext
  BY OthersQueue
<1>3. q' = q \/ (q # << >> /\ q' = Queue!PopHeap(q))
  BY OthersQueue
<1>4. CASE q' = q
  BY <1>2, <1>4 DEF ContentInv, ItemsFit, OneResetPerInput
<1>5. CASE q # << >> /\ q' = Queue!PopHeap(q)
  <2>1. Elements(q') \subseteq Elements(q)
    BY <1>1, <1>5, PopItems
  <2> QED
    BY <1>1, <1>2, <1>5, <2>1, PopKeepsOneReset DEF ContentInv, ItemsFit
<1> QED
  BY <1>3, <1>4, <1>5

LEMMA ExtractContent ==
  ASSUME MixerInv, ContentInv, NEW i \in UserInput, Extract(i)
  PROVE  ContentInv'
<1>1. q \in Seq(Item) /\ ext \in [UserInput -> Extractor] /\ ext[i] \in Extractor
  BY DEF MixerInv, TypeOK, Queue!TypeOK
<1>2. \A j \in UserInput : j # i => ext'[j] = ext[j]
  BY <1>1 DEF Extract, ExtStart, ExtOpen, ExtPacket, ExtPush, ExtRemuxed, ExtFail, ExtDrop,
              ExtNow, ExtReset
<1>3. ItemsFit /\ OneResetPerInput
  BY DEF ContentInv
<1>4. ASSUME q' = q,
             \A x \in Elements(q) : x.id # i
             \/ /\ ext'[i].runs = ext[i].runs
                /\ ext'[i].pc \notin {"now", "reset"}
                /\ ext[i].pc \in {"stream", "sei", "drop"} => ext'[i].pc \in {"stream", "sei", "drop"}
      PROVE  ContentInv'
  <2>1. ItemsFit'
    BY <1>2, <1>3, <1>4 DEF ItemsFit
  <2> QED
    BY <1>3, <1>4, <2>1 DEF ContentInv, OneResetPerInput
<1>5. CASE ExtStart(i) \/ ExtOpen(i)
  <2>1. q' = q /\ ext[i].pc \in {"start", "open"} /\ ext'[i].pc \in {"open", "stream"}
    BY <1>1, <1>5 DEF ExtStart, ExtOpen, Extractor, queueVars
  <2>2. \A x \in Elements(q) : x.id = i => x.kind # "caption"
    BY <1>3, <2>1 DEF ItemsFit
  <2>3. ItemsFit'
    BY <1>2, <1>3, <2>1, <2>2 DEF ItemsFit
  <2> QED
    BY <1>3, <2>1, <2>3 DEF ContentInv, OneResetPerInput
<1>6. CASE (\E n \in CaptionsPerFrame : ExtPacket(i, n)) \/ ExtRemuxed(i) \/ ExtFail(i)
  <2>1. q' = q /\ ext'[i].runs = ext[i].runs /\ ext'[i].pc \in {"stream", "sei", "drop"}
    <3>1. ASSUME NEW n \in CaptionsPerFrame, ExtPacket(i, n)
          PROVE  q' = q /\ ext'[i].runs = ext[i].runs /\ ext'[i].pc = "sei"
      BY <1>1, <3>1 DEF ExtPacket, Extractor, queueVars
    <3>2. CASE ExtRemuxed(i)
      <4>1. q' = q /\ ext'[i] = IF ext[i].brk THEN ExtractorAt("drop", ext[i].runs)
                                              ELSE [ ext[i] EXCEPT !.pc = "stream" ]
        BY <1>1, <3>2 DEF ExtRemuxed, queueVars
      <4>2. CASE ext[i].brk
        BY <4>1, <4>2 DEF ExtractorAt
      <4>3. CASE ~ ext[i].brk
        BY <1>1, <4>1, <4>3 DEF Extractor
      <4> QED
        BY <4>2, <4>3
    <3>3. CASE ExtFail(i)
      BY <1>1, <3>3 DEF ExtFail, ExtractorAt, queueVars
    <3> QED
      BY <1>6, <3>1, <3>2, <3>3
  <2> QED
    BY <1>4, <2>1
<1>7. CASE ExtPush(i)
  <2> DEFINE x == [ id |-> i, pts |-> RescaleToClock(ext[i].rescaler, ext[i].frame),
                    order |-> ext[i].order, kind |-> "caption", run |-> ext[i].runs,
                    due |-> ext[i].opened + RescaleTs(ext[i].frame - 1) ]
  <2>1. x \in Item /\ x.id = i /\ x.kind = "caption" /\ x.run = ext[i].runs
    BY ExtPushItem
  <2>2. Queue!Push(x) /\ ext[i].pc = "sei"
    BY <1>7 DEF ExtPush
  <2>3. ext'[i].pc = "sei" /\ ext'[i].runs = ext[i].runs
    BY <1>1, <1>7 DEF ExtPush, Extractor
  <2> HIDE DEF x
  <2>4. Elements(q') = Elements(q) \cup {x}
    BY <1>1, <2>1, <2>2, PushItems DEF Queue!Push
  <2>5. ItemsFit'
    BY <1>2, <1>3, <2>1, <2>2, <2>3, <2>4 DEF ItemsFit
  <2>6. OneResetPerInput'
    BY <1>1, <1>3, <2>1, <2>2, PushKeepsOneReset
  <2> QED
    BY <2>5, <2>6 DEF ContentInv
<1>8. CASE ExtDrop(i)
  <2>1. q' = Queue!RemoveId(q, i)
    BY <1>8 DEF ExtDrop, Queue!DropId
  <2>2. \A x \in Elements(q') : x \in Elements(q) /\ x.id # i
    BY <1>1, <2>1, DropItems
  <2>3. ItemsFit'
    BY <1>2, <1>3, <2>2 DEF ItemsFit
  <2>4. OneResetPerInput'
    BY <1>1, <1>3, <2>1, DropKeepsOneReset
  <2> QED
    BY <2>3, <2>4 DEF ContentInv
<1>9. CASE ExtNow(i)
  <2>1. q' = q /\ ext[i].pc = "now"
    BY <1>9 DEF ExtNow, queueVars
  <2>2. \A x \in Elements(q) : x.id # i
    BY <1>3, <2>1 DEF ItemsFit
  <2> QED
    BY <1>4, <2>1, <2>2
<1>10. CASE ExtReset(i)
  <2> DEFINE x == Reset(i, ext[i].resetAt)
  <2>1. x \in Item /\ x.id = i /\ x.kind = "reset"
    <3>1. ext[i].resetAt \in Int /\ i \in Input
      BY <1>1 DEF Extractor, Input
    <3> QED
      BY <3>1, ResetType DEF Reset
  <2>2. Queue!Push(x) /\ ext[i].pc = "reset" /\ ext'[i].pc = "start"
    BY <1>1, <1>10 DEF ExtReset, ExtractorAt
  <2> HIDE DEF x
  <2>3. \A y \in Elements(q) : y.id # i
    BY <1>3, <2>2 DEF ItemsFit
  <2>4. Elements(q') = Elements(q) \cup {x}
    BY <1>1, <2>1, <2>2, PushItems DEF Queue!Push
  <2>5. ItemsFit'
    BY <1>2, <1>3, <2>1, <2>2, <2>3, <2>4 DEF ItemsFit
  <2>6. OneResetPerInput'
    BY <1>1, <1>3, <2>1, <2>2, <2>3, PushKeepsOneReset
  <2> QED
    BY <2>5, <2>6 DEF ContentInv
<1> QED
  BY <1>5, <1>6, <1>7, <1>8, <1>9, <1>10 DEF Extract

LEMMA ContentInvariant == Spec => []ContentInv
<1>1. Init => ContentInv
  BY DEF Init, Queue!Init, ContentInv, ItemsFit, OneResetPerInput, Elements
<1>2. MixerInv /\ ContentInv /\ [Next]_vars => ContentInv'
  BY OthersContent, ExtractContent DEF Next
<1> QED
  BY <1>1, <1>2, MixerInvariant, PTL DEF Spec

\* However an extractor stops, and whoever pops meanwhile, its next run finds
\* none of its captions in the queue (extractor(), post_exit).
THEOREM NothingLeftOver == Spec => []NoLeftovers
<1>1. ContentInv => NoLeftovers
  BY DEF ContentInv, ItemsFit, NoLeftovers, Captions
<1> QED
  BY <1>1, ContentInvariant, PTL

\* An input whose source is down does not fill the queue with CC resets:
\* every run drops the one of the run before (extractor(), post_exit).
THEOREM ResetsDoNotPileUp == Spec => []OneResetPerInput
<1>1. ContentInv => OneResetPerInput
  BY DEF ContentInv
<1> QED
  BY <1>1, ContentInvariant, PTL

-----------------------------------------------------------------------------
(***************************************************************************)
(* A caption keeps its point in time as long as the injector has not been  *)
(* restarted, if the timestamps of the output source do not go back and    *)
(* every packet of an input carries captions: the rescaler of an extractor *)
(* is anchored at its first caption, not at its first packet.              *)
(***************************************************************************)
Steady ==
  /\ PtsStep \subseteq Nat
  /\ CaptionsPerFrame \subseteq Nat \ {0}

\* The system clock is the time of the output.
ClockIsOutput ==
  /\ outTime = clock
  /\ inj.runs = 0 => inj.pc = "start" /\ last = NoTS
  /\ last = NoTS => clock = 0 /\ rescaler = ClockRelative(0)
  /\ last # NoTS => last = clock /\ rescaler.zero # NoTS
  /\ last # NoTS /\ inj.pc # "start" => last = RescaleToClock(rescaler, inj.pts)

\* The captions of an extractor are counted from the moment it opened its source.
AnchoredAtFirst(e) ==
  e.pc \in {"stream", "sei"} =>
    /\ e.rescaler.base = e.opened
    /\ e.rescaler.zero \in {NoTS, 1}
    /\ e.rescaler.zero = NoTS =>
         \/ e.pc = "stream" /\ e.frame = 0
         \/ e.pc = "sei" /\ e.frame = 1 /\ e.todo > 0

ExtractorsAnchored == \A i \in UserInput : AnchoredAtFirst(ext[i])

\* The injector's rescaler and that of its ticker are anchored at the same packet.
InjectorOnTime ==
  /\ inj.pc = "idle" => inj.rescaler = rescaler
  /\ inj.pc = "ticked" => last # NoTS /\ Anchored(inj.rescaler, inj.pts) = rescaler
  /\ inj.pc \in {"adjusted", "clear", "query", "pop", "emit"} =>
       last # NoTS /\ inj.rescaler = rescaler /\ inj.ts + inj.shift = outTime

\* A caption keeps its timestamp in the queue and in the answer to a query.
PointsKept ==
  /\ SamePoint
  /\ \A k \in DOMAIN out : out[k].kind = "caption" => out[k].pts = out[k].due
  /\ inj.pc = "pop" => job.until = inj.ts + 1
  /\ Querying => \A k \in DOMAIN found : found[k].kind = "caption" => found[k].due <= inj.ts

OnTime == ClockIsOutput /\ ExtractorsAnchored /\ InjectorOnTime /\ PointsKept

SteadyInv == FirstRun => OnTime

LEMMA InitSteady == Init => SteadyInv
<1> SUFFICES ASSUME Init PROVE OnTime
  BY DEF SteadyInv
<1>1. inj = InjectorAt("start", 0) /\ found = << >> /\ outTime = 0 /\ q = << >> /\ out = << >>
      /\ ext = [ i \in UserInput |-> ExtractorAt("start", 0) ]
      /\ clock = 0 /\ last = NoTS /\ rescaler = ClockRelative(0)
  BY DEF Init, ClockInit, Queue!Init
<1>2. ClockIsOutput /\ InjectorOnTime
  BY <1>1 DEF ClockIsOutput, InjectorOnTime, InjectorAt
<1>3. ExtractorsAnchored
  BY <1>1 DEF ExtractorsAnchored, AnchoredAtFirst, ExtractorAt
<1>4. PointsKept
  BY <1>1 DEF PointsKept, SamePoint, Captions, Elements, Querying, InjectorAt
<1> QED
  BY <1>2, <1>3, <1>4 DEF OnTime

\* An operation that takes captions out of the queue moves none in time.
LEMMA FewerPoints ==
  ASSUME SamePoint, Elements(q') \subseteq Elements(q)
  PROVE  SamePoint'
BY DEF SamePoint, Captions

\* The controller does not touch what the invariant is about.
LEMMA OthersSteady ==
  ASSUME OnTime, UNCHANGED << clockVars, queueVars, ext, outputVars >>
  PROVE  OnTime'
<1>1. ClockIsOutput' /\ InjectorOnTime'
  BY DEF OnTime, ClockIsOutput, InjectorOnTime, clockVars, outputVars
<1>2. ExtractorsAnchored'
  BY DEF OnTime, ExtractorsAnchored
<1>3. PointsKept'
  BY DEF OnTime, PointsKept, SamePoint, Captions, Querying, queueVars, outputVars
<1> QED
  BY <1>1, <1>2, <1>3 DEF OnTime

-----------------------------------------------------------------------------
\* An extractor's steps, by what they do to its own state and to the queue.
LEMMA ExtractorSteady ==
  ASSUME OnTime, NEW i \in UserInput, ext \in [ UserInput -> Extractor ],
         NEW e, ext' = [ ext EXCEPT ![i] = e ], AnchoredAtFirst(e), SamePoint',
         UNCHANGED << clockVars, job, out, outputVars >>
  PROVE  OnTime'
<1>1. ClockIsOutput' /\ InjectorOnTime'
  BY DEF OnTime, ClockIsOutput, InjectorOnTime, clockVars, outputVars
<1>2. ExtractorsAnchored'
  BY DEF OnTime, ExtractorsAnchored
<1>3. PointsKept'
  BY DEF OnTime, PointsKept, Querying, outputVars
<1> QED
  BY <1>1, <1>2, <1>3 DEF OnTime

\* SeiExtractor::process stamps a caption with the moment at which it belongs.
LEMMA ExtPushSteady ==
  ASSUME MixerInv, OnTime, NEW i \in UserInput, ExtPush(i)
  PROVE  OnTime'
<1> DEFINE e == ext[i]
           x == [ id |-> i, pts |-> RescaleToClock(e.rescaler, e.frame),
                  order |-> e.order, kind |-> "caption", run |-> e.runs,
                  due |-> e.opened + RescaleTs(e.frame - 1) ]
           e2 == [ e EXCEPT !.rescaler = Anchored(e.rescaler, e.frame),
                            !.todo = e.todo - 1, !.order = e.order + 1 ]
<1>1. ext \in [ UserInput -> Extractor ] /\ e \in Extractor /\ q \in Seq(Item)
  BY DEF MixerInv, TypeOK, Queue!TypeOK
<1>2. e.pc = "sei" /\ Queue!Push(x) /\ ext' = [ ext EXCEPT ![i] = e2 ]
      /\ UNCHANGED << clockVars, controlVars, outputVars >>
  BY DEF ExtPush
<1>3. x \in Item /\ x.pts = RescaleToClock(e.rescaler, e.frame)
      /\ x.due = e.opened + RescaleTs(e.frame - 1)
  BY ExtPushItem
<1>4. e.rescaler \in Rescaler /\ AnchoredAtFirst(e)
  BY <1>1 DEF Extractor, OnTime, ExtractorsAnchored
<1>5. Anchored(e.rescaler, e.frame).zero = 1 /\ Anchored(e.rescaler, e.frame).base = e.opened
      /\ e.rescaler.base = e.opened
  BY <1>2, <1>4 DEF AnchoredAtFirst, Anchored, Rescaler
<1>6. x.pts = x.due
  BY <1>3, <1>5 DEF RescaleToClock
<1>7. AnchoredAtFirst(e2)
  <2>1. e2.pc = "sei" /\ e2.rescaler = Anchored(e.rescaler, e.frame) /\ e2.opened = e.opened
    BY <1>1, <1>2 DEF Extractor
  <2>2. 1 # NoTS
    BY ClockAssumption
  <2> HIDE DEF e2, e
  <2> QED
    BY <1>5, <2>1, <2>2 DEF AnchoredAtFirst
<1> HIDE DEF x, e2, e
<1>8. Elements(q') = Elements(q) \cup {x}
  BY <1>1, <1>2, <1>3, PushItems DEF Queue!Push
<1>9. SamePoint'
  BY <1>6, <1>8 DEF OnTime, PointsKept, SamePoint, Captions
<1>10. UNCHANGED << job, out >>
  BY <1>2 DEF Queue!Push
<1> QED
  BY <1>1, <1>2, <1>7, <1>9, <1>10, ExtractorSteady

LEMMA ExtractSteady ==
  ASSUME Steady, MixerInv, OnTime, NEW i \in UserInput, Extract(i)
  PROVE  OnTime'
<1>1. ext \in [ UserInput -> Extractor ] /\ ext[i] \in Extractor /\ q \in Seq(Item)
  BY DEF MixerInv, TypeOK, Queue!TypeOK
<1>2. SamePoint /\ AnchoredAtFirst(ext[i]) /\ outTime = clock
  BY DEF OnTime, PointsKept, ExtractorsAnchored, ClockIsOutput
<1>3. ASSUME NEW e, ext' = [ ext EXCEPT ![i] = e ], AnchoredAtFirst(e),
             UNCHANGED << clockVars, queueVars, outputVars >>
      PROVE  OnTime'
  <2>1. SamePoint' /\ UNCHANGED << job, out >>
    BY <1>2, <1>3 DEF queueVars, SamePoint, Captions
  <2> QED
    BY <1>1, <1>3, <2>1, ExtractorSteady
<1>4. \A pc, runs : pc \notin {"stream", "sei"} => AnchoredAtFirst(ExtractorAt(pc, runs))
  BY DEF AnchoredAtFirst, ExtractorAt
<1>5. CASE ExtStart(i)
  <2> DEFINE e == [ ext[i] EXCEPT !.pc = "open", !.runs = ext[i].runs + 1 ]
  <2>1. ext' = [ ext EXCEPT ![i] = e ] /\ UNCHANGED << clockVars, queueVars, outputVars >>
    BY <1>1, <1>5 DEF ExtStart
  <2>2. AnchoredAtFirst(e)
    BY <1>1 DEF AnchoredAtFirst, Extractor
  <2> HIDE DEF e
  <2> QED
    BY <1>3, <2>1, <2>2
<1>6. CASE ExtOpen(i)
  <2> DEFINE e == [ ext[i] EXCEPT !.pc = "stream", !.rescaler = ClockRelative(clock),
                                  !.frame = 0, !.opened = outTime ]
  <2>1. ext' = [ ext EXCEPT ![i] = e ] /\ UNCHANGED << clockVars, queueVars, outputVars >>
    BY <1>1, <1>6 DEF ExtOpen
  <2>2. AnchoredAtFirst(e)
    BY <1>1, <1>2 DEF AnchoredAtFirst, Extractor, ClockRelative
  <2> HIDE DEF e
  <2> QED
    BY <1>3, <2>1, <2>2
<1>7. ASSUME NEW n \in CaptionsPerFrame, ExtPacket(i, n) PROVE OnTime'
  <2> DEFINE e == [ ext[i] EXCEPT !.pc = "sei", !.frame = ext[i].frame + 1, !.todo = n,
                                  !.order = 0, !.brk = restart[i] ]
  <2>1. ext' = [ ext EXCEPT ![i] = e ] /\ UNCHANGED << clockVars, queueVars, outputVars >>
        /\ ext[i].pc = "stream"
    BY <1>1, <1>7 DEF ExtPacket
  <2>2. n \in Nat \ {0}
    BY DEF Steady
  <2>3. e.pc = "sei" /\ e.frame = ext[i].frame + 1 /\ e.todo = n
        /\ e.rescaler = ext[i].rescaler /\ e.opened = ext[i].opened
    BY <1>1 DEF Extractor
  <2> HIDE DEF e
  <2>4. AnchoredAtFirst(e)
    BY <1>2, <2>1, <2>2, <2>3 DEF AnchoredAtFirst
  <2> QED
    BY <1>3, <2>1, <2>4
<1>8. CASE ExtRemuxed(i)
  <2>1. UNCHANGED << clockVars, queueVars, outputVars >> /\ ext[i].pc = "sei" /\ ext[i].todo = 0
    BY <1>8 DEF ExtRemuxed
  <2>2. CASE ext[i].brk
    <3>1. ext' = [ ext EXCEPT ![i] = ExtractorAt("drop", ext[i].runs) ]
      BY <1>8, <2>2 DEF ExtRemuxed
    <3> QED
      BY <1>3, <1>4, <2>1, <3>1
  <2>3. CASE ~ ext[i].brk
    <3> DEFINE e == [ ext[i] EXCEPT !.pc = "stream" ]
    <3>1. ext' = [ ext EXCEPT ![i] = e ]
      BY <1>8, <2>3 DEF ExtRemuxed
    <3>2. e.pc = "stream" /\ e.rescaler = ext[i].rescaler /\ e.opened = ext[i].opened
      BY <1>1 DEF Extractor
    <3> HIDE DEF e
    <3>3. AnchoredAtFirst(e)
      BY <1>2, <2>1, <3>2 DEF AnchoredAtFirst
    <3> QED
      BY <1>3, <2>1, <3>1, <3>3
  <2> QED
    BY <2>2, <2>3
<1>9. CASE ExtFail(i)
  <2>1. ext' = [ ext EXCEPT ![i] = ExtractorAt("drop", ext[i].runs) ]
        /\ UNCHANGED << clockVars, queueVars, outputVars >>
    BY <1>9 DEF ExtFail
  <2> QED
    BY <1>3, <1>4, <2>1
<1>10. CASE ExtDrop(i)
  <2> DEFINE e == [ ext[i] EXCEPT !.pc = "now" ]
  <2>1. ext' = [ ext EXCEPT ![i] = e ] /\ UNCHANGED << clockVars, outputVars, job, out >>
        /\ q' = Queue!RemoveId(q, i)
    BY <1>10 DEF ExtDrop, Queue!DropId
  <2>2. AnchoredAtFirst(e)
    BY <1>1 DEF AnchoredAtFirst, Extractor
  <2> HIDE DEF e
  <2>3. Elements(q') \subseteq Elements(q)
    BY <1>1, <2>1, DropItems
  <2> QED
    BY <1>1, <1>2, <2>1, <2>2, <2>3, FewerPoints, ExtractorSteady
<1>11. CASE ExtNow(i)
  <2> DEFINE e == [ ext[i] EXCEPT !.pc = "reset", !.resetAt = clock + 1 ]
  <2>1. ext' = [ ext EXCEPT ![i] = e ] /\ UNCHANGED << clockVars, queueVars, outputVars >>
    BY <1>1, <1>11 DEF ExtNow
  <2>2. AnchoredAtFirst(e)
    BY <1>1 DEF AnchoredAtFirst, Extractor
  <2> HIDE DEF e
  <2> QED
    BY <1>3, <2>1, <2>2
<1>12. CASE ExtReset(i)
  <2> DEFINE x == Reset(i, ext[i].resetAt)
  <2>1. ext' = [ ext EXCEPT ![i] = ExtractorAt("start", ext[i].runs) ]
        /\ UNCHANGED << clockVars, outputVars, job, out >> /\ q' = Queue!PushHeap(q, x)
    BY <1>12 DEF ExtReset, Queue!Push
  <2>2. x \in Item /\ x.kind = "reset"
    <3>1. ext[i].resetAt \in Int /\ i \in Input
      BY <1>1 DEF Extractor, Input
    <3> QED
      BY <3>1, ResetType
  <2> HIDE DEF x
  <2>3. Elements(q') = Elements(q) \cup {x}
    BY <1>1, <2>1, <2>2, PushItems
  <2>4. SamePoint'
    BY <1>2, <2>2, <2>3 DEF SamePoint, Captions
  <2> QED
    BY <1>1, <1>4, <2>1, <2>4, ExtractorSteady
<1> QED
  BY <1>5, <1>6, <1>7, <1>8, <1>9, <1>10, <1>11, <1>12, ExtPushSteady DEF Extract

-----------------------------------------------------------------------------
\* The injector's steps; what they leave alone is the extractors'.
LEMMA InjectorSteady ==
  ASSUME MixerInv, Inject, OnTime, ClockIsOutput', InjectorOnTime',
         \A k \in DOMAIN out' : out'[k].kind = "caption" => out'[k].pts = out'[k].due,
         inj'.pc = "pop" => job'.until = inj'.ts + 1,
         Querying' => \A k \in DOMAIN found' :
                        found'[k].kind = "caption" => found'[k].due <= inj'.ts
  PROVE  OnTime'
<1>1. q \in Seq(Item)
  BY DEF MixerInv, TypeOK, Queue!TypeOK
<1>2. ext' = ext /\ (q' = q \/ (q # << >> /\ q' = Queue!PopHeap(q)))
  BY OthersQueue
<1>3. Elements(q') \subseteq Elements(q)
  BY <1>1, <1>2, PopItems
<1>4. SamePoint'
  BY <1>3, FewerPoints DEF OnTime, PointsKept
<1> QED
  BY <1>2, <1>4 DEF OnTime, PointsKept, ExtractorsAnchored

InPacket == {"adjusted", "clear", "query", "pop", "emit"}

\* A step within a packet that leaves the clock and the rescaled timestamp alone.
LEMMA PacketKeepsTime ==
  ASSUME MixerInv, OnTime, inj.pc \in InPacket, UNCHANGED << clockVars, outTime >>,
         inj'.pc \in InPacket, inj'.runs = inj.runs, inj'.rescaler = inj.rescaler,
         inj'.pts = inj.pts, inj'.ts = inj.ts, inj'.shift = inj.shift
  PROVE  ClockIsOutput' /\ InjectorOnTime'
<1>1. ClockIsOutput'
  BY DEF OnTime, ClockIsOutput, clockVars, InPacket
<1>2. InjectorOnTime'
  BY DEF OnTime, InjectorOnTime, clockVars, InPacket
<1> QED
  BY <1>1, <1>2

LEMMA InjStartSteady ==
  ASSUME MixerInv, OnTime, InjStart, FirstRun'
  PROVE  OnTime'
<1>1. inj' = [ InjectorAt("idle", inj.runs + 1) EXCEPT !.rescaler = ClockRelative(clock) ]
      /\ NewTicker /\ found' = found /\ UNCHANGED << queueVars, outTime >>
  BY DEF InjStart
<1>2. inj'.pc = "idle" /\ inj'.runs = inj.runs + 1 /\ inj'.rescaler = ClockRelative(clock)
  BY <1>1 DEF InjectorAt
<1>3. inj.runs = 0
  BY <1>2, InjectorFields DEF FirstRun
<1>4. clock = 0 /\ outTime = clock
  BY <1>3 DEF OnTime, ClockIsOutput
<1>5. clock' = clock /\ last' = NoTS /\ rescaler' = ClockRelative(clock)
  BY <1>1 DEF NewTicker
<1>6. ClockIsOutput'
  BY <1>1, <1>2, <1>3, <1>4, <1>5 DEF ClockIsOutput
<1>7. InjectorOnTime'
  BY <1>2, <1>5 DEF InjectorOnTime
<1>8. \A k \in DOMAIN out' : out'[k].kind = "caption" => out'[k].pts = out'[k].due
  BY <1>1 DEF OnTime, PointsKept, queueVars
<1> QED
  BY <1>2, <1>6, <1>7, <1>8, InjectorSteady DEF Inject, Querying

\* ClockTicker: the timestamps of the output do not go back, so the clock is
\* advanced by exactly their distance and stays the output's time.
LEMMA InjTickSteady ==
  ASSUME Steady, MixerInv, OnTime, NEW step \in PtsStep, InjTick(step)
  PROVE  OnTime'
<1> DEFINE pts == inj.pts + step
           ts == RescaleToClock(rescaler, pts)
<1>1. inj' = [ inj EXCEPT !.pc = "ticked", !.pts = pts ] /\ Tick(pts) /\ outTime' = last'
      /\ inj.pc = "idle" /\ UNCHANGED << queueVars, found >>
  BY DEF InjTick
<1>2. step \in Nat /\ inj.pts \in Int /\ pts \in Int /\ inj.pts <= pts
  BY InjectorFields DEF Steady
<1>3. inj'.pc = "ticked" /\ inj'.pts = pts /\ inj'.runs = inj.runs /\ inj'.rescaler = inj.rescaler
  BY <1>1, InjectorFields DEF Injector
<1>4. /\ rescaler' = Anchored(rescaler, pts) /\ last' = ts
      /\ clock' = Incremented(clock, IF last = NoTS THEN ts ELSE ts - last)
  BY <1>1 DEF Tick
<1>5. ts \in Int /\ rescaler \in Rescaler /\ last \in Int \cup {NoTS} /\ clock \in Int
  BY <1>2, InjectorFields, RescaleToClockType DEF MixerInv, TypeOK, ClockTypeOK
<1>6. ts = RescaleToClock(rescaler', pts)
  BY <1>4, <1>5 DEF RescaleToClock, Anchored, Rescaler
<1>7. rescaler'.zero # NoTS
  BY <1>2, <1>4, <1>5, AnchoredType, ClockAssumption
<1>8. last' # NoTS
  BY <1>4, <1>5, ClockAssumption
<1>9. clock' = ts
  <2>1. CASE last = NoTS
    <3>1. clock = 0 /\ rescaler = ClockRelative(0)
      BY <2>1 DEF OnTime, ClockIsOutput
    <3>2. Anchored(rescaler, pts).zero = pts /\ rescaler.base = 0
      BY <3>1 DEF Anchored, ClockRelative
    <3>3. ts = 0
      BY <1>2, <3>2, RescaleTsZero DEF RescaleToClock
    <3> QED
      BY <1>4, <2>1, <3>1, <3>3 DEF Incremented
  <2>2. CASE last # NoTS
    <3>1. last = clock /\ rescaler.zero # NoTS /\ last = RescaleToClock(rescaler, inj.pts)
      BY <1>1, <2>2 DEF OnTime, ClockIsOutput
    <3>2. /\ ts = rescaler.base + RescaleTs(pts - rescaler.zero)
          /\ last = rescaler.base + RescaleTs(inj.pts - rescaler.zero)
      BY <3>1 DEF RescaleToClock, Anchored
    <3>3. rescaler.zero \in Int /\ rescaler.base \in Int
      BY <1>5, <3>1 DEF Rescaler
    <3>4. pts - rescaler.zero \in Int /\ inj.pts - rescaler.zero \in Int
          /\ inj.pts - rescaler.zero <= pts - rescaler.zero
      BY <1>2, <3>3
    <3>5. RescaleTs(inj.pts - rescaler.zero) <= RescaleTs(pts - rescaler.zero)
          /\ RescaleTs(pts - rescaler.zero) \in Int /\ RescaleTs(inj.pts - rescaler.zero) \in Int
      BY <3>4, RescaleTsMonotone, RescaleTsType
    <3>6. ts >= last /\ last \in Int
      BY <3>2, <3>3, <3>5
    <3> HIDE DEF ts
    <3>7. clock' = clock + (ts - last)
      BY <1>4, <1>5, <2>2, <3>6 DEF Incremented
    <3>8. last = clock /\ ts \in Int
      BY <1>5, <3>1
    <3> QED
      BY <3>6, <3>7, <3>8
  <2> QED
    BY <2>1, <2>2
<1>10. ClockIsOutput'
  <2>1. inj.runs # 0
    BY <1>1 DEF OnTime, ClockIsOutput
  <2> HIDE DEF ts, pts
  <2> QED
    BY <1>1, <1>3, <1>4, <1>6, <1>7, <1>8, <1>9, <2>1 DEF ClockIsOutput
<1>11. inj.rescaler = rescaler
  BY <1>1 DEF OnTime, InjectorOnTime
<1>12. InjectorOnTime'
  BY <1>3, <1>4, <1>8, <1>11 DEF InjectorOnTime
<1>13. \A k \in DOMAIN out' : out'[k].kind = "caption" => out'[k].pts = out'[k].due
  BY <1>1 DEF OnTime, PointsKept, queueVars
<1> QED
  BY <1>3, <1>10, <1>12, <1>13, InjectorSteady DEF Inject, Querying

\* SeiInjector::process: the packet's time, and what it is shifted by.
LEMMA InjAdjustSteady ==
  ASSUME MixerInv, OnTime, InjAdjust
  PROVE  OnTime'
<1> DEFINE ts == RescaleToClock(inj.rescaler, inj.pts)
<1>1. inj' = [ inj EXCEPT !.pc = "adjusted", !.rescaler = Anchored(inj.rescaler, inj.pts),
                          !.ts = ts - adjustment, !.shift = adjustment ]
      /\ inj.pc = "ticked" /\ UNCHANGED << clockVars, queueVars, outTime, found >>
  BY DEF InjAdjust
<1>2. inj'.pc = "adjusted" /\ inj'.rescaler = Anchored(inj.rescaler, inj.pts)
      /\ inj'.ts = ts - adjustment /\ inj'.shift = adjustment /\ inj'.runs = inj.runs
      /\ inj'.pts = inj.pts
  BY <1>1, InjectorFields DEF Injector
<1>3. last # NoTS /\ Anchored(inj.rescaler, inj.pts) = rescaler /\ last = clock
      /\ outTime = clock /\ last = RescaleToClock(rescaler, inj.pts) /\ inj.runs # 0
  BY <1>1 DEF OnTime, InjectorOnTime, ClockIsOutput
<1>4. ts = RescaleToClock(rescaler, inj.pts)
  BY <1>3, InjectorFields DEF RescaleToClock, Anchored, Rescaler
<1>5. ts = outTime /\ ts \in Int /\ adjustment \in Int
  BY <1>3, <1>4, InjectorFields
<1> HIDE DEF ts
<1>6. inj'.ts + inj'.shift = outTime
  BY <1>2, <1>5
<1>7. ClockIsOutput'
  BY <1>1, <1>2, <1>3 DEF OnTime, ClockIsOutput, clockVars
<1>8. InjectorOnTime'
  BY <1>1, <1>2, <1>3, <1>6 DEF InjectorOnTime, clockVars
<1>9. \A k \in DOMAIN out' : out'[k].kind = "caption" => out'[k].pts = out'[k].due
  BY <1>1 DEF OnTime, PointsKept, queueVars
<1> QED
  BY <1>2, <1>7, <1>8, <1>9, InjectorSteady DEF Inject, Querying

\* What a packet finds before and without a query are CC resets.
LEMMA InjFoundSteady ==
  ASSUME MixerInv, OnTime, InjSelect \/ InjClear \/ InjLock
  PROVE  OnTime'
<1>1. inj \in Injector /\ found \in Seq(Item) /\ current \in Input
  BY InjectorFields
<1>2. inj.pc \in InPacket /\ UNCHANGED << clockVars, outTime >>
  BY DEF InjSelect, InjClear, InjLock, InPacket
<1>3. /\ inj'.runs = inj.runs /\ inj'.rescaler = inj.rescaler /\ inj'.pts = inj.pts
      /\ inj'.ts = inj.ts /\ inj'.shift = inj.shift
      /\ inj'.pc \in {"clear", "query", "pop", "emit"}
  <2>1. CASE InjSelect
    BY <1>1, <2>1 DEF InjSelect, Injector
  <2>2. CASE InjClear
    BY <1>1, <2>2 DEF InjClear, Injector
  <2>3. CASE InjLock
    BY <1>1, <2>3 DEF InjLock, Injector
  <2> QED
    BY <2>1, <2>2, <2>3
<1>4. ClockIsOutput' /\ InjectorOnTime'
  BY <1>2, <1>3, PacketKeepsTime DEF InPacket
<1>5. \A k \in DOMAIN out' : out'[k].kind = "caption" => out'[k].pts = out'[k].due
  <2>1. CASE InjSelect \/ InjClear
    BY <2>1 DEF InjSelect, InjClear, OnTime, PointsKept, queueVars
  <2>2. CASE InjLock
    BY <2>2 DEF InjLock, Queue!Lock
  <2> QED
    BY <2>1, <2>2
<1>6. inj'.pc = "pop" => job'.until = inj'.ts + 1
  <2>1. CASE InjSelect
    BY <1>1, <2>1 DEF InjSelect, Injector
  <2>2. CASE InjClear
    BY <1>1, <2>2 DEF InjClear, Injector
  <2>3. CASE InjLock
    BY <1>3, <2>3 DEF InjLock, Queue!Lock
  <2> QED
    BY <2>1, <2>2, <2>3
<1>7. \A k \in DOMAIN found' : found'[k].kind = "caption" => found'[k].due <= inj.ts
  <2>1. CASE InjSelect
    <3>1. found' = << >> \/ found' = << Reset(current, inj.ts) >>
      BY <2>1 DEF InjSelect
    <3> QED
      BY <3>1 DEF Reset
  <2>2. CASE InjClear
    <3> DEFINE ts == IF inj.since > inj.ts THEN inj.since ELSE inj.ts
    <3>1. found' = Append(found, Reset(Clear, ts))
      BY <2>2 DEF InjClear
    <3>2. Reset(Clear, ts).kind = "reset"
      BY DEF Reset
    <3>3. \A k \in DOMAIN found : found[k].kind = "caption" => found[k].due <= inj.ts
      BY <2>2 DEF InjClear, OnTime, PointsKept, Querying
    <3> HIDE DEF ts
    <3>4. \A k \in DOMAIN found' : (k \in DOMAIN found /\ found'[k] = found[k])
                                   \/ found'[k] = Reset(Clear, ts)
      BY <1>1, <3>1
    <3> QED
      BY <3>2, <3>3, <3>4
  <2>3. CASE InjLock
    BY <2>3 DEF InjLock, OnTime, PointsKept, Querying
  <2> QED
    BY <2>1, <2>2, <2>3
<1> QED
  BY <1>3, <1>4, <1>5, <1>6, <1>7, InjectorSteady DEF Inject

\* pop_all moves captions as they are from the queue to its answer.
LEMMA InjPopSteady ==
  ASSUME MixerInv, OnTime, InjPop
  PROVE  OnTime'
<1>1. Queue!PopLoop /\ inj.pc = "pop" /\ UNCHANGED << clockVars, outputVars >>
  BY DEF InjPop
<1>2. ClockIsOutput' /\ InjectorOnTime'
  BY <1>1, PacketKeepsTime DEF outputVars, InPacket
<1>3. q \in Seq(Item) /\ out \in Seq(Item) /\ job \in Queue!Job /\ ~ Queue!Unlocked
  BY <1>1 DEF MixerInv, TypeOK, Queue!TypeOK, OwnQuery
<1>4. job' = job \/ (Queue!Goto("search") \/ Queue!Goto("collide") \/ Queue!Goto("return"))
  BY <1>1 DEF Queue!PopLoop, Queue!Skip, Queue!Take, Queue!DropColliding, Queue!Taken,
              Queue!Exhausted
<1>5. job'.until = job.until
  BY <1>3, <1>4 DEF Queue!Goto, Queue!Job, Queue!Unlocked, Queue!Idle
<1>6. out' = out \/ (q # << >> /\ out' = Append(out, q[1]))
  BY <1>1 DEF Queue!PopLoop, Queue!Skip, Queue!Take, Queue!DropColliding, Queue!Taken,
              Queue!Exhausted, Queue!HasNext
<1>7. \A k \in DOMAIN out' : out'[k].kind = "caption" => out'[k].pts = out'[k].due
  <2>1. \A k \in DOMAIN out : out[k].kind = "caption" => out[k].pts = out[k].due
    BY DEF OnTime, PointsKept
  <2>2. CASE out' = out
    BY <2>1, <2>2
  <2>3. CASE q # << >> /\ out' = Append(out, q[1])
    <3>1. q[1] \in Elements(q)
      BY <1>3, <2>3 DEF Elements
    <3>2. q[1].kind = "caption" => q[1].pts = q[1].due
      BY <3>1 DEF OnTime, PointsKept, SamePoint, Captions
    <3>3. \A k \in DOMAIN out' : (k \in DOMAIN out /\ out'[k] = out[k]) \/ out'[k] = q[1]
      BY <1>3, <2>3
    <3> QED
      BY <2>1, <3>2, <3>3
  <2> QED
    BY <1>6, <2>2, <2>3
<1> QED
  BY <1>1, <1>2, <1>5, <1>7, InjectorSteady DEF Inject, outputVars, OnTime, PointsKept, Querying

\* What pop_all returns lies before the end of the packet's time frame.
LEMMA InjPoppedSteady ==
  ASSUME MixerInv, OnTime, InjPopped
  PROVE  OnTime'
<1>1. inj' = [ inj EXCEPT !.pc = "emit", !.since = inj.ts + 1 ] /\ Queue!Unlock
      /\ found' = found \o out /\ inj.pc = "pop" /\ UNCHANGED << clockVars, outTime >>
  BY DEF InjPopped
<1>2. inj'.pc = "emit" /\ inj'.ts = inj.ts /\ inj'.shift = inj.shift /\ inj'.runs = inj.runs
      /\ inj'.rescaler = inj.rescaler /\ inj'.pts = inj.pts /\ inj.ts \in Int
  BY <1>1, InjectorFields DEF Injector
<1>3. ClockIsOutput' /\ InjectorOnTime'
  BY <1>1, <1>2, PacketKeepsTime DEF InPacket
<1>4. out \in Seq(Item) /\ found \in Seq(Item) /\ ~ Queue!Unlocked
  BY <1>1 DEF MixerInv, TypeOK, Queue!TypeOK, OwnQuery
<1>5. \A k \in DOMAIN out : out[k].kind = "caption" => out[k].due <= inj.ts
  <2> SUFFICES ASSUME NEW k \in DOMAIN out, out[k].kind = "caption" PROVE out[k].due <= inj.ts
    OBVIOUS
  <2>1. out[k].pts = out[k].due /\ job.until = inj.ts + 1
    BY <1>1 DEF OnTime, PointsKept
  <2>2. out[k].pts < job.until
    BY <1>4 DEF MixerInv, Queue!PoppedSatisfyQuery
  <2>3. out[k] \in Item
    BY <1>4
  <2>4. out[k].pts \in Int
    BY <2>3 DEF Item
  <2> QED
    BY <1>2, <2>1, <2>2, <2>4
<1>6. \A k \in DOMAIN found : found[k].kind = "caption" => found[k].due <= inj.ts
  BY <1>1 DEF OnTime, PointsKept, Querying
<1>7. \A k \in DOMAIN found' : \/ k \in DOMAIN found /\ found'[k] = found[k]
                               \/ \E j \in DOMAIN out : found'[k] = out[j]
  <2>1. \A k \in DOMAIN found' : k \notin DOMAIN found =>
          k - Len(found) \in DOMAIN out /\ found'[k] = out[k - Len(found)]
    BY <1>1, <1>4
  <2>2. \A k \in DOMAIN found : found'[k] = found[k]
    BY <1>1, <1>4
  <2> QED
    BY <2>1, <2>2
<1>8. \A k \in DOMAIN found' : found'[k].kind = "caption" => found'[k].due <= inj.ts
  BY <1>5, <1>6, <1>7
<1>9. out' = << >>
  BY <1>1 DEF Queue!Unlock
<1> QED
  BY <1>2, <1>3, <1>8, <1>9, InjectorSteady DEF Inject

\* The packet is done: its rescaled timestamp is forgotten, the clock is not.
LEMMA InjDoneSteady ==
  ASSUME MixerInv, OnTime, InjEmit \/ InjLose \/ InjFail
  PROVE  OnTime'
<1>1. UNCHANGED << clockVars, queueVars, outTime >>
  BY DEF InjEmit, InjLose, InjFail
<1>2. CASE InjEmit \/ InjLose
  <2>1. inj' = Processed /\ inj.pc = "emit"
    BY <1>2 DEF InjEmit, InjLose
  <2>2. inj'.pc = "idle" /\ inj'.runs = inj.runs /\ inj'.rescaler = inj.rescaler
        /\ inj'.pts = inj.pts
    BY <2>1, InjectorFields DEF Processed, Injector
  <2>3. ClockIsOutput' /\ InjectorOnTime'
    BY <1>1, <2>1, <2>2 DEF OnTime, ClockIsOutput, InjectorOnTime, clockVars
  <2> QED
    BY <1>1, <1>2, <2>2, <2>3, InjectorSteady
       DEF Inject, Querying, queueVars, OnTime, PointsKept
<1>3. CASE InjFail
  <2>1. inj'.pc = "start" /\ inj'.runs = inj.runs
    BY <1>3 DEF InjFail, InjectorAt
  <2>2. ClockIsOutput' /\ InjectorOnTime'
    BY <1>1, <2>1 DEF OnTime, ClockIsOutput, InjectorOnTime, clockVars
  <2> QED
    BY <1>1, <1>3, <2>1, <2>2, InjectorSteady
       DEF Inject, Querying, queueVars, OnTime, PointsKept
<1> QED
  BY <1>2, <1>3

\* The injector's runs are counted, never forgotten.
LEMMA RunsGrow ==
  ASSUME MixerInv, [Next]_vars, FirstRun'
  PROVE  FirstRun
<1>1. inj \in Injector /\ inj.runs \in Nat
  BY InjectorFields
<1>2. inj'.runs = inj.runs \/ inj'.runs = inj.runs + 1
  <2>1. CASE InjStart
    BY <2>1 DEF InjStart, InjectorAt
  <2>2. ASSUME NEW step \in PtsStep, InjTick(step) PROVE inj'.runs = inj.runs
    BY <1>1, <2>2 DEF InjTick, Injector
  <2>3. CASE InjAdjust \/ InjSelect
    BY <1>1, <2>3 DEF InjAdjust, InjSelect, Injector
  <2>4. CASE InjClear \/ InjLock \/ InjPopped
    BY <1>1, <2>4 DEF InjClear, InjLock, InjPopped, Injector
  <2>5. CASE InjEmit \/ InjLose
    <3>1. inj' = Processed
      BY <2>5 DEF InjEmit, InjLose
    <3> QED
      BY <1>1, <3>1 DEF Processed, Injector
  <2>6. CASE InjPop
    BY <2>6 DEF InjPop, outputVars
  <2>7. CASE Controller \/ (\E i \in UserInput : Extract(i)) \/ UNCHANGED vars
    BY <2>7 DEF Controller, SetCurrentInput, SetAdjustment, ScheduleRestart, Extract, ExtStart,
                ExtOpen, ExtPacket, ExtPush, ExtRemuxed, ExtFail, ExtDrop, ExtNow, ExtReset,
                vars, outputVars
  <2>8. CASE InjFail
    BY <2>8 DEF InjFail, InjectorAt
  <2> QED
    BY <2>1, <2>2, <2>3, <2>4, <2>5, <2>6, <2>7, <2>8 DEF Next, Inject
<1> QED
  BY <1>1, <1>2 DEF FirstRun

LEMMA NextSteady ==
  ASSUME Steady, MixerInv, SteadyInv, [Next]_vars
  PROVE  SteadyInv'
<1> SUFFICES ASSUME FirstRun' PROVE OnTime'
  BY DEF SteadyInv
<1>1. OnTime
  BY RunsGrow DEF SteadyInv
<1>2. CASE Controller \/ UNCHANGED vars
  BY <1>1, <1>2, OthersSteady
     DEF Controller, SetCurrentInput, SetAdjustment, ScheduleRestart, vars
<1>3. ASSUME NEW i \in UserInput, Extract(i) PROVE OnTime'
  BY <1>1, <1>3, ExtractSteady
<1>4. CASE Inject
  BY <1>1, <1>4, InjStartSteady, InjTickSteady, InjAdjustSteady, InjFoundSteady, InjPopSteady,
     InjPoppedSteady, InjDoneSteady DEF Inject
<1> QED
  BY <1>2, <1>3, <1>4 DEF Next

LEMMA SteadyInvariant ==
  ASSUME Steady
  PROVE  Spec => []SteadyInv
<1>1. MixerInv /\ SteadyInv /\ [Next]_vars => SteadyInv'
  BY NextSteady
<1> QED
  BY <1>1, InitSteady, MixerInvariant, PTL DEF Spec

\* "Metamix tries to put metadata exactly at the same point in time"
\* (README.md, line 219): it does until the injector is restarted, for every
\* time base, however often the extractors restart (SeiExtractor::process,
\* ClockTicker::process).
THEOREM CaptionsKeepTheirPoint ==
  ASSUME Steady
  PROVE  Spec => []SamePointAtFirst
<1>1. SteadyInv => SamePointAtFirst
  BY DEF SamePointAtFirst, SteadyInv, OnTime, PointsKept
<1> QED
  BY <1>1, SteadyInvariant, PTL

\* Until the injector is restarted no caption is written before its time,
\* whatever adjustments are made while packets are under way and however
\* long captions wait in the queue (SeiInjector::process, pop_all).
THEOREM CaptionsAreNeverEarly ==
  ASSUME Steady
  PROVE  Spec => [](FirstRun => NeverEarly)
<1>1. MixerInv /\ SteadyInv => (FirstRun => NeverEarly)
  <2> SUFFICES ASSUME MixerInv, OnTime, inj.pc = "emit",
                      NEW k \in DOMAIN found, found[k].kind = "caption"
               PROVE  found[k].due + inj.shift <= outTime
    BY DEF SteadyInv, NeverEarly
  <2>1. found[k].due <= inj.ts /\ inj.ts + inj.shift = outTime
    BY DEF OnTime, PointsKept, InjectorOnTime, Querying
  <2>2. found[k] \in Item /\ inj.ts \in Int /\ inj.shift \in Int
    BY InjectorFields
  <2>3. found[k].due \in Int
    BY <2>2 DEF Item
  <2> QED
    BY <2>1, <2>2, <2>3
<1> QED
  BY <1>1, SteadyInvariant, MixerInvariant, PTL
=============================================================================

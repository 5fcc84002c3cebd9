---------------------------- MODULE OrderlyQueue ----------------------------
(***************************************************************************)
(* MetadataQueue with a memory of its callers.  The queue does what its    *)
(* comments say for callers that push at most one item of an input per     *)
(* instant and drop no input (drop_id leaves a vector that is no heap).    *)
(* One disorderly call may spoil everything after it, until the queue is   *)
(* as at the beginning: then the damage is gone.                           *)
(***************************************************************************)
EXTENDS MetadataQueue

VARIABLE orderly    \* have the callers been orderly since the queue was last empty?

historyVars == << vars, orderly >>

OnePerInstant(x) == \A y \in Elements(q) : y.id # x.id \/ y.pts # x.pts

OrderlyNext ==
  \/ \E x \in Item : OnePerInstant(x) /\ Push(x)
  \/ \E id \in Input, since, until \in TS, all \in BOOLEAN : Lock(id, since, until, all)
  \/ PopLoop
  \/ Unlock

\* A call without effect, as drop_id of an input that has no items, is orderly too.
Remember == orderly' = ((orderly /\ [OrderlyNext]_vars) \/ Init')

HistoryInit == Init /\ orderly = TRUE

HistoryNext == Next /\ Remember

HistorySpec == HistoryInit /\ [][HistoryNext]_historyVars

-----------------------------------------------------------------------------
\* The vector is a heap while the callers are orderly, and again as soon as
\* it has been emptied (push_heap and pop_heap in metadata_queue.h; drop_id,
\* lines 119-126, breaks it).
HeapWhenOrderly == orderly => HeapOrdered

\* While the callers are orderly the queue behaves as its comments say (lines
\* 75-96): every step of the loops on the heap is a step of TimedQueue or
\* changes nothing there; and whatever happened before, it starts anew as an
\* empty TimedQueue.  FrontIsEarliest shows what drop_id does; of two items of
\* one input and instant the second is dropped, although the assertion in
\* pop_impl (line 157) takes everything that is dropped for another input's.
ImplementsTimedQueue ==
  /\ Promised!Init
  /\ [][ orderly' => IF orderly THEN [Promised!Next]_(Promised!vars)
                                ELSE Promised!Init' ]_historyVars
=============================================================================

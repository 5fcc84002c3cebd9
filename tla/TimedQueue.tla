----------------------------- MODULE TimedQueue -----------------------------
(***************************************************************************)
(* What the comments of MetadataQueue (src/metadata_queue.h, lines 75-96)  *)
(* promise to its callers: a set of timed items from which a query takes,  *)
(* in time order, the items of one input that lie in a time frame, while   *)
(* everything else up to the end of what was taken is dropped.  A query is *)
(* one step here; MetadataQueue.tla does it element by element.            *)
(***************************************************************************)
EXTENDS MetadataHeap

CONSTANTS
  Item,    \* the metadata items
  Input,   \* the input ids
  TS       \* the instants of the system clock

VARIABLES
  items,   \* the items waiting
  result,  \* what the present query found
  held     \* has a query found its result and not returned it yet?

vars == << items, result, held >>

Matching(id, since, until) ==
  { x \in items : x.id = id /\ since <= x.pts /\ x.pts < until }

Init ==
  /\ items = {}
  /\ result = << >>
  /\ held = FALSE

Push(x) ==
  /\ ~ held
  /\ items' = items \cup {x}
  /\ UNCHANGED << result, held >>

\* pop_all: everything of the frame that belongs to id; all else before
\* `until` is dropped.
PopAll(id, since, until) ==
  /\ ~ held
  /\ held' = TRUE
  /\ result' = InOrder(Matching(id, since, until))
  /\ items' = { x \in items : x.pts >= until }

\* pop: the earliest item of the frame that belongs to id; what is earlier,
\* or at the same instant, is dropped.  All before `until` goes if there is none.
Pop(id, since, until) ==
  LET found == InOrder(Matching(id, since, until))
  IN  /\ ~ held
      /\ held' = TRUE
      /\ IF found = << >>
         THEN /\ result' = << >>
              /\ items' = { x \in items : x.pts >= until }
         ELSE /\ result' = << found[1] >>
              /\ items' = { x \in items : x.pts > found[1].pts }

\* the caller takes the result
Return ==
  /\ held
  /\ held' = FALSE
  /\ result' = << >>
  /\ UNCHANGED items

DropId(id) ==
  /\ ~ held
  /\ items' = { x \in items : x.id # id }
  /\ UNCHANGED << result, held >>

Next ==
  \/ \E x \in Item : Push(x)
  \/ \E id \in Input, since, until \in TS :
       PopAll(id, since, until) \/ Pop(id, since, until)
  \/ Return
  \/ \E id \in Input : DropId(id)

Spec == Init /\ [][Next]_vars
=============================================================================

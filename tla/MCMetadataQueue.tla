--------------------------- MODULE MCMetadataQueue ---------------------------
(***************************************************************************)
(* OrderlyQueue for TLC.                                                   *)
(***************************************************************************)
EXTENDS OrderlyQueue

CONSTANTS
  MaxTS, MaxOrder,
  DisorderlyCapacity    \* bound: items in the queue after a disorderly call

MCTS == 0 .. MaxTS
MCItem == [ id : Input, pts : 0 .. MaxTS - 1, order : 0 .. MaxOrder ]

MCNext ==
  /\ HistoryNext
  /\ orderly' \/ Len(q') <= DisorderlyCapacity

MCSpec == HistoryInit /\ [][MCNext]_historyVars /\ Fairness

(***************************************************************************)
(* The callers of the program when no stream has B-frames: every input     *)
(* pushes at most one item per instant and in the order of time, and drops *)
(* its items whenever it restarts.                                         *)
(***************************************************************************)
InTime(x) == \A y \in Elements(q) : y.id = x.id => y.pts < x.pts

RestartingNext ==
  \/ \E x \in Item : InTime(x) /\ Push(x)
  \/ \E id \in Input : DropId(id)
  \/ \E id \in Input, since, until \in TS : Lock(id, since, until, TRUE)
  \/ PopLoop
  \/ Unlock

RestartingSpec == HistoryInit /\ [][RestartingNext /\ Remember]_historyVars
=============================================================================

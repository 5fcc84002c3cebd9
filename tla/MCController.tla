---------------------------- MODULE MCController ----------------------------
(***************************************************************************)
(* Controller for TLC.                                                     *)
(***************************************************************************)
EXTENDS Controller

MCUserInput == {1, 2}
MCNameOf == [ i \in 0 .. 2 |-> << "clear", "food", "bipbop" >>[i + 1] ]
MCIdLimit == 8

ByName(n) == [ name |-> n, id |-> Absent ]
ById(n) == [ name |-> Absent, id |-> n ]
NoRef == ById(Absent)

\* known and unknown names and ids, an id that is out of range and one that
\* is cut to a known one, wrong types, and a name that contradicts an id
MCRef ==
  { ByName(n) : n \in {"clear", "food", "nobody", Illtyped} }
    \cup { ById(n) : n \in {2, 5, MCIdLimit + 1, Illtyped} }
    \cup { [ name |-> "bipbop", id |-> 1 ] }

MCRequest ==
  { [ op |-> "select", all |-> ref, kinds |-> [ k \in Kind |-> Absent ] ] : ref \in MCRef }
    \cup { [ op |-> "select", all |-> NoRef, kinds |-> refs ] :
             refs \in [ Kind -> MCRef \cup {NoRef, Absent} ] }
    \cup { [ op |-> "restart", all |-> ref ] : ref \in MCRef \cup {NoRef} }
    \cup { [ op |-> "config", adjust |-> a ] : a \in {-1, 0, Absent, Illtyped} }
    \cup { [ op |-> "show" ] }
=============================================================================

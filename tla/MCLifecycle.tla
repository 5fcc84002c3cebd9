---------------------------- MODULE MCLifecycle ----------------------------
(***************************************************************************)
(* Startup and Lifecycle for TLC.                                          *)
(***************************************************************************)
EXTENDS Startup

CONSTANT MaxOptions        \* bound: options that vary on a command line

Set(value, key) == [ key |-> key, values |-> << value >> ]
Flag(key) == [ key |-> key, values |-> << >> ]

Food(p) == << "input", "food", p >>
Bip(p) == << "input", "bipbop", p >>

OutputGiven == << Set("o", << "output", "source" >>), Set("o", << "output", "sink" >>) >>
Load == Set("metamix.ini", << "config-file" >>)

\* Options of the command line: parameters of two inputs, one given twice, one
\* without its value, keys with too few and too many dots, names that are
\* reserved, empty or the star, and what is not about inputs.
Choice ==
  { Set("a", Food("source")), Set("b", Food("source")), Set("a", Food("sink")), Set("a", Bip("sink")),
    Flag(Food("sink")), Set("a", Food("url")), Set("a", << "input", "food" >>),
    Set("a", << "input", "", "sink" >>), Set("a", << "input", ClearName, "sink" >>),
    Set("a", << "input", "*", "sink" >>),
    Set("food", << "starting-input" >>), Set("nobody", << "starting-input" >>),
    Flag(<< "no-restart" >>), Flag(<< "help" >>), Flag(<< "version" >>),
    Set("red", << "colour" >>), Set("3446", << "http-port" >>), Load }

\* configuration files, one of them missing
Files ==
  { None, << >>,
    << Set("c", Bip("sink")), Set("bipbop", << "starting-input" >>), Set("c", Bip("source")),
       Set("c", Food("sinkformat")) >>,
    << Set("clear", << "starting-input" >>), Set("bipbop", << "starting-input" >>) >>,
    << Set("c", Food("source")), Set("", Food("sink")), Set("", << "no-restart" >>), Set("1", << "version" >>) >>,
    << Set("c", << "input", ClearName, "source" >>), Set("c", << "input", ClearName, "sink" >>) >> }

\* two inputs that are given one parameter at a time
Complete ==
  << Set("a", Bip("source")), Set("a", Food("sink")), Set("a", Bip("sink")), Set("a", Food("source")) >>

Short == UNION { [ 1 .. n -> Choice ] : n \in 0 .. MaxOptions }

MCStarts ==
  { << OutputGiven \o << Set("a", Food("sink")) >> \o options, f >> : options \in Short, f \in Files }
    \cup { << OutputGiven \o Complete \o options, << >> >> :
             options \in { << >>, << Flag(<< "no-restart" >>) >>,
                           << Set("bipbop", << "starting-input" >>) >> } }
    \cup { << OutputGiven \o Complete \o << Load, Set("food", << "starting-input" >>) >>, f >> : f \in Files }
    \cup { << Tail(OutputGiven) \o Complete, << >> >> }

(***************************************************************************)
(* The REST server is up before any stream has come to its end.            *)
(***************************************************************************)
Listening ==
  /\ StartupInit
  /\ [][StartupNext /\ (main' = "waiting" => ctl \notin {"start", "connected"})]_allVars
  /\ Fairness /\ WF_allVars(Main)
=============================================================================

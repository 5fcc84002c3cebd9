------------------------------ MODULE Startup ------------------------------
(***************************************************************************)
(* The whole life of the process: what main (src/main.cpp) makes of the    *)
(* command line and the configuration file, up to the threads it starts,   *)
(* and from there on Lifecycle.                                            *)
(*                                                                         *)
(* Everything before the threads is done by main alone; an exception ends  *)
(* the process.                                                            *)
(***************************************************************************)
EXTENDS Lifecycle, ProgramOptions

CONSTANTS
  Starts         \* what the process may be started with: a command line and
                 \* a configuration file, which may be missing

\* the empty string is there for the provers, which do not know it is one
ASSUME StartupAssumption ==
  /\ \A start \in Starts : start[1] \in Seq(Option) /\ start[2] \in Seq(Option) \cup {None}
  /\ None \notin STRING \cup {""}

Kinds == {"sei", "scte"}

VARIABLES
  stage,         \* where main is
  argv,          \* the options of the command line
  file,          \* the options of the configuration file
  vm,            \* variables_map of boost
  unrecognized,  \* the options boost does not know, not yet merged
  user_inputs,   \* ProgramOptions::user_inputs
  inputs,        \* InputManager::m_inputs
  current        \* InputManager::m_current_inputs_ids

given == << argv, file >>
parsed == << vm, unrecognized, user_inputs >>
managed == << inputs, current >>
startup == << stage, given, parsed, managed >>

StartupInit ==
  /\ norestart = FALSE /\ main = "starting" /\ ctl = "none"
  /\ th = [ p \in Primary |-> "none" ]
  /\ restart = [ i \in UserInput |-> FALSE ]
  /\ asked = [ i \in UserInput |-> FALSE ]
  /\ stage = "command line"
  /\ \E start \in Starts : argv = start[1] /\ file = start[2]
  /\ vm = << >> /\ unrecognized = << >> /\ user_inputs = << >>
  /\ inputs = << >> /\ current = [ k \in Kinds |-> 0 ]

\* the process ends, with EXIT_FAILURE or, when only help or the version was asked for, well
End(result) ==
  /\ main' = result
  /\ stage' = "end"
  /\ UNCHANGED << norestart, th, ctl, restart, asked, given, parsed, managed >>

Proceed(from, to) == stage = from /\ stage' = to /\ UNCHANGED << vars, given >>

-----------------------------------------------------------------------------
(***************************************************************************)
(* ProgramOptions::parse.                                                  *)
(***************************************************************************)
ReadCommandLine ==
  /\ Proceed("command line", "configuration file")
  /\ ~ StoreFails(vm, argv, CommandLineKeys)
  /\ { << "help" >>, << "version" >> } \cap KeysOf(argv) = {}
  /\ vm' = Store(vm, argv, CommandLineKeys)
  /\ unrecognized' = Unregistered(argv, CommandLineKeys)
  /\ UNCHANGED << user_inputs, managed >>

\* help or, without help, the version: either way nothing else is done
ShowHelp ==
  /\ stage = "command line"
  /\ ~ StoreFails(vm, argv, CommandLineKeys)
  /\ { << "help" >>, << "version" >> } \cap KeysOf(argv) # {}
  /\ End("done")

\* the second options_description does not have the generic options
ReadConfigurationFile ==
  /\ Proceed("configuration file", "merge")
  /\ IF << "config-file" >> \in DOMAIN vm
     THEN /\ file # None
          /\ ~ StoreFails(vm, file, ConfigKeys)
          /\ vm' = Store(vm, file, ConfigKeys)
          /\ unrecognized' = unrecognized \o Unregistered(file, ConfigKeys)
     ELSE UNCHANGED << vm, unrecognized >>
  /\ UNCHANGED << user_inputs, managed >>

MergeOption ==
  /\ Proceed("merge", "merge")
  /\ unrecognized # << >>
  /\ WellFormed(Head(unrecognized))
  /\ user_inputs' = Merge(user_inputs, Head(unrecognized))
  /\ unrecognized' = Tail(unrecognized)
  /\ UNCHANGED << vm, managed >>

Parsed ==
  /\ Proceed("merge", "validate")
  /\ unrecognized = << >>
  /\ UNCHANGED << parsed, managed >>

Throws ==
  /\ \/ stage = "command line" /\ StoreFails(vm, argv, CommandLineKeys)
     \/ /\ stage = "configuration file" /\ << "config-file" >> \in DOMAIN vm
        /\ file # None => StoreFails(vm, file, ConfigKeys)
     \/ stage = "merge" /\ unrecognized # << >> /\ ~ WellFormed(Head(unrecognized))
  /\ End("failed")

-----------------------------------------------------------------------------
(***************************************************************************)
(* What main does with the options.                                        *)
(***************************************************************************)
Validate ==
  /\ Proceed("validate", "inputs")
  /\ Valid(user_inputs, vm)
  /\ UNCHANGED << parsed, managed >>

ClearInput == [ InputSpec(0, ClearName) EXCEPT !.virtual = TRUE ]

\* the constructor of InputManager, which moves a vector into a map
InputManager(list) ==
  [ id \in { list[n].id : n \in DOMAIN list } |->
      list[CHOOSE n \in DOMAIN list :
             list[n].id = id /\ \A m \in DOMAIN list : list[m].id = id => m <= n] ]

\* mutant of CreateInputs: the inputs keep the ids of parse
CreateInputsAsParsed ==
  /\ Proceed("inputs", "select")
  /\ inputs' = InputManager(<< ClearInput >> \o user_inputs)
  /\ UNCHANGED << parsed, current >>

\* the clear input is the first; the user-defined ones get new ids
CreateInputs ==
  /\ Proceed("inputs", "select")
  /\ user_inputs' = [ n \in DOMAIN user_inputs |-> [ user_inputs[n] EXCEPT !.id = n ] ]
  /\ inputs' = InputManager(<< ClearInput >> \o user_inputs')
  /\ UNCHANGED << vm, unrecognized, current >>

\* InputManager::get_input_by_name, in the order of the map: the first id
Named(name) == { id \in DOMAIN inputs : inputs[id].name = name }
get_input_by_name(name) == CHOOSE id \in Named(name) : \A other \in Named(name) : id <= other

StartingInput == Variable(vm, << "starting-input" >>, None)

SelectInputs ==
  /\ Proceed("select", "threads")
  /\ StartingInput = None \/ Named(StartingInput) # {}
  /\ current' = IF StartingInput = None THEN current
                ELSE [ k \in Kinds |-> get_input_by_name(StartingInput) ]
  /\ UNCHANGED << parsed, inputs >>

Refuse ==
  /\ \/ stage = "validate" /\ ~ Valid(user_inputs, vm)
     \/ stage = "select" /\ StartingInput # None /\ Named(StartingInput) = {}
  /\ End("failed")

\* the controller, an extractor for every input, the injector
StartThreads ==
  /\ stage = "threads"
  /\ stage' = "end"
  /\ main' = "running"
  /\ norestart' = (<< "no-restart" >> \in DOMAIN vm)
  /\ ctl' = "start"
  /\ th' = [ p \in Primary |->
               IF p = Output \/ \E n \in DOMAIN user_inputs : user_inputs[n].name = p
               THEN "start" ELSE "none" ]
  /\ UNCHANGED << restart, asked, given, parsed, managed >>

Main ==
  \/ ReadCommandLine \/ ShowHelp \/ ReadConfigurationFile \/ MergeOption \/ Parsed \/ Throws
  \/ Validate \/ CreateInputs \/ SelectInputs \/ Refuse
  \/ StartThreads

StartupNext == Main \/ (Next /\ UNCHANGED startup)

allVars == << vars, startup >>

StartupSpec == StartupInit /\ [][StartupNext]_allVars /\ Fairness /\ WF_allVars(Main)

-----------------------------------------------------------------------------
(***************************************************************************)
(* Properties.                                                             *)
(***************************************************************************)
Options == argv \o (IF << "config-file" >> \in KeysOf(argv) THEN file ELSE << >>)

\* where an input, or a parameter of one, is mentioned
Mentions(name, p) ==
  { n \in DOMAIN Options : Options[n].key \notin ConfigKeys
                           /\ Options[n].key = << "input", name, p >> }

Mentioned(name) == UNION { Mentions(name, p) : p \in Param }

IsFirst(n, S) == n \in S /\ \A m \in S : n <= m

\* The options of an input are merged by its name, wherever they stand on the
\* command line and in the file (README.md, line 178): every input mentioned is
\* there once, in the order of first mention, and every one of its parameters is
\* the last value given for it, so that the file goes before the command line
\* (README.md, line 184).
InputsAsGiven ==
  stage \in {"validate", "inputs"} =>
    /\ \A name \in UserInput \cup {"", ClearName} :
         Mentioned(name) # {} <=> \E n \in DOMAIN user_inputs : user_inputs[n].name = name
    /\ \A n \in DOMAIN user_inputs : \A p \in Param :
         LET M == Mentions(user_inputs[n].name, p)
         IN  user_inputs[n].param[p] =
               IF M = {} THEN InputSpec(n, "").param[p]
               ELSE Options[CHOOSE last \in M : \A m \in M : m <= last].values[1]
    /\ \A m, n \in DOMAIN user_inputs :
         m < n => \E a \in Mentioned(user_inputs[m].name) :
                    \A b \in Mentioned(user_inputs[n].name) : a < b

\* Threads are started by name, requests and queues go by id: an extractor finds
\* its own input by its name, one that is not virtual and can be opened, ids are
\* those of the map, "after virtual inputs" (README.md, line 232), no two inputs
\* have one name, and the current inputs exist.  It is what Controller assumes.
ThreadsFindInputs ==
  main \notin {"starting", "failed", "done"} =>
    /\ DOMAIN inputs = 0 .. Len(user_inputs)
    /\ inputs[0] = ClearInput
    /\ \A id \in DOMAIN inputs : inputs[id].id = id /\ Named(inputs[id].name) = {id}
    /\ \A i \in UserInput :
         th[i] # "none" =>
           /\ Named(i) # {}
           /\ LET input == inputs[get_input_by_name(i)]
              IN  ~ input.virtual /\ input.param["source"] # "" /\ input.param["sink"] # ""
    /\ \A k \in Kinds : current[k] \in DOMAIN inputs

\* "Options from configuration file have higher priority than command line"
\* (README.md, line 184): once the threads run, an option that the file has is
\* the file's, whatever the command line says.
FileHasPriority ==
  main \notin {"starting", "failed", "done"} /\ << "config-file" >> \in DOMAIN vm =>
    \A key \in KeysOf(file) \cap ConfigKeys : vm[key] = ValueIn(file, key)
=============================================================================

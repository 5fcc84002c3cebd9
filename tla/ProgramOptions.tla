--------------------------- MODULE ProgramOptions ---------------------------
(***************************************************************************)
(* How the command line and the configuration file become inputs           *)
(* (src/program_options.cpp).                                              *)
(*                                                                         *)
(* An option is a record of its key, split at the dots, and its values.    *)
(* Boost.ProgramOptions knows a fixed set of keys and keeps their values   *)
(* in a variables_map; the options it does not know are handed through,    *)
(* and those of the inputs are among them.  Default values, which any      *)
(* source overrides, are not in the variables_map of the model; values of  *)
(* the wrong type, which end the process as other errors do, are left out. *)
(***************************************************************************)
EXTENDS Naturals, SequencesExt

CONSTANT None      \* std::nullopt

Param == {"source", "sink", "sourceformat", "sinkformat"}
ClearName == "clear"       \* ClearInput::NAME

\* The keys that may be in a configuration file.  The entries for "input.*"
\* are there for the help text: boost takes their star literally.
ConfigKeys ==
  { << "http-address" >>, << "http-port" >>, << "starting-input" >>,
    << "log" >>, << "log-thread" >>, << "no-restart" >> }
    \cup { << "output", p >> : p \in Param \cup {"ts_adjustment"} }
    \cup { << "input", "*", p >> : p \in Param }

CommandLineKeys == ConfigKeys \cup { << "config-file" >>, << "help" >>, << "version" >> }

Option == [ key : Seq(STRING), values : Seq(STRING) ]

-----------------------------------------------------------------------------
(***************************************************************************)
(* boost::program_options.  A key that an earlier source has set is not    *)
(* looked at again; one that a source sets twice is an error.              *)
(***************************************************************************)
KeysOf(options) == { options[n].key : n \in DOMAIN options }

StoreFails(vm, options, known) ==
  \E m, n \in DOMAIN options :
    m # n /\ options[m].key = options[n].key /\ options[m].key \in known \ DOMAIN vm

ValueIn(options, key) ==
  LET n == CHOOSE first \in DOMAIN options :
             options[first].key = key /\ \A m \in 1 .. first - 1 : options[m].key # key
  IN  IF options[n].values = << >> THEN "" ELSE options[n].values[1]

Store(vm, options, known) ==
  [ key \in DOMAIN vm \cup (KeysOf(options) \cap known) |->
      IF key \in DOMAIN vm THEN vm[key] ELSE ValueIn(options, key) ]

Unregistered(options, known) ==
  FlattenSeq([ n \in DOMAIN options |->
                 IF options[n].key \notin known THEN << options[n] >> ELSE << >> ])

Variable(vm, key, default) == IF key \in DOMAIN vm THEN vm[key] ELSE default

-----------------------------------------------------------------------------
(***************************************************************************)
(* InputSpec and the merging of the options that have the name of an input *)
(* in common.                                                              *)
(***************************************************************************)
InputSpec(id, name) ==
  [ id |-> id, name |-> name, virtual |-> FALSE,
    param |-> [ p \in Param |-> IF p \in {"source", "sink"} THEN "" ELSE None ] ]

\* mutant of get_input_spec_or_create: every option begins an input
CreateInputSpec(specs, name) == Append(specs, InputSpec(Len(specs), name))

get_input_spec_or_create(specs, name) ==
  IF \E n \in DOMAIN specs : specs[n].name = name
  THEN specs
  ELSE Append(specs, InputSpec(Len(specs), name))

IsInputOption(option) == Len(option.key) > 1 /\ option.key[1] = "input"

\* parse throws on an option of an input that is not one parameter with one
\* value
WellFormed(option) ==
  IsInputOption(option) =>
    Len(option.key) = 3 /\ Len(option.values) = 1 /\ option.key[3] \in Param

\* one round of the loop over the options that boost does not know
Merge(specs, option) ==
  IF ~ IsInputOption(option) THEN specs
  ELSE LET with == get_input_spec_or_create(specs, option.key[2])
           n == CHOOSE m \in DOMAIN with : with[m].name = option.key[2]
       IN  [ with EXCEPT ![n].param[option.key[3]] = option.values[1] ]

-----------------------------------------------------------------------------
\* mutant of Valid: the names of virtual inputs may be used
ValidUnreserved(specs, vm) ==
  /\ specs # << >>
  /\ \A n \in DOMAIN specs :
       specs[n].name # "" /\ specs[n].param["source"] # "" /\ specs[n].param["sink"] # ""
  /\ \A p \in {"source", "sink"} : Variable(vm, << "output", p >>, "") # ""

\* ProgramOptions::validate does not throw
Valid(specs, vm) ==
  /\ specs # << >>
  /\ \A n \in DOMAIN specs :
       /\ specs[n].name \notin {"", ClearName}
       /\ specs[n].param["source"] # "" /\ specs[n].param["sink"] # ""
  /\ \A p \in {"source", "sink"} : Variable(vm, << "output", p >>, "") # ""
=============================================================================

------------------------------- MODULE MCMixer -------------------------------
(***************************************************************************)
(* Mixer for TLC, in scenes.  A scene is a part of the world that moves    *)
(* while the rest keeps still: all that moves at once is more than TLC can *)
(* enumerate, and each hazard of the mixer needs only some of it.          *)
(***************************************************************************)
EXTENDS Mixer

CONSTANT Scenes     \* the scenes of a run

VARIABLE scene

MCShifts == {-1, 0, 1}
MCPtsStep == -3 .. 3
MCMinTS == -100

Scene ==
  [ \* switching between two inputs, with one run of each extractor
    switching |->
      [ inputs |-> {1, 2}, extractorRuns |-> 1, injectorRuns |-> 1,
        shifts |-> {0}, steps |-> {1}, clock |-> 3 ],

    \* the same, and an injector that restarts between two of them
    switchingRestarts |->
      [ inputs |-> {1, 2}, extractorRuns |-> 1, injectorRuns |-> 2,
        shifts |-> {0}, steps |-> {1}, clock |-> 2 ],

    \* one input that fails and is restarted
    inputRestarts |->
      [ inputs |-> {Clear, 1}, extractorRuns |-> 2, injectorRuns |-> 1,
        shifts |-> {0}, steps |-> {1}, clock |-> 3 ],

    \* the same, while the adjustment is changed
    adjusting |->
      [ inputs |-> {1}, extractorRuns |-> 2, injectorRuns |-> 1,
        shifts |-> {-1, 0, 1}, steps |-> {1}, clock |-> 3 ],

    \* one input, and an injector that restarts later, when the clock has moved
    outputRestarts |->
      [ inputs |-> {Clear, 1}, extractorRuns |-> 1, injectorRuns |-> 2,
        shifts |-> {0}, steps |-> {1}, clock |-> 4 ],

    \* an output source whose timestamps jump forwards and backwards
    outputJumps |->
      [ inputs |-> {Clear}, extractorRuns |-> 0, injectorRuns |-> 2,
        shifts |-> {0}, steps |-> -3 .. 3, clock |-> 8 ] ]

ASSUME ScenesAssumption == Scenes \subseteq DOMAIN Scene

MCInit ==
  /\ scene \in Scenes
  /\ Init
  /\ current \in Scene[scene].inputs
  /\ adjustment \in Scene[scene].shifts

\* every step of the mixer that stays in the scene
MCNext ==
  /\ Next
  /\ LET s == Scene[scene]
     IN  /\ current' \in s.inputs
         /\ adjustment' \in s.shifts
         /\ \A i \in UserInput :
              ext'[i].runs <= IF i \in s.inputs THEN s.extractorRuns ELSE 0
         /\ \A i \in UserInput : restart'[i] => s.extractorRuns > 1
         /\ inj'.runs <= s.injectorRuns
         /\ inj.pc = "idle" /\ inj'.pc = "ticked" => inj'.pts - inj.pts \in s.steps
         /\ clock' <= s.clock
  /\ UNCHANGED scene

MCSpec == MCInit /\ [][MCNext]_<<vars, scene>>
=============================================================================

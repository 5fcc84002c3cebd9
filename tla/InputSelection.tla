--------------------------- MODULE InputSelection ---------------------------
(***************************************************************************)
(* What the REST API promises (README.md, "REST API"): a request has its   *)
(* whole effect at one moment, or it is refused and has none; and a client *)
(* that asks for the current inputs is told what was set.  Controller.tla  *)
(* does it lookup by lookup and kind by kind.                              *)
(***************************************************************************)
CONSTANTS
  Input,        \* the inputs
  UserInput,    \* those with an extractor
  Kind,         \* the kinds of metadata
  Visible,      \* the kind whose current input the injector reads
  Request,      \* what a client may ask for
  Keep,         \* no change
  Refused,      \* the meaning of a request that makes no sense
  Meaning(_)    \* the effect a request asks for, or Refused

VARIABLES
  selected,     \* the current input of every kind
  adjustment,   \* the timestamp adjustment
  scheduled,    \* the inputs whose extractor is to restart
  seen,         \* the current input the injector has read last
  asked,        \* the request being served, or Keep
  answer        \* its outcome, or Keep as long as there is none

vars == << selected, adjustment, scheduled, seen, asked, answer >>

Init ==
  /\ \E i \in Input : selected = [ k \in Kind |-> i ] /\ seen = i
  /\ adjustment = 0
  /\ scheduled = {}
  /\ asked = Keep /\ answer = Keep

Ask(r) ==
  /\ asked = Keep
  /\ asked' = r
  /\ UNCHANGED << selected, adjustment, scheduled, seen, answer >>

New(old, wanted) == IF wanted = Keep THEN old ELSE wanted

Perform ==
  LET effect == Meaning(asked)
  IN  /\ asked # Keep /\ answer = Keep
      /\ IF effect = Refused
         THEN /\ answer' = [ ok |-> FALSE, shown |-> Keep ]
              /\ UNCHANGED << selected, adjustment, scheduled >>
         ELSE /\ answer' = [ ok |-> TRUE,
                             shown |-> IF effect.show THEN selected ELSE Keep ]
              /\ selected' = [ k \in Kind |-> New(selected[k], effect.select[k]) ]
              /\ adjustment' = New(adjustment, effect.adjust)
              /\ scheduled' = scheduled \cup (effect.restart \cap UserInput)
      /\ UNCHANGED << seen, asked >>

Answer ==
  /\ answer # Keep
  /\ asked' = Keep /\ answer' = Keep
  /\ UNCHANGED << selected, adjustment, scheduled, seen >>

See ==
  /\ seen' = selected[Visible]
  /\ UNCHANGED << selected, adjustment, scheduled, asked, answer >>

Begin(i) ==
  /\ scheduled' = scheduled \ {i}
  /\ UNCHANGED << selected, adjustment, seen, asked, answer >>

Next ==
  \/ \E r \in Request : Ask(r)
  \/ Perform \/ Answer \/ See
  \/ \E i \in UserInput : Begin(i)

Spec == Init /\ [][Next]_vars
=============================================================================

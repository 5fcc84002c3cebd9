----------------------------- MODULE Controller -----------------------------
(***************************************************************************)
(* The REST controller (src/proc/controller.cpp) and the input manager it  *)
(* works on (src/input_manager.h): how a request is resolved reference by  *)
(* reference, and how the current inputs are then exchanged kind by kind,  *)
(* each in an atomic of its own, while the injector reads one of them and  *)
(* extractors take their restart requests.                                 *)
(*                                                                         *)
(* A request is what its JSON says: which references it makes, to what,    *)
(* and whether they have the type the handler expects.  HTTP, parsing and  *)
(* GET requests other than /input/current change nothing and are left out. *)
(***************************************************************************)
EXTENDS Integers, Sequences, FiniteSetsExt

CONSTANTS
  UserInput,    \* the ids of the user-defined inputs
  NameOf,       \* the name of every input
  IdLimit,      \* ids are unsigned numbers below it, 2^32
  Request,      \* the requests of the clients
  Absent,       \* a member that the JSON does not have
  Illtyped      \* a member of the wrong type

Clear == 0
Input == {Clear} \cup UserInput

Kind == {"sei", "scte"}
KindOrder == << "sei", "scte" >>     \* MetadataKindPack

\* A reference to an input: its name, its id, both or neither.
IsRef(ref) == DOMAIN ref = {"name", "id"}

\* ProgramOptions::parse merges the options of one name into one input, and
\* validate refuses the name of the virtual input.
ASSUME ControllerAssumption ==
  /\ UserInput \subseteq 1 .. IdLimit - 1
  /\ IdLimit \in Nat
  /\ DOMAIN NameOf = Input
  /\ \A i, j \in Input : NameOf[i] = NameOf[j] => i = j
  /\ \A r \in Request :
       \/ r.op = "select" /\ IsRef(r.all)
          /\ \A k \in Kind : r.kinds[k] = Absent \/ IsRef(r.kinds[k])
       \/ r.op = "restart" /\ IsRef(r.all)
       \/ r.op = "config" /\ r.adjust \in Int \cup {Absent, Illtyped}
       \/ r.op = "show"

Response == [ ok : BOOLEAN, shown : [ Kind -> Input ] \cup {Absent} ]

Effect ==
  [ select : [ Kind -> Input \cup {Absent} ], adjust : Int \cup {Absent},
    restart : SUBSET Input, show : BOOLEAN ]

\* what marks an absence is no value, and no request
ASSUME MarkerAssumption ==
  /\ Absent # Illtyped
  /\ \A mark \in {Absent, Illtyped} : mark \notin Int \cup Request \cup Response \cup Effect

Keep == Absent      \* std::nullopt of a changeset
None == Absent      \* no request, no reply

VARIABLES
  current,      \* CurrentInputsIds
  adjustment,   \* ApplicationContext::m_ts_adjustment
  restart,      \* m_restart_scheduled of every user-defined input
  seen,         \* the id the injector has read last
  pc,           \* where the controller is
  request,      \* the request being served
  todo,         \* the kinds the present loop over all kinds still has to visit
  changeset,    \* InputsChangeset<InputId>
  reply         \* the response

shared == << current, adjustment, restart >>
local == << pc, request, todo, changeset, reply >>
vars == << shared, seen, local >>

NoChange == [ k \in Kind |-> Keep ]
Ok(shown) == [ ok |-> TRUE, shown |-> shown ]
Bad == [ ok |-> FALSE, shown |-> Keep ]

TypeOK ==
  /\ current \in [Kind -> Input]
  /\ adjustment \in Int
  /\ restart \in [UserInput -> BOOLEAN]
  /\ seen \in Input
  /\ pc \in {"idle", "resolve", "validate", "exchange", "restart", "config", "show", "reply"}
  /\ request \in Request \cup {None}
  /\ todo \in { KindOrder, Tail(KindOrder), << >> }
  /\ changeset \in [Kind -> Input \cup {Keep}]
  /\ reply \in Response \cup {None}

\* main selects the starting input, or the clear one, before any thread runs
Init ==
  /\ \E i \in Input : current = [ k \in Kind |-> i ] /\ seen = i
  /\ adjustment = 0
  /\ restart = [ i \in UserInput |-> FALSE ]
  /\ pc = "idle"
  /\ request = None
  /\ todo = << >>
  /\ changeset = NoChange
  /\ reply = None

-----------------------------------------------------------------------------
(***************************************************************************)
(* Lookups.                                                                *)
(***************************************************************************)

\* parse_input_ref and get_input_by_ref: the inputs a reference finds, none
\* or one.  A name goes before an id, and an id is cut to its width.
Found(ref) ==
  IF ref.name # Absent THEN { i \in Input : NameOf[i] = ref.name }
  ELSE IF ref.id \in {Absent, Illtyped} THEN {}
  ELSE { i \in Input : i = ref.id % IdLimit }

Given(ref) == ref.name # Absent \/ ref.id # Absent

\* what set_current_input looks up for kind k: the request itself, if that is
\* a reference, or its member for k, if there is one
RefFor(r, k) == IF Given(r.all) THEN r.all ELSE r.kinds[k]

-----------------------------------------------------------------------------
(***************************************************************************)
(* The controller.                                                         *)
(***************************************************************************)
Entry == [ select |-> "resolve", restart |-> "restart", config |-> "config", show |-> "show" ]

Receive(r) ==
  /\ pc = "idle"
  /\ pc' = Entry[r.op]
  /\ request' = r
  /\ todo' = KindOrder
  /\ UNCHANGED << shared, seen, changeset, reply >>

Respond(response) ==
  /\ pc' = "reply"
  /\ reply' = response
  /\ todo' = << >>
  /\ changeset' = NoChange
  /\ UNCHANGED request

\* mutant of Resolve: what has been found is set at once
ResolveAndSet ==
  /\ pc = "resolve"
  /\ todo # << >>
  /\ LET k == Head(todo)
         ref == RefFor(request, k)
     IN  IF ref # Absent /\ Found(ref) = {}
         THEN Respond(Bad) /\ UNCHANGED current
         ELSE /\ current' = [ current EXCEPT ![k] =
                                IF ref = Absent THEN @ ELSE CHOOSE i \in Found(ref) : TRUE ]
              /\ todo' = Tail(todo)
              /\ UNCHANGED << pc, request, changeset, reply >>
  /\ UNCHANGED << adjustment, restart, seen >>

\* one kind of set_current_input's loop; an unknown input ends the request
Resolve ==
  /\ pc = "resolve"
  /\ todo # << >>
  /\ LET k == Head(todo)
         ref == RefFor(request, k)
     IN  IF ref # Absent /\ Found(ref) = {}
         THEN Respond(Bad)
         ELSE /\ changeset' = [ changeset EXCEPT ![k] =
                                  IF ref = Absent THEN Keep ELSE CHOOSE i \in Found(ref) : TRUE ]
              /\ todo' = Tail(todo)
              /\ UNCHANGED << pc, request, reply >>
  /\ UNCHANGED << shared, seen >>

Resolved ==
  /\ pc = "resolve"
  /\ todo = << >>
  /\ pc' = "validate"
  /\ UNCHANGED << shared, seen, request, todo, changeset, reply >>

\* InputManager::set_current_inputs, first loop
Validate ==
  /\ pc = "validate"
  /\ IF \E k \in Kind : changeset[k] \notin Input \cup {Keep}
     THEN Respond(Bad)
     ELSE pc' = "exchange" /\ todo' = KindOrder /\ UNCHANGED << request, changeset, reply >>
  /\ UNCHANGED << shared, seen >>

\* its second loop, an atomic exchange for every kind that changes
Exchange ==
  /\ pc = "exchange"
  /\ todo # << >>
  /\ current' = [ current EXCEPT ![Head(todo)] =
                    IF changeset[Head(todo)] = Keep THEN @ ELSE changeset[Head(todo)] ]
  /\ todo' = Tail(todo)
  /\ UNCHANGED << adjustment, restart, seen, pc, request, changeset, reply >>

Exchanged ==
  /\ pc = "exchange"
  /\ todo = << >>
  /\ Respond(Ok(Keep))
  /\ UNCHANGED << shared, seen >>

\* mutant of RestartInput: virtual inputs are scheduled as well
RestartVirtual ==
  /\ pc = "restart"
  /\ restart' = [ i \in DOMAIN restart \cup Found(request.all) |->
                    i \in Found(request.all) \/ restart[i] ]
  /\ Respond(IF Found(request.all) = {} THEN Bad ELSE Ok(Keep))
  /\ UNCHANGED << current, adjustment, seen >>

\* restart_input; schedule_restart of a virtual input does nothing
RestartInput ==
  /\ pc = "restart"
  /\ restart' = [ i \in UserInput |-> i \in Found(request.all) \/ restart[i] ]
  /\ Respond(IF Found(request.all) = {} THEN Bad ELSE Ok(Keep))
  /\ UNCHANGED << current, adjustment, seen >>

\* set_config
SetConfig ==
  /\ pc = "config"
  /\ adjustment' = IF request.adjust \in {Absent, Illtyped} THEN adjustment ELSE request.adjust
  /\ Respond(IF request.adjust = Illtyped THEN Bad ELSE Ok(Keep))
  /\ UNCHANGED << current, restart, seen >>

\* get_current_input, one kind after the other; changeset holds the ids read
Show ==
  /\ pc = "show"
  /\ todo # << >>
  /\ changeset' = [ changeset EXCEPT ![Head(todo)] = current[Head(todo)] ]
  /\ todo' = Tail(todo)
  /\ UNCHANGED << shared, seen, pc, request, reply >>

Shown ==
  /\ pc = "show"
  /\ todo = << >>
  /\ Respond(Ok(changeset))
  /\ UNCHANGED << shared, seen >>

\* the response is written; the session goes on with the next request
Reply ==
  /\ pc = "reply"
  /\ pc' = "idle"
  /\ request' = None
  /\ reply' = None
  /\ UNCHANGED << shared, seen, todo, changeset >>

Serve ==
  \/ \E r \in Request : Receive(r)
  \/ Resolve \/ Resolved \/ Validate \/ Exchange \/ Exchanged
  \/ RestartInput \/ SetConfig \/ Show \/ Shown
  \/ Reply

-----------------------------------------------------------------------------
(***************************************************************************)
(* The threads it shares the input manager with.                           *)
(***************************************************************************)

\* SeiInjector::process: get_current_input_id<SeiKind>
InjectorReads ==
  /\ seen' = current["sei"]
  /\ UNCHANGED << shared, local >>

\* a run of the extractor of input i begins
ExtractorBegins(i) ==
  /\ restart' = [ restart EXCEPT ![i] = FALSE ]
  /\ UNCHANGED << current, adjustment, seen, local >>

Next ==
  \/ Serve
  \/ InjectorReads
  \/ \E i \in UserInput : ExtractorBegins(i)

Spec == Init /\ [][Next]_vars

-----------------------------------------------------------------------------
(***************************************************************************)
(* The promise.  A request for the current inputs takes effect with its    *)
(* first exchange: the second one changes a kind no other thread reads.    *)
(***************************************************************************)
Refused == Illtyped

\* what a request asks for: all of its references must find an input
Meaning(r) ==
  LET effect == [ select |-> NoChange, adjust |-> Keep, restart |-> {}, show |-> r.op = "show" ]
      named == { k \in Kind : r.op = "select" /\ RefFor(r, k) # Absent }
  IN  CASE r.op = "select" ->
             IF \E k \in named : Found(RefFor(r, k)) = {} THEN Refused
             ELSE [ effect EXCEPT !.select =
                      [ k \in Kind |-> IF k \in named THEN Max(Found(RefFor(r, k))) ELSE Keep ] ]
        [] r.op = "restart" ->
             IF Found(r.all) = {} THEN Refused ELSE [ effect EXCEPT !.restart = Found(r.all) ]
        [] r.op = "config" ->
             IF r.adjust = Illtyped THEN Refused ELSE [ effect EXCEPT !.adjust = r.adjust ]
        [] OTHER -> effect

Committed == pc = "exchange" /\ todo # KindOrder

Selection == INSTANCE InputSelection WITH
  Visible <- "sei",
  selected <- [ k \in Kind |->
                  IF Committed /\ changeset[k] # Keep THEN changeset[k] ELSE current[k] ],
  scheduled <- { i \in UserInput : restart[i] },
  asked <- request,
  answer <- IF Committed THEN Ok(Keep) ELSE reply

\* "Current input for multiple kinds may be changed in single transaction"
\* (README.md, line 364), and a request that is refused changes nothing:
\* whatever the injector and the extractors do between the lookups and the
\* exchanges, every request has its whole effect at one moment or none.
ImplementsSelection == Selection!Spec
=============================================================================

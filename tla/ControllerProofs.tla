-------------------------- MODULE ControllerProofs --------------------------
(***************************************************************************)
(* Theorems about Controller, for any inputs, any requests and every       *)
(* interleaving with the injector and the extractors: it is well-typed,    *)
(* and it implements InputSelection.                                       *)
(***************************************************************************)
EXTENDS Controller, TLAPS

-----------------------------------------------------------------------------
(***************************************************************************)
(* Lookups.                                                                *)
(***************************************************************************)

\* A reference finds one input at most: names are unique (get_input_by_ref).
LEMMA FoundOne == \A ref : Found(ref) = {} \/ \E i \in Input : Found(ref) = {i}
<1> SUFFICES ASSUME NEW ref, NEW i \in Found(ref) PROVE \E j \in Input : Found(ref) = {j}
  OBVIOUS
<1>1. i \in Input /\ \A j \in Found(ref) : j = i
  BY ControllerAssumption DEF Found
<1> QED
  BY <1>1

LEMMA InputIsInt == Input \subseteq Int
BY ControllerAssumption DEF Input, Clear

LEMMA MaxOfOne == \A i \in Int : Max({i}) = i
BY DEF Max

\* The stages of a loop over all kinds.
LEMMA Loop ==
  /\ KindOrder = << "sei", "scte" >> /\ Tail(KindOrder) = << "scte" >>
  /\ Tail(Tail(KindOrder)) = << >>
  /\ Head(KindOrder) = "sei" /\ Head(Tail(KindOrder)) = "scte"
  /\ KindOrder # << >> /\ Tail(KindOrder) # << >> /\ Tail(KindOrder) # KindOrder
  /\ DOMAIN KindOrder = {1, 2} /\ DOMAIN Tail(KindOrder) = {1}
BY DEF KindOrder

\* the kinds the present loop has been at
Visited == Kind \ { todo[n] : n \in DOMAIN todo }

LEMMA VisitedOf ==
  /\ todo = KindOrder => Visited = {}
  /\ todo = Tail(KindOrder) => Visited = {"sei"}
  /\ todo = << >> => Visited = Kind
BY Loop DEF Visited, Kind

-----------------------------------------------------------------------------
(***************************************************************************)
(* The inductive invariant.  A changeset is what the request's references  *)
(* have found, and a loop over the kinds is right about the kinds it has   *)
(* been at, because no other thread changes the current inputs.            *)
(***************************************************************************)
LookedUp(k) ==
  IF RefFor(request, k) = Absent THEN changeset[k] = Keep
                                 ELSE Found(RefFor(request, k)) = {changeset[k]}

ControlInv ==
  /\ TypeOK
  /\ request = None <=> pc = "idle"
  /\ reply = None <=> pc # "reply"
  /\ pc \in {"resolve", "validate", "exchange"} => request.op = "select"
  /\ pc \in {"restart", "config", "show"} => request.op = pc
  /\ pc = "resolve" => \A k \in Visited : LookedUp(k)
  /\ pc \in {"validate", "exchange"} => \A k \in Kind : LookedUp(k)
  /\ pc = "exchange" =>
       \A k \in Visited : changeset[k] # Keep => current[k] = changeset[k]
  /\ pc = "show" => \A k \in Visited : changeset[k] = current[k]

LEMMA InitControl == Init => ControlInv
<1> SUFFICES ASSUME Init PROVE ControlInv
  OBVIOUS
<1>1. PICK i \in Input : current = [ k \in Kind |-> i ] /\ seen = i
  BY DEF Init
<1>2. TypeOK
  BY <1>1 DEF Init, TypeOK, NoChange, Keep, None
<1> QED
  BY <1>2 DEF Init, ControlInv

LEMMA ReceiveControl ==
  ASSUME ControlInv, NEW r \in Request, Receive(r)
  PROVE  ControlInv'
<1>1. pc' = Entry[r.op] /\ request' = r /\ todo' = KindOrder /\ pc = "idle"
      /\ UNCHANGED << shared, seen, changeset, reply >>
  BY DEF Receive
<1>2. r.op \in {"select", "restart", "config", "show"}
  BY ControllerAssumption
<1>3. \/ r.op = "select" /\ pc' = "resolve"
      \/ r.op # "select" /\ pc' = r.op
  BY <1>1, <1>2 DEF Entry
<1>4. Visited' = {}
  BY <1>1, Loop DEF Visited, Kind
<1>5. r # None
  BY MarkerAssumption DEF None
<1>6. TypeOK'
  BY <1>1, <1>2, <1>3 DEF ControlInv, TypeOK, shared
<1> QED
  BY <1>1, <1>2, <1>3, <1>4, <1>5, <1>6 DEF ControlInv

\* The end of a request.
LEMMA RespondControl ==
  ASSUME ControlInv, NEW response \in Response, Respond(response), request # None,
         current' \in [ Kind -> Input ], adjustment' \in Int, restart' \in [ UserInput -> BOOLEAN ],
         seen' = seen
  PROVE  ControlInv'
<1>1. pc' = "reply" /\ reply' = response /\ todo' = << >> /\ changeset' = NoChange
      /\ request' = request
  BY DEF Respond
<1>2. response # None
  BY MarkerAssumption DEF None
<1>3. TypeOK'
  BY <1>1 DEF ControlInv, TypeOK, NoChange, Keep
<1> QED
  BY <1>1, <1>2, <1>3 DEF ControlInv

LEMMA Responses ==
  /\ Bad \in Response /\ Ok(Keep) \in Response
  /\ \A shown \in [ Kind -> Input ] : Ok(shown) \in Response
BY DEF Bad, Ok, Keep, Response

\* One kind of set_current_input's loop.
LEMMA ResolveControl == ControlInv /\ Resolve => ControlInv'
<1> SUFFICES ASSUME ControlInv, Resolve PROVE ControlInv'
  OBVIOUS
<1>0. PICK k : k = Head(todo)
  OBVIOUS
<1> DEFINE ref == RefFor(request, k)
<1>1. pc = "resolve" /\ todo # << >> /\ UNCHANGED << shared, seen >> /\ TypeOK /\ request # None
  BY DEF Resolve, ControlInv
<1>2. CASE ref # Absent /\ Found(ref) = {}
  <2>1. Respond(Bad)
    BY <1>0, <1>2 DEF Resolve
  <2> QED
    BY <1>1, <2>1, RespondControl, Responses DEF TypeOK, shared
<1>3. CASE ~ (ref # Absent /\ Found(ref) = {})
  <2> DEFINE found == IF ref = Absent THEN Keep ELSE CHOOSE i \in Found(ref) : TRUE
  <2>1. changeset' = [ changeset EXCEPT ![k] = found ] /\ todo' = Tail(todo)
        /\ UNCHANGED << pc, request, reply >>
    BY <1>0, <1>3 DEF Resolve
  <2>2. \/ ref = Absent /\ found = Keep
        \/ ref # Absent /\ Found(ref) = {found} /\ found \in Input
    BY <1>3, FoundOne
  <2> HIDE DEF found
  <2>3. \/ k = "sei" /\ todo = KindOrder /\ todo' = Tail(KindOrder)
        \/ k = "scte" /\ todo = Tail(KindOrder) /\ todo' = << >>
    BY <1>0, <1>1, <2>1, Loop DEF TypeOK
  <2>4. changeset \in [ Kind -> Input \cup {Keep} ] /\ k \in Kind
    BY <1>1, <2>3 DEF TypeOK, Kind
  <2>5. changeset' \in [ Kind -> Input \cup {Keep} ] /\ changeset'[k] = found
        /\ \A j \in Kind \ {k} : changeset'[j] = changeset[j]
    BY <2>1, <2>2, <2>4
  <2>6. TypeOK'
    BY <1>1, <2>1, <2>3, <2>5 DEF TypeOK, shared
  <2>7. LookedUp(k)'
    BY <2>1, <2>2, <2>5 DEF LookedUp
  <2>8. \A j \in Visited' : j = k \/ (j \in Visited /\ j # k)
    BY <2>3, VisitedOf, Loop DEF Visited, Kind
  <2>9. \A j \in Visited' : LookedUp(j)'
    <3>1. ASSUME NEW j \in Visited', j # k PROVE LookedUp(j)'
      <4>1. j \in Visited /\ j \in Kind /\ LookedUp(j)
        BY <1>1, <2>8, <3>1 DEF ControlInv, Visited
      <4>2. changeset'[j] = changeset[j]
        BY <2>5, <3>1, <4>1
      <4> QED
        BY <2>1, <4>1, <4>2 DEF LookedUp
    <3> QED
      BY <2>7, <3>1
  <2> QED
    BY <1>1, <2>1, <2>6, <2>9 DEF ControlInv
<1> QED
  BY <1>2, <1>3

\* What has been looked up for every kind is still right after a step that
\* leaves the request and the changeset alone.
LEMMA LookupsStay ==
  ASSUME UNCHANGED << request, changeset >>, NEW K, \A k \in K : LookedUp(k)
  PROVE  \A k \in K : LookedUp(k)'
BY DEF LookedUp

LEMMA ValidateControl == ControlInv /\ (Resolved \/ Validate) => ControlInv'
<1> SUFFICES ASSUME ControlInv, Resolved \/ Validate PROVE ControlInv'
  OBVIOUS
<1>1. TypeOK
  BY DEF ControlInv
<1>2. CASE Resolved
  <2>1. \A k \in Kind : LookedUp(k)
    BY <1>2, VisitedOf DEF Resolved, ControlInv
  <2>2. \A k \in Kind : LookedUp(k)'
    BY <1>2, <2>1, LookupsStay DEF Resolved
  <2>3. TypeOK'
    BY <1>1, <1>2 DEF Resolved, TypeOK, shared
  <2> QED
    BY <1>2, <2>2, <2>3 DEF Resolved, ControlInv
<1>3. CASE Validate
  <2>1. \A k \in Kind : changeset[k] \in Input \cup {Keep}
    BY <1>1 DEF TypeOK
  <2>2. pc = "validate" /\ pc' = "exchange" /\ todo' = KindOrder
        /\ UNCHANGED << shared, seen, request, changeset, reply >>
    BY <1>3, <2>1 DEF Validate
  <2>3. \A k \in Kind : LookedUp(k)'
    <3>1. \A k \in Kind : LookedUp(k)
      BY <2>2 DEF ControlInv
    <3> QED
      BY <2>2, <3>1, LookupsStay
  <2>4. Visited' = {}
    BY <2>2, Loop DEF Visited, Kind
  <2>5. TypeOK'
    BY <1>1, <2>2 DEF TypeOK, shared
  <2> QED
    BY <2>2, <2>3, <2>4, <2>5 DEF ControlInv
<1> QED
  BY <1>2, <1>3

\* InputManager::set_current_inputs, one kind.
LEMMA ExchangeControl == ControlInv /\ Exchange => ControlInv'
<1> SUFFICES ASSUME ControlInv, Exchange PROVE ControlInv'
  OBVIOUS
<1> DEFINE k == Head(todo)
           new == IF changeset[k] = Keep THEN current[k] ELSE changeset[k]
<1>1. pc = "exchange" /\ todo # << >> /\ todo' = Tail(todo)
      /\ current' = [ current EXCEPT ![k] = new ]
      /\ UNCHANGED << adjustment, restart, seen, pc, request, changeset, reply >> /\ TypeOK
  BY DEF Exchange, ControlInv
<1>2. \/ k = "sei" /\ todo = KindOrder /\ todo' = Tail(KindOrder)
      \/ k = "scte" /\ todo = Tail(KindOrder) /\ todo' = << >>
  BY <1>1, Loop DEF TypeOK
<1>3. k \in Kind /\ current \in [ Kind -> Input ] /\ changeset \in [ Kind -> Input \cup {Keep} ]
  BY <1>1, <1>2 DEF TypeOK, Kind
<1>4. new \in Input /\ (changeset[k] # Keep => new = changeset[k])
  BY <1>3
<1>5. \A j \in Visited' : j = k \/ (j \in Visited /\ j # k)
  BY <1>2, VisitedOf, Loop DEF Visited, Kind
<1> HIDE DEF k, new
<1>6. current' \in [ Kind -> Input ] /\ current'[k] = new
      /\ \A j \in Kind \ {k} : current'[j] = current[j]
  BY <1>1, <1>3, <1>4
<1>7. TypeOK'
  BY <1>1, <1>2, <1>6 DEF TypeOK
<1>8. \A j \in Kind : LookedUp(j)'
  <2>1. \A j \in Kind : LookedUp(j)
    BY <1>1 DEF ControlInv
  <2> QED
    BY <1>1, <2>1, LookupsStay
<1>9. \A j \in Visited' : changeset'[j] # Keep => current'[j] = changeset'[j]
  <2>1. \A j \in Visited : j \in Kind /\ (changeset[j] # Keep => current[j] = changeset[j])
    BY <1>1 DEF ControlInv, Visited
  <2> QED
    BY <1>1, <1>4, <1>5, <1>6, <2>1
<1> QED
  BY <1>1, <1>7, <1>8, <1>9 DEF ControlInv

\* get_current_input, one kind.
LEMMA ShowControl == ControlInv /\ Show => ControlInv'
<1> SUFFICES ASSUME ControlInv, Show PROVE ControlInv'
  OBVIOUS
<1> DEFINE k == Head(todo)
<1>1. pc = "show" /\ todo # << >> /\ todo' = Tail(todo)
      /\ changeset' = [ changeset EXCEPT ![k] = current[k] ]
      /\ UNCHANGED << shared, seen, pc, request, reply >> /\ TypeOK
  BY DEF Show, ControlInv
<1>2. \/ k = "sei" /\ todo = KindOrder /\ todo' = Tail(KindOrder)
      \/ k = "scte" /\ todo = Tail(KindOrder) /\ todo' = << >>
  BY <1>1, Loop DEF TypeOK
<1>3. k \in Kind /\ current \in [ Kind -> Input ] /\ changeset \in [ Kind -> Input \cup {Keep} ]
  BY <1>1, <1>2 DEF TypeOK, Kind
<1>4. \A j \in Visited' : j = k \/ (j \in Visited /\ j # k)
  BY <1>2, VisitedOf, Loop DEF Visited, Kind
<1> HIDE DEF k
<1>5. changeset' \in [ Kind -> Input \cup {Keep} ] /\ changeset'[k] = current[k]
      /\ \A j \in Kind \ {k} : changeset'[j] = changeset[j]
  BY <1>1, <1>3
<1>6. TypeOK'
  BY <1>1, <1>2, <1>5 DEF TypeOK, shared
<1>7. \A j \in Visited' : changeset'[j] = current'[j]
  <2>1. \A j \in Visited : j \in Kind /\ changeset[j] = current[j]
    BY <1>1 DEF ControlInv, Visited
  <2> QED
    BY <1>1, <1>4, <1>5, <2>1 DEF shared
<1> QED
  BY <1>1, <1>6, <1>7 DEF ControlInv

LEMMA OutcomeControl ==
  ASSUME ControlInv, Exchanged \/ RestartInput \/ SetConfig \/ Shown
  PROVE  ControlInv'
<1>1. TypeOK /\ request # None
  BY DEF ControlInv, Exchanged, RestartInput, SetConfig, Shown
<1>2. CASE Exchanged
  BY <1>1, <1>2, RespondControl, Responses DEF Exchanged, TypeOK, shared
<1>3. CASE RestartInput
  <2>1. restart' \in [ UserInput -> BOOLEAN ] /\ UNCHANGED << current, adjustment, seen >>
    BY <1>1, <1>3 DEF RestartInput, TypeOK
  <2>2. Respond(Bad) \/ Respond(Ok(Keep))
    BY <1>3 DEF RestartInput
  <2> QED
    BY <1>1, <2>1, <2>2, RespondControl, Responses DEF TypeOK
<1>4. CASE SetConfig
  <2>1. request \in Request /\ request.op = "config"
    BY <1>1, <1>4 DEF SetConfig, ControlInv, TypeOK
  <2>2. request.adjust \in Int \cup {Absent, Illtyped}
    BY <2>1, ControllerAssumption
  <2>3. adjustment' \in Int /\ UNCHANGED << current, restart, seen >>
    BY <1>1, <1>4, <2>2 DEF SetConfig, TypeOK
  <2>4. Respond(Bad) \/ Respond(Ok(Keep))
    BY <1>4 DEF SetConfig
  <2> QED
    BY <1>1, <2>3, <2>4, RespondControl, Responses DEF TypeOK
<1>5. CASE Shown
  <2>1. changeset = current
    <3>1. \A k \in Kind : changeset[k] = current[k]
      BY <1>5, VisitedOf DEF Shown, ControlInv
    <3> QED
      BY <1>1, <3>1 DEF TypeOK
  <2> QED
    BY <1>1, <1>5, <2>1, RespondControl, Responses DEF Shown, TypeOK, shared
<1> QED
  BY <1>2, <1>3, <1>4, <1>5

LEMMA ReplyControl == ControlInv /\ Reply => ControlInv'
<1> SUFFICES ASSUME ControlInv, Reply PROVE ControlInv'
  OBVIOUS
<1>1. TypeOK'
  BY DEF ControlInv, Reply, TypeOK, shared
<1> QED
  BY <1>1 DEF ControlInv, Reply

\* The injector and the extractors do not touch what a request depends on.
LEMMA ThreadsControl ==
  ASSUME ControlInv, UNCHANGED << current, adjustment, local >>, seen' \in Input,
         restart' \in [ UserInput -> BOOLEAN ]
  PROVE  ControlInv'
<1>1. TypeOK'
  BY DEF ControlInv, TypeOK, local
<1> QED
  BY <1>1 DEF ControlInv, LookedUp, Visited, local

LEMMA NextControl == ControlInv /\ [Next]_vars => ControlInv'
<1> SUFFICES ASSUME ControlInv, [Next]_vars PROVE ControlInv'
  OBVIOUS
<1>1. TypeOK
  BY DEF ControlInv
<1>2. CASE Serve
  BY <1>2, ReceiveControl, ResolveControl, ValidateControl, ExchangeControl, ShowControl,
     OutcomeControl, ReplyControl DEF Serve
<1>3. CASE InjectorReads
  <2>1. current["sei"] \in Input
    BY <1>1 DEF TypeOK, Kind
  <2> QED
    BY <1>1, <1>3, <2>1, ThreadsControl DEF InjectorReads, TypeOK, shared
<1>4. ASSUME NEW i \in UserInput, ExtractorBegins(i) PROVE ControlInv'
  BY <1>1, <1>4, ThreadsControl DEF ExtractorBegins, TypeOK
<1>5. CASE UNCHANGED vars
  BY <1>1, <1>5, ThreadsControl DEF vars, shared, TypeOK
<1> QED
  BY <1>2, <1>3, <1>4, <1>5 DEF Next

LEMMA ControlInvariant == Spec => []ControlInv
BY InitControl, NextControl, PTL DEF Spec

\* Whatever clients ask for, current inputs, adjustment and restart requests
\* stay what other threads expect them to be (set_current_input, set_config).
THEOREM ControllerTypeCorrect == Spec => []TypeOK
<1>1. ControlInv => TypeOK
  BY DEF ControlInv
<1> QED
  BY <1>1, ControlInvariant, PTL

-----------------------------------------------------------------------------
(***************************************************************************)
(* The refinement.  A request for the current inputs is performed by its   *)
(* first exchange, every other one by its response.                        *)
(***************************************************************************)
Selected ==
  [ k \in Kind |-> IF Committed /\ changeset[k] # Keep THEN changeset[k] ELSE current[k] ]

Scheduled == { i \in UserInput : restart[i] }

Answered == IF Committed THEN Ok(Keep) ELSE reply

\* A request for current inputs one of which does not exist.
LEMMA MeaningRefused ==
  ASSUME NEW r, r.op = "select",
         \E k \in Kind : RefFor(r, k) # Absent /\ Found(RefFor(r, k)) = {}
  PROVE  Meaning(r) = Refused
BY DEF Meaning

\* A request for current inputs that all exist asks for the changeset.
LEMMA MeaningOfSelect ==
  ASSUME NEW r, r.op = "select", NEW change \in [ Kind -> Input \cup {Keep} ],
         \A k \in Kind : IF RefFor(r, k) = Absent THEN change[k] = Keep
                                                  ELSE Found(RefFor(r, k)) = {change[k]}
  PROVE  Meaning(r) = [ select |-> change, adjust |-> Keep, restart |-> {}, show |-> FALSE ]
<1> DEFINE named == { k \in Kind : RefFor(r, k) # Absent }
           effect == [ select |-> NoChange, adjust |-> Keep, restart |-> {}, show |-> FALSE ]
           chosen == [ k \in Kind |-> IF k \in named THEN Max(Found(RefFor(r, k))) ELSE Keep ]
<1>1. \A k \in named : Found(RefFor(r, k)) # {}
  OBVIOUS
<1>2. Meaning(r) = [ effect EXCEPT !.select = chosen ]
  BY <1>1 DEF Meaning
<1>3. \A k \in Kind : chosen[k] = change[k]
  <2> SUFFICES ASSUME NEW k \in Kind PROVE chosen[k] = change[k]
    OBVIOUS
  <2>1. CASE RefFor(r, k) = Absent
    BY <2>1
  <2>2. CASE RefFor(r, k) # Absent
    <3>1. Found(RefFor(r, k)) = {change[k]}
      BY <2>2
    <3>2. change[k] \in Int
      BY <3>1, InputIsInt DEF Found
    <3>3. Max({change[k]}) = change[k]
      BY <3>2, MaxOfOne
    <3> QED
      BY <2>2, <3>1, <3>3
  <2> QED
    BY <2>1, <2>2
<1>4. chosen = change
  BY <1>3
<1> HIDE DEF chosen
<1> QED
  BY <1>2, <1>4

\* A request that is refused.
LEMMA RefuseIs ==
  ASSUME request # None, Answered = None, Meaning(request) = Refused,
         Answered' = Bad, Selected' = Selected, Scheduled' = Scheduled,
         UNCHANGED << adjustment, seen, request >>
  PROVE  Selection!Perform
BY DEF Selection!Perform, Selected, Scheduled, Answered, None, Keep, Bad

\* A request that is performed.
LEMMA PerformIs ==
  ASSUME request # None, Answered = None, NEW effect \in Effect, Meaning(request) = effect,
         Answered' = Ok(IF effect.show THEN Selected ELSE Keep),
         Selected' = [ k \in Kind |-> IF effect.select[k] = Keep THEN Selected[k]
                                                                 ELSE effect.select[k] ],
         adjustment' = IF effect.adjust = Keep THEN adjustment ELSE effect.adjust,
         Scheduled' = Scheduled \cup (effect.restart \cap UserInput),
         UNCHANGED << seen, request >>
  PROVE  Selection!Perform
<1>1. effect # Refused
  BY MarkerAssumption DEF Refused
<1>2. Selected' = [ k \in Kind |-> Selection!New(Selected[k], effect.select[k]) ]
      /\ adjustment' = Selection!New(adjustment, effect.adjust)
  BY DEF Selection!New
<1> QED
  BY <1>1, <1>2 DEF Selection!Perform, Selected, Scheduled, Answered, None, Keep, Ok

\* Nothing a client or another thread could tell.
LEMMA StutterIs ==
  ASSUME Answered' = Answered, Selected' = Selected, Scheduled' = Scheduled,
         UNCHANGED << adjustment, seen, request >>
  PROVE  UNCHANGED Selection!vars
BY DEF Selection!vars, Selected, Scheduled, Answered

-----------------------------------------------------------------------------
LEMMA InitImplements == Init => Selection!Init
<1> SUFFICES ASSUME Init PROVE Selection!Init
  OBVIOUS
<1>1. PICK i \in Input : current = [ k \in Kind |-> i ] /\ seen = i
  BY DEF Init
<1>2. ~ Committed
  BY DEF Init, Committed
<1>3. [ k \in Kind |-> IF Committed /\ changeset[k] # Keep THEN changeset[k] ELSE current[k] ]
        = [ k \in Kind |-> i ]
  BY <1>1, <1>2
<1>4. { j \in UserInput : restart[j] } = {}
  BY DEF Init
<1> QED
  BY <1>1, <1>2, <1>3, <1>4 DEF Init, Selection!Init, None, Keep

\* What the abstract state is as long as nothing has been exchanged.
LEMMA Uncommitted ==
  ASSUME TypeOK, ~ Committed
  PROVE  Selected = current /\ Answered = reply
BY DEF TypeOK, Selected, Answered

\* And after that: what the injector reads has been exchanged already.
LEMMA CommittedFirst ==
  ASSUME ControlInv, Committed
  PROVE  /\ Selected["sei"] = current["sei"]
         /\ todo = << >> => Selected = current
<1>1. pc = "exchange" /\ todo \in { Tail(KindOrder), << >> } /\ current \in [ Kind -> Input ]
      /\ \A k \in Visited : changeset[k] # Keep => current[k] = changeset[k]
  BY DEF Committed, ControlInv, TypeOK
<1>2. "sei" \in Visited /\ "sei" \in Kind /\ (todo = << >> => Visited = Kind)
  BY <1>1, VisitedOf DEF Kind
<1>3. \A k \in Visited : k \in Kind /\ Selected[k] = current[k]
  BY <1>1 DEF Selected, Visited
<1>4. todo = << >> => Selected = current
  BY <1>1, <1>2, <1>3 DEF Selected
<1> QED
  BY <1>2, <1>3, <1>4

LEMMA ReceiveImplements ==
  ASSUME ControlInv, NEW r \in Request, Receive(r)
  PROVE  Selection!Ask(r)
<1>1. ~ Committed /\ request = None /\ pc = "idle"
  BY DEF Receive, Committed, ControlInv
<1>2. ~ Committed'
  <2>1. pc' = Entry[r.op] /\ r.op \in {"select", "restart", "config", "show"}
    BY ControllerAssumption DEF Receive
  <2>2. pc' # "exchange"
    BY <2>1 DEF Entry
  <2> QED
    BY <2>2 DEF Committed
<1> QED
  BY <1>1, <1>2 DEF Receive, Selection!Ask, shared, None, Keep

LEMMA ResolveImplements ==
  ASSUME ControlInv, ControlInv', Resolve
  PROVE  Selection!Perform \/ UNCHANGED Selection!vars
<1>0. PICK k : k = Head(todo)
  OBVIOUS
<1> DEFINE ref == RefFor(request, k)
<1>1. pc = "resolve" /\ TypeOK /\ TypeOK' /\ request # None /\ reply = None
      /\ request.op = "select" /\ UNCHANGED << shared, seen, request >>
  BY DEF Resolve, Respond, ControlInv
<1>2. ~ Committed /\ ~ Committed'
  BY <1>1 DEF Resolve, Respond, Committed
<1>3. Selected = current /\ Answered = reply /\ Selected' = current' /\ Answered' = reply'
  <2>1. Selected = current /\ Answered = reply
    BY <1>1, <1>2, Uncommitted
  <2>2. Selected' = current' /\ Answered' = reply'
    BY <1>1, <1>2 DEF TypeOK, Selected, Answered
  <2> QED
    BY <2>1, <2>2
<1>4. Scheduled' = Scheduled
  BY <1>1 DEF Scheduled, shared
<1>5. k \in Kind
  <2>1. todo \in { KindOrder, Tail(KindOrder) }
    BY <1>1 DEF Resolve, TypeOK
  <2> QED
    BY <1>0, <2>1, Loop DEF Kind
<1>6. CASE ref # Absent /\ Found(ref) = {}
  <2>1. reply' = Bad
    BY <1>0, <1>6 DEF Resolve, Respond
  <2>2. Meaning(request) = Refused
    BY <1>1, <1>5, <1>6, MeaningRefused
  <2> QED
    BY <1>1, <1>3, <1>4, <2>1, <2>2, RefuseIs DEF shared
<1>7. CASE ~ (ref # Absent /\ Found(ref) = {})
  <2>1. reply' = reply
    BY <1>0, <1>7 DEF Resolve
  <2> QED
    BY <1>1, <1>3, <1>4, <2>1, StutterIs DEF shared
<1> QED
  BY <1>6, <1>7

\* The loops that only prepare something.
LEMMA PrepareImplements ==
  ASSUME ControlInv, ControlInv', Resolved \/ Validate \/ Show
  PROVE  UNCHANGED Selection!vars
<1>1. TypeOK /\ TypeOK' /\ UNCHANGED << shared, seen, request, reply >>
      /\ ~ Committed /\ ~ Committed'
  <2>1. TypeOK /\ TypeOK'
    BY DEF ControlInv
  <2>2. CASE Resolved \/ Show
    BY <2>1, <2>2 DEF Resolved, Show, Committed
  <2>3. CASE Validate
    <3>1. pc' = "exchange" /\ todo' = KindOrder /\ UNCHANGED << request, changeset, reply >>
      BY <2>1, <2>3 DEF Validate, TypeOK
    <3> QED
      BY <2>1, <2>3, <3>1 DEF Validate, Committed
  <2> QED
    BY <2>2, <2>3
<1>2. Selected = current /\ Answered = reply
  BY <1>1, Uncommitted
<1>3. Selected' = current' /\ Answered' = reply'
  BY <1>1 DEF TypeOK, Selected, Answered
<1> QED
  BY <1>1, <1>2, <1>3, StutterIs DEF shared, Scheduled

\* The first exchange performs the request, the second shows nobody anything.
LEMMA ExchangeImplements ==
  ASSUME ControlInv, ControlInv', Exchange
  PROVE  Selection!Perform \/ UNCHANGED Selection!vars
<1>1. pc = "exchange" /\ pc' = "exchange" /\ todo # << >> /\ todo' = Tail(todo)
      /\ UNCHANGED << adjustment, restart, seen, request, changeset, reply >>
      /\ TypeOK /\ TypeOK' /\ request # None /\ reply = None /\ request.op = "select"
  BY DEF Exchange, ControlInv
<1>2. Committed' /\ Scheduled' = Scheduled
  BY <1>1, Loop DEF Committed, TypeOK, Scheduled
<1>3. \A k \in Kind : k # Head(todo) => current'[k] = current[k]
  BY <1>1 DEF Exchange, TypeOK
<1>4. \A k \in Kind : changeset[k] = Keep => current'[k] = current[k]
  <2>1. current' = [ current EXCEPT ![Head(todo)] =
                       IF changeset[Head(todo)] = Keep THEN current[Head(todo)]
                                                       ELSE changeset[Head(todo)] ]
    BY DEF Exchange
  <2> QED
    BY <1>1, <2>1 DEF TypeOK
<1>5. Selected' = [ k \in Kind |-> IF changeset[k] # Keep THEN changeset[k] ELSE current[k] ]
  <2>1. Selected' = [ k \in Kind |-> IF changeset[k] # Keep THEN changeset[k] ELSE current'[k] ]
    BY <1>1, <1>2 DEF Selected
  <2> QED
    BY <1>4, <2>1
<1>6. CASE Committed
  <2>1. Selected' = Selected /\ Answered' = Answered
    BY <1>2, <1>5, <1>6 DEF Selected, Answered
  <2> QED
    BY <1>1, <1>2, <2>1, StutterIs
<1>7. CASE ~ Committed
  <2>1. Selected = current /\ Answered = None /\ Answered' = Ok(Keep)
    BY <1>1, <1>2, <1>7, Uncommitted DEF Answered
  <2>2. changeset \in [ Kind -> Input \cup {Keep} ]
    BY <1>1 DEF TypeOK
  <2> DEFINE effect == [ select |-> changeset, adjust |-> Keep, restart |-> {}, show |-> FALSE ]
  <2>3. Meaning(request) = effect
    <3>1. \A k \in Kind : IF RefFor(request, k) = Absent THEN changeset[k] = Keep
                          ELSE Found(RefFor(request, k)) = {changeset[k]}
      BY <1>1 DEF ControlInv, LookedUp
    <3> QED
      BY <1>1, <2>2, <3>1, MeaningOfSelect
  <2>4. effect \in Effect
    BY <2>2 DEF Effect, Keep
  <2>5. effect.select = changeset /\ effect.adjust = Keep /\ effect.restart = {}
        /\ ~ effect.show
    OBVIOUS
  <2>6. Selected' = [ k \in Kind |-> IF changeset[k] = Keep THEN Selected[k] ELSE changeset[k] ]
    BY <1>5, <2>1
  <2>7. Selected' = [ k \in Kind |-> IF effect.select[k] = Keep THEN Selected[k]
                                                                ELSE effect.select[k] ]
    BY <2>5, <2>6
  <2>8. Answered' = Ok(IF effect.show THEN Selected ELSE Keep)
        /\ adjustment' = (IF effect.adjust = Keep THEN adjustment ELSE effect.adjust)
        /\ Scheduled' = Scheduled \cup (effect.restart \cap UserInput)
    BY <1>1, <1>2, <2>1, <2>5
  <2> HIDE DEF effect
  <2> QED
    BY <1>1, <2>1, <2>3, <2>4, <2>7, <2>8, PerformIs
<1> QED
  BY <1>6, <1>7

\* The response follows the second exchange, and tells what is visible already.
LEMMA ExchangedImplements ==
  ASSUME ControlInv, ControlInv', Exchanged
  PROVE  UNCHANGED Selection!vars
<1>1. Committed /\ ~ Committed' /\ todo = << >> /\ TypeOK /\ TypeOK'
      /\ reply' = Ok(Keep) /\ UNCHANGED << shared, seen, request >>
  BY Loop DEF Exchanged, Respond, Committed, ControlInv
<1>2. Selected = current /\ Answered = Ok(Keep)
  BY <1>1, CommittedFirst DEF Answered
<1>3. Selected' = current' /\ Answered' = reply'
  BY <1>1 DEF TypeOK, Selected, Answered
<1> QED
  BY <1>1, <1>2, <1>3, StutterIs DEF shared, Scheduled

\* The other requests are performed when they are responded to.
LEMMA SingleStep ==
  ASSUME ControlInv, ControlInv', RestartInput \/ SetConfig \/ Shown
  PROVE  /\ TypeOK /\ request \in Request /\ request.op = pc /\ Answered = None
         /\ UNCHANGED << seen, request, current >>
         /\ Selected = current /\ Selected' = Selected /\ Answered' = reply'
<1>1. pc \in {"restart", "config", "show"} /\ pc' = "reply" /\ TypeOK /\ TypeOK'
      /\ UNCHANGED << seen, request, current >>
  BY DEF RestartInput, SetConfig, Shown, Respond, ControlInv, shared
<1>2. ~ Committed /\ ~ Committed'
  BY <1>1 DEF Committed
<1>3. request \in Request /\ request.op = pc /\ reply = None
  BY <1>1 DEF ControlInv, TypeOK
<1>4. Selected = current /\ Answered = reply
  BY <1>1, <1>2, Uncommitted
<1>5. Selected' = current' /\ Answered' = reply'
  BY <1>1, <1>2 DEF TypeOK, Selected, Answered
<1> QED
  BY <1>1, <1>3, <1>4, <1>5

Single(adjust, inputs, show) ==
  [ select |-> NoChange, adjust |-> adjust, restart |-> inputs, show |-> show ]

\* An effect with one member replaced.
LEMMA ReplacedRestart ==
  ASSUME NEW adjust, NEW inputs, NEW show, NEW x
  PROVE  [ Single(adjust, inputs, show) EXCEPT !.restart = x ] = Single(adjust, x, show)
BY DEF Single

LEMMA ReplacedAdjust ==
  ASSUME NEW adjust, NEW inputs, NEW show, NEW x
  PROVE  [ Single(adjust, inputs, show) EXCEPT !.adjust = x ] = Single(x, inputs, show)
BY DEF Single

\* What requests ask for that do not select inputs.
LEMMA MeaningOfSingle ==
  ASSUME NEW r
  PROVE  /\ r.op = "restart" =>
              Meaning(r) = IF Found(r.all) = {} THEN Refused ELSE Single(Keep, Found(r.all), FALSE)
         /\ r.op = "config" =>
              Meaning(r) = IF r.adjust = Illtyped THEN Refused ELSE Single(r.adjust, {}, FALSE)
         /\ r.op = "show" => Meaning(r) = Single(Keep, {}, TRUE)
<1>0. PICK no : no = FALSE
  OBVIOUS
<1>1. CASE r.op = "restart"
  <2>1. Meaning(r) = IF Found(r.all) = {} THEN Refused
                     ELSE [ Single(Keep, {}, no) EXCEPT !.restart = Found(r.all) ]
    BY <1>0, <1>1 DEF Meaning, Single
  <2>2. [ Single(Keep, {}, no) EXCEPT !.restart = Found(r.all) ] = Single(Keep, Found(r.all), no)
    BY ReplacedRestart
  <2>3. Meaning(r) = IF Found(r.all) = {} THEN Refused ELSE Single(Keep, Found(r.all), no)
    BY <2>1, <2>2
  <2> QED
    BY <1>0, <1>1, <2>3
<1>2. CASE r.op = "config"
  <2>1. Meaning(r) = IF r.adjust = Illtyped THEN Refused
                     ELSE [ Single(Keep, {}, no) EXCEPT !.adjust = r.adjust ]
    BY <1>0, <1>2 DEF Meaning, Single
  <2>2. [ Single(Keep, {}, no) EXCEPT !.adjust = r.adjust ] = Single(r.adjust, {}, no)
    BY ReplacedAdjust
  <2>3. Meaning(r) = IF r.adjust = Illtyped THEN Refused ELSE Single(r.adjust, {}, no)
    BY <2>1, <2>2
  <2> QED
    BY <1>0, <1>2, <2>3
<1>3. CASE r.op = "show"
  BY <1>3 DEF Meaning, Single
<1> QED
  BY <1>1, <1>2, <1>3

\* They select nothing, and are performed by their response.
LEMMA SingleIs ==
  ASSUME TypeOK, request \in Request, Answered = None,
         Selected = current, Selected' = Selected, UNCHANGED << seen, request >>,
         NEW adjust \in Int \cup {Absent}, NEW inputs \in SUBSET Input, NEW show \in BOOLEAN,
         Meaning(request) = Single(adjust, inputs, show),
         Answered' = Ok(IF show THEN Selected ELSE Keep),
         adjustment' = IF adjust = Keep THEN adjustment ELSE adjust,
         Scheduled' = Scheduled \cup (inputs \cap UserInput)
  PROVE  Selection!Perform
<1> DEFINE effect == Single(adjust, inputs, show)
<1>1. effect \in Effect
  BY DEF Single, Effect, NoChange, Keep
<1>2. effect.select = NoChange /\ effect.adjust = adjust /\ effect.restart = inputs
      /\ effect.show = show
  BY DEF Single
<1>3. Meaning(request) = effect
  OBVIOUS
<1> HIDE DEF effect
<1>4. Selected' = [ k \in Kind |-> IF effect.select[k] = Keep THEN Selected[k]
                                                              ELSE effect.select[k] ]
  <2>1. \A k \in Kind : effect.select[k] = Keep
    BY <1>2 DEF NoChange
  <2>2. current \in [ Kind -> Input ]
    BY DEF TypeOK
  <2> QED
    BY <2>1, <2>2
<1>5. request # None
  BY MarkerAssumption DEF None
<1>6. Answered' = Ok(IF effect.show THEN Selected ELSE Keep)
      /\ adjustment' = (IF effect.adjust = Keep THEN adjustment ELSE effect.adjust)
      /\ Scheduled' = Scheduled \cup (effect.restart \cap UserInput)
  BY <1>2
<1> QED
  BY <1>1, <1>3, <1>4, <1>5, <1>6, PerformIs

LEMMA RestartImplements ==
  ASSUME ControlInv, ControlInv', RestartInput
  PROVE  Selection!Perform
<1>1. /\ TypeOK /\ request \in Request /\ request.op = "restart" /\ Answered = None
      /\ UNCHANGED << seen, request, current, adjustment >>
      /\ Selected = current /\ Selected' = Selected /\ Answered' = reply'
  BY SingleStep DEF RestartInput
<1> DEFINE found == Found(request.all)
<1>2. Scheduled' = Scheduled \cup (found \cap UserInput)
  BY DEF RestartInput, Scheduled
<1>3. reply' = IF found = {} THEN Bad ELSE Ok(Keep)
  BY DEF RestartInput, Respond
<1>4. Meaning(request) = IF found = {} THEN Refused ELSE Single(Keep, found, FALSE)
  BY <1>1, MeaningOfSingle
<1>5. found \in SUBSET Input
  BY DEF Found
<1>6. request # None
  BY <1>1, MarkerAssumption DEF None
<1> HIDE DEF found
<1>7. CASE found = {}
  BY <1>1, <1>2, <1>3, <1>4, <1>6, <1>7, RefuseIs
<1>8. CASE found # {}
  <2>1. Keep \in Int \cup {Absent} /\ FALSE \in BOOLEAN /\ TRUE \in BOOLEAN
    BY DEF Keep
  <2> QED
    BY <1>1, <1>2, <1>3, <1>4, <1>5, <1>8, <2>1, SingleIs
<1> QED
  BY <1>7, <1>8

LEMMA ConfigImplements ==
  ASSUME ControlInv, ControlInv', SetConfig
  PROVE  Selection!Perform
<1>1. /\ TypeOK /\ request \in Request /\ request.op = "config" /\ Answered = None
      /\ UNCHANGED << seen, request, current, restart >>
      /\ Selected = current /\ Selected' = Selected /\ Answered' = reply'
  BY SingleStep DEF SetConfig
<1>2. Scheduled' = Scheduled
  BY <1>1 DEF Scheduled
<1>3. request.adjust \in Int \cup {Absent, Illtyped}
  BY <1>1, ControllerAssumption
<1>4. Meaning(request) = IF request.adjust = Illtyped THEN Refused
                         ELSE Single(request.adjust, {}, FALSE)
  BY <1>1, MeaningOfSingle
<1>5. request # None
  BY <1>1, MarkerAssumption DEF None
<1>6. CASE request.adjust = Illtyped
  <2>1. adjustment' = adjustment /\ reply' = Bad
    BY <1>6 DEF SetConfig, Respond
  <2> QED
    BY <1>1, <1>2, <1>4, <1>5, <1>6, <2>1, RefuseIs
<1>7. CASE request.adjust # Illtyped
  <2>1. adjustment' = (IF request.adjust = Keep THEN adjustment ELSE request.adjust)
        /\ reply' = Ok(Keep)
    BY <1>7 DEF SetConfig, Respond, Keep
  <2>2. request.adjust \in Int \cup {Absent} /\ {} \in SUBSET Input /\ FALSE \in BOOLEAN
    BY <1>3, <1>7
  <2>3. Scheduled' = Scheduled \cup ({} \cap UserInput)
    BY <1>2
  <2>4. Meaning(request) = Single(request.adjust, {}, FALSE)
    BY <1>4, <1>7
  <2>5. Answered' = Ok(IF FALSE THEN Selected ELSE Keep)
    BY <1>1, <2>1
  <2> QED
    BY <1>1, <2>1, <2>2, <2>3, <2>4, <2>5, SingleIs
<1> QED
  BY <1>6, <1>7

\* What is shown is what was current when it was read: no other thread
\* changes it in between.
LEMMA ShownImplements ==
  ASSUME ControlInv, ControlInv', Shown
  PROVE  Selection!Perform
<1>1. /\ TypeOK /\ request \in Request /\ request.op = "show" /\ Answered = None
      /\ UNCHANGED << seen, request, current, restart, adjustment >>
      /\ Selected = current /\ Selected' = Selected /\ Answered' = reply'
  BY SingleStep DEF Shown, shared
<1>2. Scheduled' = Scheduled \cup ({} \cap UserInput)
  BY <1>1 DEF Scheduled
<1>3. changeset = current
  <2>1. \A k \in Kind : changeset[k] = current[k]
    BY VisitedOf DEF Shown, ControlInv
  <2> QED
    BY <1>1, <2>1 DEF TypeOK
<1>4. Answered' = Ok(IF TRUE THEN Selected ELSE Keep)
  BY <1>1, <1>3 DEF Shown, Respond
<1>5. Meaning(request) = Single(Keep, {}, TRUE)
  BY <1>1, MeaningOfSingle
<1>6. Keep \in Int \cup {Absent} /\ {} \in SUBSET Input /\ TRUE \in BOOLEAN
      /\ adjustment' = (IF Keep = Keep THEN adjustment ELSE Keep)
  BY <1>1 DEF Keep
<1> QED
  BY <1>1, <1>2, <1>4, <1>5, <1>6, SingleIs

LEMMA ReplyImplements ==
  ASSUME ControlInv, ControlInv', Reply
  PROVE  Selection!Answer
<1>1. ~ Committed /\ ~ Committed' /\ reply # None /\ request' = None /\ reply' = None
      /\ UNCHANGED << shared, seen, changeset >> /\ TypeOK /\ TypeOK'
  BY DEF Reply, Committed, ControlInv
<1>2. Selected = current /\ Answered = reply
  BY <1>1, Uncommitted
<1>3. Selected' = current' /\ Answered' = reply'
  BY <1>1 DEF TypeOK, Selected, Answered
<1> QED
  BY <1>1, <1>2, <1>3 DEF Selection!Answer, shared, Selected, Scheduled, Answered, None, Keep

\* The injector reads what is selected, even between two exchanges.
LEMMA ReadsImplement ==
  ASSUME ControlInv, InjectorReads
  PROVE  Selection!See
<1>1. Selected["sei"] = current["sei"]
  BY CommittedFirst, Uncommitted DEF ControlInv
<1>2. UNCHANGED << Selected, adjustment, Scheduled, request, Answered >>
  BY DEF InjectorReads, shared, local, Selected, Scheduled, Answered, Committed
<1>3. seen' = Selected["sei"]
  BY <1>1 DEF InjectorReads
<1> QED
  BY <1>2, <1>3 DEF Selection!See, Selected, Scheduled, Answered

LEMMA BeginImplements ==
  ASSUME ControlInv, NEW i \in UserInput, ExtractorBegins(i)
  PROVE  Selection!Begin(i)
<1>1. UNCHANGED << Selected, adjustment, seen, request, Answered >>
  BY DEF ExtractorBegins, local, Selected, Answered, Committed
<1>2. Scheduled' = Scheduled \ {i}
  BY DEF ExtractorBegins, Scheduled, ControlInv, TypeOK
<1> QED
  BY <1>1, <1>2 DEF Selection!Begin, Selected, Scheduled, Answered

LEMMA StepImplements ==
  ASSUME ControlInv, ControlInv', [Next]_vars
  PROVE  [Selection!Next]_(Selection!vars)
<1>1. ASSUME NEW r \in Request, Receive(r) PROVE Selection!Next
  BY <1>1, ReceiveImplements DEF Selection!Next
<1>2. CASE Resolve \/ Exchange
  BY <1>2, ResolveImplements, ExchangeImplements DEF Selection!Next
<1>3. CASE Resolved \/ Validate \/ Show
  BY <1>3, PrepareImplements
<1>4. CASE Exchanged
  BY <1>4, ExchangedImplements
<1>5. CASE RestartInput \/ SetConfig \/ Shown
  BY <1>5, RestartImplements, ConfigImplements, ShownImplements DEF Selection!Next
<1>6. CASE Reply
  BY <1>6, ReplyImplements DEF Selection!Next
<1>7. CASE InjectorReads
  BY <1>7, ReadsImplement DEF Selection!Next
<1>8. ASSUME NEW i \in UserInput, ExtractorBegins(i) PROVE Selection!Next
  BY <1>8, BeginImplements DEF Selection!Next
<1>9. CASE UNCHANGED vars
  BY <1>9 DEF vars, shared, local, Selection!vars, Committed
<1> QED
  BY <1>1, <1>2, <1>3, <1>4, <1>5, <1>6, <1>7, <1>8, <1>9 DEF Next, Serve

\* Whatever the injector and the extractors do between the lookups and the
\* exchanges of set_current_input, every request has its whole effect at one
\* moment or none, and a client is shown what is selected.
THEOREM ControllerImplementsSelection == Spec => ImplementsSelection
<1>1. ControlInv /\ ControlInv' /\ [Next]_vars => [Selection!Next]_(Selection!vars)
  BY StepImplements
<1> QED
  BY <1>1, InitImplements, ControlInvariant, PTL DEF Spec, ImplementsSelection, Selection!Spec
=============================================================================

---------------------------- MODULE StartupProofs ----------------------------
(***************************************************************************)
(* Theorems about Startup and the Lifecycle it leads to, for any command   *)
(* lines and configuration files and any number of inputs.                 *)
(***************************************************************************)
EXTENDS Startup, SequenceFacts, TLAPS

-----------------------------------------------------------------------------
(***************************************************************************)
(* The threads.  A run is broken off because a request was found; that     *)
(* every request found is one made since the run began makes it inductive. *)
(***************************************************************************)
RequestsAreNew == \A i \in UserInput : restart[i] => asked[i]

ThreadsInv == TypeOK /\ OneRestartPerRequest /\ RequestsAreNew

LEMMA InitThreads == Init => ThreadsInv
BY DEF Init, ThreadsInv, TypeOK, OneRestartPerRequest, RequestsAreNew, Primary

\* A step that moves one primary thread and leaves the requests alone.
LEMMA MoveThreads ==
  ASSUME ThreadsInv, NEW p \in Primary, NEW from, To(p, from, th'[p]),
         th'[p] \in {"start", "open", "stream", "break", "cleanup", "over"},
         th'[p] = "break" => p \in UserInput /\ restart[p],
         UNCHANGED << norestart, main, ctl, restart, asked >>
  PROVE  ThreadsInv'
<1>1. th' = [ th EXCEPT ![p] = th'[p] ]
  BY DEF To
<1>2. TypeOK'
  BY <1>1 DEF ThreadsInv, TypeOK
<1>3. OneRestartPerRequest' /\ RequestsAreNew'
  BY <1>1 DEF ThreadsInv, TypeOK, OneRestartPerRequest, RequestsAreNew, Primary
<1> QED
  BY <1>2, <1>3 DEF ThreadsInv

LEMMA RunThreads ==
  ASSUME ThreadsInv, NEW p \in Primary, Run(p)
  PROVE  ThreadsInv'
<1>1. th \in [ Primary -> {"none", "start", "open", "stream", "break", "cleanup", "over"} ]
      /\ norestart \in BOOLEAN
  BY DEF ThreadsInv, TypeOK
<1>2. CASE Begin(p)
  <2>1. TypeOK'
    BY <1>1, <1>2 DEF Begin, To, ThreadsInv, TypeOK
  <2>2. OneRestartPerRequest'
    <3> SUFFICES ASSUME NEW i \in UserInput, th'[i] = "break" PROVE asked'[i]
      BY DEF OneRestartPerRequest
    <3>1. i # p /\ th[i] = "break"
      BY <1>1, <1>2 DEF Begin, To, Primary
    <3> QED
      BY <1>2, <3>1 DEF Begin, ThreadsInv, OneRestartPerRequest
  <2>3. RequestsAreNew'
    BY <1>2 DEF Begin, ThreadsInv, RequestsAreNew
  <2> QED
    BY <2>1, <2>2, <2>3 DEF ThreadsInv
<1>3. CASE Opened(p)
  BY <1>1, <1>3, MoveThreads DEF Opened, To
<1>4. CASE Fail(p)
  BY <1>1, <1>4, MoveThreads DEF Fail, To
<1>5. CASE Supervise(p)
  BY <1>1, <1>5, MoveThreads DEF Supervise, To, Supervised
<1>6. CASE p \in UserInput /\ Notice(p)
  BY <1>1, <1>6, MoveThreads DEF Notice, To
<1>7. CASE p \in UserInput /\ Return(p)
  BY <1>1, <1>7, MoveThreads DEF Return, To
<1> QED
  BY <1>2, <1>3, <1>4, <1>5, <1>6, <1>7 DEF Run

LEMMA ServeThreads == ThreadsInv /\ Serve => ThreadsInv'
<1> SUFFICES ASSUME ThreadsInv, Serve PROVE ThreadsInv'
  OBVIOUS
<1>1. ASSUME NEW i \in UserInput, Request(i) PROVE ThreadsInv'
  BY <1>1 DEF Request, ThreadsInv, TypeOK, OneRestartPerRequest, RequestsAreNew
<1>2. CASE Connect \/ ConnectFail \/ Listen \/ Accept \/ SessionEnd \/ Aborted
  <2>1. ctl' \in {"none", "start", "connected", "accept", "session", "aborted", "over"}
        /\ UNCHANGED << norestart, main, th, restart, asked >>
    BY <1>2 DEF Connect, ConnectFail, Listen, Accept, SessionEnd, Aborted, CtlTo, Supervised
  <2> QED
    BY <2>1 DEF ThreadsInv, TypeOK, OneRestartPerRequest, RequestsAreNew
<1> QED
  BY <1>1, <1>2 DEF Serve

LEMMA NextThreads == ThreadsInv /\ [Next]_vars => ThreadsInv'
<1> SUFFICES ASSUME ThreadsInv, [Next]_vars PROVE ThreadsInv'
  OBVIOUS
<1>1. CASE Exit \/ Done \/ UNCHANGED vars
  BY <1>1 DEF Exit, Done, vars, ThreadsInv, TypeOK, OneRestartPerRequest, RequestsAreNew
<1> QED
  BY <1>1, RunThreads, ServeThreads DEF Next

LEMMA StartupInitThreads == StartupInit => ThreadsInv
BY DEF StartupInit, ThreadsInv, TypeOK, OneRestartPerRequest, RequestsAreNew, Primary

\* main starts the threads, and before that it touches nothing of theirs.
LEMMA MainThreads == ThreadsInv /\ Main => ThreadsInv'
<1> SUFFICES ASSUME ThreadsInv, Main PROVE ThreadsInv'
  OBVIOUS
<1>1. CASE StartThreads
  BY <1>1 DEF StartThreads, ThreadsInv, TypeOK, OneRestartPerRequest, RequestsAreNew, Primary
<1>2. CASE ~ StartThreads
  <2>1. main' \in {main, "done", "failed"} /\ UNCHANGED << norestart, th, ctl, restart, asked >>
    BY <1>2 DEF Main, ReadCommandLine, ShowHelp, ReadConfigurationFile, MergeOption, Parsed,
                Throws, Validate, CreateInputs, SelectInputs, Refuse, Proceed, End, vars
  <2> QED
    BY <2>1 DEF ThreadsInv, TypeOK, OneRestartPerRequest, RequestsAreNew
<1> QED
  BY <1>1, <1>2

LEMMA ThreadsInvariant == StartupSpec => []ThreadsInv
<1>1. ThreadsInv /\ [StartupNext]_allVars => ThreadsInv'
  BY NextThreads, MainThreads DEF StartupNext, allVars
<1> QED
  BY <1>1, StartupInitThreads, PTL DEF StartupSpec

\* From the first option to the last join, main, the controller and every
\* thread are where their code can be (main.cpp, supervisor.h).
THEOREM ThreadsTypeCorrect == StartupSpec => []TypeOK
<1>1. ThreadsInv => TypeOK
  BY DEF ThreadsInv
<1> QED
  BY <1>1, ThreadsInvariant, PTL

\* A run is only broken off by a request made since it began, for any number
\* of inputs and at whatever point of a run the requests come
\* (UserDefinedInput::schedule_restart, MaintenanceProcessor::process).
THEOREM RunsBreakOnRequest == StartupSpec => []OneRestartPerRequest
<1>1. ThreadsInv => OneRestartPerRequest
  BY DEF ThreadsInv
<1> QED
  BY <1>1, ThreadsInvariant, PTL

\* The same of the threads alone, whatever inputs there are.
THEOREM RunsBreakOnRequestAlone == Spec => []OneRestartPerRequest
<1>1. ThreadsInv => OneRestartPerRequest
  BY DEF ThreadsInv
<1> QED
  BY <1>1, InitThreads, NextThreads, PTL DEF Spec

-----------------------------------------------------------------------------
(***************************************************************************)
(* The inputs.  Nothing is assumed of the options: whatever the command    *)
(* line and the file say, parse merges them into inputs of different       *)
(* names, validate lets only complete ones pass, and main makes the map of *)
(* the input manager and the threads from the same list.                   *)
(***************************************************************************)
IsInput(s) ==
  /\ s = [ field \in {"id", "name", "virtual", "param"} |-> s[field] ]
  /\ ~ s.virtual

\* what parse makes of the options so far
Merged(specs) ==
  /\ \E S : specs \in Seq(S)
  /\ \A n \in DOMAIN specs : IsInput(specs[n])
  /\ \A m, n \in DOMAIN specs : specs[m].name = specs[n].name => m = n

\* what validate lets pass
Complete(specs) ==
  \A n \in DOMAIN specs :
    specs[n].name \notin {"", ClearName} /\ specs[n].param["source"] # ""
    /\ specs[n].param["sink"] # ""

\* the map of the input manager
Mapped(specs, map) ==
  /\ DOMAIN map = 0 .. Len(specs)
  /\ map[0] = ClearInput
  /\ \A n \in DOMAIN specs : map[n] = specs[n] /\ specs[n].id = n

Started == main \in {"running", "waiting"}

StartupInv ==
  /\ main \in {"starting", "running", "waiting", "done", "failed"}
  /\ Started => stage = "end"
  /\ Merged(user_inputs)
  /\ stage \in {"inputs", "select", "threads"} \/ Started => Complete(user_inputs)
  /\ stage \in {"select", "threads"} \/ Started => Mapped(user_inputs, inputs)
  /\ stage \notin {"threads", "end"} => \A k \in Kinds : current[k] = 0
  /\ stage = "threads" \/ Started => \A k \in Kinds : current[k] \in DOMAIN inputs
  /\ Started => \A i \in UserInput :
                  th[i] # "none" => \E n \in DOMAIN user_inputs : user_inputs[n].name = i

-----------------------------------------------------------------------------
\* get_input_spec_or_create and the assignment of the parameter.
LEMMA MergeMerges ==
  ASSUME NEW specs, NEW option, Merged(specs)
  PROVE  Merged(Merge(specs, option))
<1> DEFINE name == option.key[2]
           with == get_input_spec_or_create(specs, name)
           n == CHOOSE m \in DOMAIN with : with[m].name = name
           value == option.values[1]
           param == option.key[3]
           new == [ with EXCEPT ![n].param[param] = value ]
<1>1. CASE ~ IsInputOption(option)
  BY <1>1 DEF Merge
<1>2. CASE IsInputOption(option)
  <2>1. PICK S : specs \in Seq(S)
    BY DEF Merged
  <2>2. Merged(with) /\ \E m \in DOMAIN with : with[m].name = name
    <3>1. CASE \E m \in DOMAIN specs : specs[m].name = name
      BY <3>1 DEF get_input_spec_or_create
    <3>2. CASE ~ \E m \in DOMAIN specs : specs[m].name = name
      <4> DEFINE s == InputSpec(Len(specs), name)
      <4>1. with = Append(specs, s)
        BY <3>2 DEF get_input_spec_or_create
      <4>2. s.name = name /\ IsInput(s)
        BY DEF InputSpec, IsInput
      <4> HIDE DEF s, with, name
      <4>3. specs \in Seq(S \cup {s}) /\ s \in S \cup {s}
        BY <2>1
      <4>4. with \in Seq(S \cup {s}) /\ Len(with) = Len(specs) + 1 /\ Len(specs) \in Nat
            /\ with[Len(with)] = s /\ \A m \in 1 .. Len(specs) : with[m] = specs[m]
        BY <4>1, <4>3
      <4>5. DOMAIN with = 1 .. Len(specs) + 1 /\ DOMAIN specs = 1 .. Len(specs)
        BY <4>3, <4>4
      <4>6. \A m \in DOMAIN with :
              (m \in DOMAIN specs /\ with[m] = specs[m]) \/ (m = Len(specs) + 1 /\ with[m] = s)
        BY <4>4, <4>5
      <4>7. \A m \in DOMAIN with : IsInput(with[m])
        BY <4>2, <4>6 DEF Merged
      <4>8. \A a, b \in DOMAIN with : with[a].name = with[b].name => a = b
        BY <3>2, <4>2, <4>6 DEF Merged
      <4>9. Len(specs) + 1 \in DOMAIN with
        BY <4>4, <4>5
      <4>10. Merged(with)
        BY <4>4, <4>7, <4>8 DEF Merged
      <4> QED
        BY <4>2, <4>4, <4>9, <4>10
    <3> QED
      BY <3>1, <3>2
  <2>3. n \in DOMAIN with
    BY <2>2
  <2>4. Merge(specs, option) = new
    BY <1>2 DEF Merge
  <2> HIDE DEF with, n, name, value, param
  <2>5. PICK T : with \in Seq(T)
    BY <2>2 DEF Merged
  <2> DEFINE changed == [ with[n] EXCEPT !.param[param] = value ]
  <2>6. new = [ with EXCEPT ![n] = changed ]
    OBVIOUS
  <2>7. IsInput(with[n])
    BY <2>2, <2>3 DEF Merged
  <2>8. IsInput(changed) /\ changed.name = with[n].name
    BY <2>7 DEF IsInput
  <2> HIDE DEF changed
  <2> DEFINE U == T \cup {changed}
  <2>9. with \in Seq(U) /\ changed \in U
    BY <2>5
  <2> HIDE DEF U
  <2>10. new \in Seq(U) /\ DOMAIN new = DOMAIN with
         /\ \A m \in DOMAIN with : new[m] = IF m = n THEN changed ELSE with[m]
    BY <2>3, <2>6, <2>9
  <2> HIDE DEF new
  <2>11. \A m \in DOMAIN new : IsInput(new[m]) /\ new[m].name = with[m].name
    BY <2>2, <2>8, <2>10 DEF Merged
  <2>12. \A a, b \in DOMAIN new : new[a].name = new[b].name => a = b
    BY <2>2, <2>10, <2>11 DEF Merged
  <2> QED
    BY <2>4, <2>10, <2>11, <2>12 DEF Merged
<1> QED
  BY <1>1, <1>2

\* main numbers the inputs, and the constructor of InputManager finds each
\* of them, the virtual one first, under its number.
LEMMA NumberedMapped ==
  ASSUME NEW specs, Merged(specs), NEW new,
         new = [ n \in DOMAIN specs |-> [ specs[n] EXCEPT !.id = n ] ]
  PROVE  /\ Merged(new) /\ Mapped(new, InputManager(<< ClearInput >> \o new))
         /\ Complete(specs) => Complete(new)
<1> DEFINE N == Len(specs)
           list == << ClearInput >> \o new
<1>1. PICK S : specs \in Seq(S)
  BY DEF Merged
<1>2. N \in Nat /\ DOMAIN specs = 1 .. N
  BY <1>1
<1>3. \A n \in 1 .. N : /\ IsInput(new[n]) /\ new[n].id = n /\ new[n].name = specs[n].name
                        /\ new[n].param = specs[n].param
  <2> SUFFICES ASSUME NEW n \in 1 .. N
               PROVE  /\ IsInput(new[n]) /\ new[n].id = n /\ new[n].name = specs[n].name
                      /\ new[n].param = specs[n].param
    OBVIOUS
  <2>1. new[n] = [ specs[n] EXCEPT !.id = n ] /\ IsInput(specs[n])
    BY <1>2 DEF Merged
  <2> QED
    BY <2>1 DEF IsInput
<1> HIDE DEF N
<1>4. DOMAIN new = 1 .. N
  BY <1>2
<1> DEFINE T == { new[n] : n \in 1 .. N } \cup {ClearInput}
<1>5. new \in Seq(T) /\ Len(new) = N
  <2>1. new = [ n \in 1 .. N |-> new[n] ]
    BY <1>2
  <2>2. \A n \in 1 .. N : new[n] \in T
    OBVIOUS
  <2> HIDE DEF T
  <2>3. new \in [ 1 .. N -> T ]
    BY <2>1, <2>2
  <2> QED
    BY <1>2, <2>3
<1>6. Merged(new)
  <2>1. \A m, n \in DOMAIN new : new[m].name = new[n].name => m = n
    BY <1>2, <1>3, <1>4 DEF Merged
  <2> QED
    BY <1>3, <1>4, <1>5, <2>1 DEF Merged
<1>7. Complete(specs) => Complete(new)
  <2>1. \A n \in DOMAIN new : n \in DOMAIN specs /\ new[n].name = specs[n].name
                              /\ new[n].param = specs[n].param
    BY <1>2, <1>3, <1>4
  <2> QED
    BY <2>1 DEF Complete
<1>8. DOMAIN list = 1 .. N + 1 /\ list[1] = ClearInput
      /\ \A n \in 1 .. N : list[n + 1] = new[n]
  <2>1. ClearInput \in T
    OBVIOUS
  <2> HIDE DEF T
  <2>2. << ClearInput >> \in Seq(T) /\ Len(<< ClearInput >>) = 1
    BY <2>1
  <2> QED
    BY <1>2, <1>5, <2>2
<1>9. ClearInput.id = 0
  BY DEF ClearInput, InputSpec
<1> HIDE DEF list
<1>10. \A n \in 1 .. N + 1 : list[n].id = n - 1
  <2> SUFFICES ASSUME NEW n \in 1 .. N + 1 PROVE list[n].id = n - 1
    OBVIOUS
  <2>1. CASE n = 1
    BY <1>8, <1>9, <2>1
  <2>2. CASE n # 1
    <3> DEFINE m == n - 1
    <3>1. m \in 1 .. N /\ m + 1 = n
      BY <1>2, <2>2
    <3> HIDE DEF m
    <3>2. list[n] = new[m] /\ new[m].id = m
      BY <1>3, <1>8, <3>1
    <3>3. list[n].id = m
      BY <3>2
    <3> QED
      BY <3>3 DEF m
  <2> QED
    BY <2>1, <2>2
<1> DEFINE ids == { list[n].id : n \in DOMAIN list }
           at(id) == CHOOSE n \in DOMAIN list :
                       list[n].id = id /\ \A m \in DOMAIN list : list[m].id = id => m <= n
<1>11. ids = 0 .. N
  <2>1. \A n \in 1 .. N + 1 : list[n].id \in 0 .. N
    BY <1>2, <1>10
  <2>2. \A id \in 0 .. N : id + 1 \in 1 .. N + 1 /\ list[id + 1].id = id
    BY <1>2, <1>10
  <2> QED
    BY <1>8, <2>1, <2>2
<1>12. \A id \in 0 .. N : at(id) = id + 1
  <2> SUFFICES ASSUME NEW id \in 0 .. N PROVE at(id) = id + 1
    OBVIOUS
  <2>1. id + 1 \in DOMAIN list /\ list[id + 1].id = id
        /\ \A m \in DOMAIN list : list[m].id = id => m = id + 1
    BY <1>2, <1>8, <1>10
  <2>2. id + 1 <= id + 1
    BY <1>2
  <2>3. \E n \in DOMAIN list : list[n].id = id /\ \A m \in DOMAIN list : list[m].id = id => m <= n
    BY <2>1, <2>2
  <2>4. at(id) \in DOMAIN list /\ list[at(id)].id = id
    BY <2>3
  <2> HIDE DEF at
  <2> QED
    BY <2>1, <2>4
<1>13. InputManager(list) = [ id \in ids |-> list[at(id)] ]
  BY DEF InputManager
<1> HIDE DEF ids, at
<1>14. DOMAIN InputManager(list) = 0 .. N
       /\ \A id \in 0 .. N : InputManager(list)[id] = list[id + 1]
  BY <1>11, <1>12, <1>13
<1>15. Mapped(new, InputManager(list))
  <2>1. InputManager(list)[0] = ClearInput
    <3>1. 0 \in 0 .. N /\ 0 + 1 = 1
      BY <1>2
    <3> QED
      BY <1>8, <1>14, <3>1
  <2>2. \A n \in 1 .. N : InputManager(list)[n] = new[n]
    <3>1. \A n \in 1 .. N : n \in 0 .. N
      BY <1>2
    <3> QED
      BY <1>8, <1>14, <3>1
  <2> QED
    BY <1>3, <1>4, <1>5, <1>14, <2>1, <2>2 DEF Mapped
<1> QED
  BY <1>6, <1>7, <1>15 DEF list

-----------------------------------------------------------------------------
LEMMA StartupInitInv == StartupInit => StartupInv
<1> SUFFICES ASSUME StartupInit PROVE StartupInv
  OBVIOUS
<1>1. user_inputs = << >> /\ main = "starting" /\ stage = "command line"
      /\ current = [ k \in Kinds |-> 0 ]
  BY DEF StartupInit
<1>2. Merged(<< >>)
  <2>1. << >> \in Seq({}) /\ DOMAIN << >> = {}
    OBVIOUS
  <2> QED
    BY <2>1 DEF Merged
<1> QED
  BY <1>1, <1>2 DEF StartupInv, Started

\* Once the threads run, main's options and inputs stay as they are.
LEMMA NextStartup == StartupInv /\ [Next]_vars /\ UNCHANGED startup => StartupInv'
<1> SUFFICES ASSUME StartupInv, [Next]_vars, UNCHANGED startup PROVE StartupInv'
  OBVIOUS
<1>1. UNCHANGED << stage, user_inputs, inputs, current >>
  BY DEF startup, parsed, managed
<1>2. /\ main' \in {"starting", "running", "waiting", "done", "failed"}
      /\ Started' => Started
  BY DEF Next, Run, Begin, Opened, Fail, Supervise, Notice, Return, Serve, Connect, ConnectFail,
         Listen, Accept, Request, SessionEnd, Aborted, Exit, Done, vars, StartupInv, Started
<1>3. \A i \in UserInput : th'[i] # "none" => th[i] # "none"
  <2>1. ASSUME NEW p \in Primary, Run(p)
        PROVE  \E from, to : from # "none" /\ To(p, from, to)
    BY <2>1 DEF Run, Begin, Opened, Fail, Supervise, Notice, Return
  <2>2. ASSUME NEW p, NEW from, NEW to, from # "none", To(p, from, to)
        PROVE  \A i \in UserInput : th'[i] # "none" => th[i] # "none"
    BY <2>2 DEF To
  <2>3. CASE ~ \E p \in Primary : Run(p)
    <3>1. th' = th
      BY <2>3 DEF Next, Serve, Connect, ConnectFail, Listen, Accept, Request, SessionEnd, Aborted,
                  Exit, Done, vars
    <3> QED
      BY <3>1
  <2> QED
    BY <2>1, <2>2, <2>3
<1> QED
  BY <1>1, <1>2, <1>3 DEF StartupInv

\* main before the inputs exist.
LEMMA ParseStartup ==
  ASSUME StartupInv,
         \/ ReadCommandLine \/ ReadConfigurationFile \/ MergeOption \/ Parsed \/ Validate
  PROVE  StartupInv'
<1>1. UNCHANGED << main, th, inputs, current >>
  BY DEF ReadCommandLine, ReadConfigurationFile, MergeOption, Parsed, Validate, Proceed, vars,
         managed
<1>2. stage \in {"command line", "configuration file", "merge", "validate"}
      /\ stage' \in {"configuration file", "merge", "validate", "inputs"}
  BY DEF ReadCommandLine, ReadConfigurationFile, MergeOption, Parsed, Validate, Proceed
<1>3. Merged(user_inputs')
  <2>1. CASE MergeOption
    BY <2>1, MergeMerges DEF MergeOption, StartupInv
  <2>2. CASE ~ MergeOption
    <3>1. user_inputs' = user_inputs
      BY <2>2 DEF ReadCommandLine, ReadConfigurationFile, Parsed, Validate, parsed
    <3> QED
      BY <3>1 DEF StartupInv
  <2> QED
    BY <2>1, <2>2
<1>4. stage' = "inputs" => Complete(user_inputs')
  <2> SUFFICES ASSUME stage' = "inputs" PROVE Complete(user_inputs')
    OBVIOUS
  <2>1. Validate
    BY DEF ReadCommandLine, ReadConfigurationFile, MergeOption, Parsed, Proceed
  <2> QED
    BY <2>1 DEF Validate, Valid, Complete, parsed
<1> QED
  BY <1>1, <1>2, <1>3, <1>4 DEF StartupInv, Started

LEMMA CreateInputsStartup == StartupInv /\ CreateInputs => StartupInv'
<1> SUFFICES ASSUME StartupInv, CreateInputs PROVE StartupInv'
  OBVIOUS
<1>1. stage = "inputs" /\ stage' = "select" /\ UNCHANGED << main, th, current >>
      /\ user_inputs' = [ n \in DOMAIN user_inputs |-> [ user_inputs[n] EXCEPT !.id = n ] ]
      /\ inputs' = InputManager(<< ClearInput >> \o user_inputs')
  BY DEF CreateInputs, Proceed, vars
<1>2. Merged(user_inputs) /\ Complete(user_inputs) /\ ~ Started
  BY <1>1 DEF StartupInv
<1>3. Merged(user_inputs') /\ Complete(user_inputs') /\ Mapped(user_inputs', inputs')
  BY <1>1, <1>2, NumberedMapped
<1> QED
  BY <1>1, <1>2, <1>3 DEF StartupInv, Started

\* In the map of the input manager every name is there once.
LEMMA NamesFound ==
  ASSUME Merged(user_inputs), Complete(user_inputs), Mapped(user_inputs, inputs)
  PROVE  \A id \in DOMAIN inputs : inputs[id].id = id /\ Named(inputs[id].name) = {id}
<1>1. PICK S : user_inputs \in Seq(S)
  BY DEF Merged
<1>2. DOMAIN user_inputs = 1 .. Len(user_inputs) /\ Len(user_inputs) \in Nat
  BY <1>1
<1>3. inputs[0].id = 0 /\ inputs[0].name = ClearName
  BY DEF Mapped, ClearInput, InputSpec
<1>4. \A id \in DOMAIN inputs : id = 0 \/ id \in DOMAIN user_inputs
  BY <1>2 DEF Mapped
<1>5. \A n \in DOMAIN user_inputs :
        inputs[n].id = n /\ inputs[n].name = user_inputs[n].name /\ inputs[n].name # ClearName
        /\ n \in DOMAIN inputs /\ n # 0
  <2>1. \A n \in DOMAIN user_inputs : n \in 0 .. Len(user_inputs) /\ n # 0
    BY <1>2
  <2>2. \A n \in DOMAIN user_inputs : inputs[n] = user_inputs[n] /\ user_inputs[n].id = n
    BY DEF Mapped
  <2>3. \A n \in DOMAIN user_inputs : user_inputs[n].name # ClearName
    BY DEF Complete
  <2>4. DOMAIN inputs = 0 .. Len(user_inputs)
    BY DEF Mapped
  <2> QED
    BY <2>1, <2>2, <2>3, <2>4
<1>6. ASSUME NEW a \in DOMAIN inputs, NEW b \in DOMAIN inputs, inputs[a].name = inputs[b].name
      PROVE  a = b
  <2>1. CASE a = 0 \/ b = 0
    BY <1>3, <1>4, <1>5, <1>6, <2>1
  <2>2. CASE a # 0 /\ b # 0
    BY <1>4, <1>5, <1>6, <2>2 DEF Merged
  <2> QED
    BY <2>1, <2>2
<1>7. \A id \in DOMAIN inputs : Named(inputs[id].name) = {id}
  BY <1>6 DEF Named
<1> QED
  BY <1>3, <1>4, <1>5, <1>7

\* The first of one.
LEMMA FoundByName ==
  ASSUME NEW name, NEW id \in Int, Named(name) = {id}
  PROVE  get_input_by_name(name) = id
BY DEF get_input_by_name

LEMMA SelectInputsStartup == StartupInv /\ SelectInputs => StartupInv'
<1> SUFFICES ASSUME StartupInv, SelectInputs PROVE StartupInv'
  OBVIOUS
<1>1. stage = "select" /\ stage' = "threads" /\ UNCHANGED << main, th, user_inputs, inputs >>
  BY DEF SelectInputs, Proceed, vars, parsed
<1>2. Merged(user_inputs) /\ Complete(user_inputs) /\ Mapped(user_inputs, inputs) /\ ~ Started
      /\ \A k \in Kinds : current[k] = 0
  BY <1>1 DEF StartupInv
<1>3. PICK S : user_inputs \in Seq(S)
  BY <1>2 DEF Merged
<1>4. DOMAIN inputs = 0 .. Len(user_inputs) /\ Len(user_inputs) \in Nat
  BY <1>2, <1>3 DEF Mapped
<1>5. \A k \in Kinds : current'[k] \in DOMAIN inputs
  <2>1. CASE StartingInput = None
    BY <1>2, <1>4, <2>1 DEF SelectInputs
  <2>2. CASE StartingInput # None
    <3>1. PICK id \in DOMAIN inputs : inputs[id].name = StartingInput
      BY <2>2 DEF SelectInputs, Named
    <3>2. Named(StartingInput) = {id}
      BY <1>2, <3>1, NamesFound
    <3>3. get_input_by_name(StartingInput) = id
      <4>1. id \in Int
        BY <1>4
      <4> QED
        BY <3>2, <4>1, FoundByName
    <3>4. current' = [ k \in Kinds |-> get_input_by_name(StartingInput) ]
      BY <2>2 DEF SelectInputs
    <3> QED
      BY <3>1, <3>3, <3>4
  <2> QED
    BY <2>1, <2>2
<1> QED
  BY <1>1, <1>2, <1>5 DEF StartupInv, Started

LEMMA StartThreadsStartup == StartupInv /\ StartThreads => StartupInv'
<1> SUFFICES ASSUME StartupInv, StartThreads PROVE StartupInv'
  OBVIOUS
<1>1. stage = "threads" /\ stage' = "end" /\ main' = "running"
      /\ UNCHANGED << user_inputs, inputs, current >>
  BY DEF StartThreads, parsed, managed
<1>2. \A i \in UserInput :
        th'[i] # "none" => \E n \in DOMAIN user_inputs : user_inputs[n].name = i
  BY LifecycleAssumption DEF StartThreads, Primary
<1> QED
  BY <1>1, <1>2 DEF StartupInv, Started

LEMMA MainStartup == StartupInv /\ Main => StartupInv'
<1> SUFFICES ASSUME StartupInv, Main PROVE StartupInv'
  OBVIOUS
<1>1. CASE ShowHelp \/ Throws \/ Refuse
  <2>1. main' \in {"done", "failed"} /\ stage' = "end" /\ UNCHANGED user_inputs
    BY <1>1 DEF ShowHelp, Throws, Refuse, End, parsed
  <2> QED
    BY <2>1 DEF StartupInv, Started
<1> QED
  BY <1>1, ParseStartup, CreateInputsStartup, SelectInputsStartup, StartThreadsStartup DEF Main

LEMMA StartupInvariant == StartupSpec => []StartupInv
<1>1. StartupInv /\ [StartupNext]_allVars => StartupInv'
  <2>1. UNCHANGED allVars => [Next]_vars /\ UNCHANGED startup
    BY DEF allVars
  <2> QED
    BY <2>1, NextStartup, MainStartup DEF StartupNext
<1> QED
  BY <1>1, StartupInitInv, PTL DEF StartupSpec

\* Whatever the command line and the configuration file say, an extractor
\* that runs finds its own input by its name, an input that can be opened,
\* the ids of inputs and map agree, and the current inputs exist (main.cpp,
\* the constructor of InputManager, ProgramOptions::parse and validate).
THEOREM ExtractorsFindTheirInputs == StartupSpec => []ThreadsFindInputs
<1>1. StartupInv => ThreadsFindInputs
  <2> SUFFICES ASSUME StartupInv, Started PROVE ThreadsFindInputs!2
    BY DEF StartupInv, Started, ThreadsFindInputs
  <2>1. Merged(user_inputs) /\ Complete(user_inputs) /\ Mapped(user_inputs, inputs)
        /\ \A k \in Kinds : current[k] \in DOMAIN inputs
    BY DEF StartupInv
  <2>2. \A id \in DOMAIN inputs : inputs[id].id = id /\ Named(inputs[id].name) = {id}
    BY <2>1, NamesFound
  <2>3. ASSUME NEW i \in UserInput, th[i] # "none"
        PROVE  /\ Named(i) # {}
               /\ LET input == inputs[get_input_by_name(i)]
                  IN  ~ input.virtual /\ input.param["source"] # "" /\ input.param["sink"] # ""
    <3>1. PICK n \in DOMAIN user_inputs : user_inputs[n].name = i
      BY <2>3 DEF StartupInv
    <3>2. PICK S : user_inputs \in Seq(S)
      BY <2>1 DEF Merged
    <3>3. n \in DOMAIN inputs /\ n \in Int /\ inputs[n] = user_inputs[n]
      BY <2>1, <3>2 DEF Mapped
    <3>4. Named(i) = {n}
      BY <2>2, <3>1, <3>3
    <3>5. get_input_by_name(i) = n
      BY <3>3, <3>4, FoundByName
    <3> QED
      BY <2>1, <3>3, <3>4, <3>5 DEF Merged, Complete, IsInput
  <2> QED
    BY <2>1, <2>2, <2>3 DEF Mapped
<1> QED
  BY <1>1, StartupInvariant, PTL
-----------------------------------------------------------------------------
(***************************************************************************)
(* The options.  Of those that boost does not know, the ones up to some    *)
(* position have been merged, and the inputs are what these say; the rest  *)
(* waits, in its order, in unrecognized.                                   *)
(***************************************************************************)

\* the options among those at P that give parameter p of an input, or any
In(options, P, name, p) == { n \in P : options[n].key = << "input", name, p >> }
Of(options, P, name) == UNION { In(options, P, name, p) : p \in Param }

LastIn(M) == CHOOSE last \in M : \A m \in M : m <= last

GivenParam(options, P, name, p) ==
  LET M == In(options, P, name, p)
  IN  IF M = {} THEN InputSpec(0, "").param[p] ELSE options[LastIn(M)].values[1]

\* specs are what the options at P say
Says(options, P, specs) ==
  /\ \A name : Of(options, P, name) # {} <=> \E n \in DOMAIN specs : specs[n].name = name
  /\ \A n \in DOMAIN specs : specs[n].param = [ p \in Param |-> specs[n].param[p] ]
  /\ \A n \in DOMAIN specs : \A p \in Param :
       specs[n].param[p] = GivenParam(options, P, specs[n].name, p)
  /\ \A m, n \in DOMAIN specs :
       m < n => \E a \in Of(options, P, specs[m].name) :
                  \A b \in Of(options, P, specs[n].name) : a < b

\* One more option, behind all of P.
LEMMA InNext ==
  ASSUME NEW options, NEW P, NEW o, NEW name, NEW p
  PROVE  In(options, P \cup {o}, name, p) =
           In(options, P, name, p) \cup (IF options[o].key = << "input", name, p >> THEN {o} ELSE {})
BY DEF In

\* An option that is not about inputs says nothing of them.
LEMMA OtherOption ==
  ASSUME NEW options, NEW P, NEW o, ~ IsInputOption(options[o])
  PROVE  \A name, p : In(options, P \cup {o}, name, p) = In(options, P, name, p)
<1> SUFFICES ASSUME NEW name, NEW p
             PROVE  In(options, P \cup {o}, name, p) = In(options, P, name, p)
  OBVIOUS
<1>1. options[o].key # << "input", name, p >>
  <2>1. Len(<< "input", name, p >>) = 3 /\ << "input", name, p >>[1] = "input"
    OBVIOUS
  <2> QED
    BY <2>1 DEF IsInputOption
<1> QED
  BY <1>1 DEF In

LEMMA SaysOther ==
  ASSUME NEW options, NEW P, NEW o, ~ IsInputOption(options[o]), NEW specs, Says(options, P, specs)
  PROVE  Says(options, P \cup {o}, specs)
<1>1. \A name, p : In(options, P \cup {o}, name, p) = In(options, P, name, p)
  BY OtherOption
<1>2. \A name : Of(options, P \cup {o}, name) = Of(options, P, name)
  BY <1>1 DEF Of
<1>3. ASSUME NEW name, NEW p
      PROVE  GivenParam(options, P \cup {o}, name, p) = GivenParam(options, P, name, p)
  <2>1. In(options, P \cup {o}, name, p) = In(options, P, name, p)
    BY <1>1
  <2> QED
    BY <2>1 DEF GivenParam
<1>4. \A n \in DOMAIN specs : \A p \in Param :
        specs[n].param[p] = GivenParam(options, P \cup {o}, specs[n].name, p)
  <2> SUFFICES ASSUME NEW n \in DOMAIN specs, NEW p \in Param
               PROVE  specs[n].param[p] = GivenParam(options, P \cup {o}, specs[n].name, p)
    OBVIOUS
  <2>1. specs[n].param[p] = GivenParam(options, P, specs[n].name, p)
    BY DEF Says
  <2> QED
    BY <1>3, <2>1
<1>5. \A name : Of(options, P \cup {o}, name) # {} <=> \E n \in DOMAIN specs : specs[n].name = name
  BY <1>2 DEF Says
<1>6. \A m, n \in DOMAIN specs :
        m < n => \E a \in Of(options, P \cup {o}, specs[m].name) :
                   \A b \in Of(options, P \cup {o}, specs[n].name) : a < b
  <2> SUFFICES ASSUME NEW m \in DOMAIN specs, NEW n \in DOMAIN specs, m < n
               PROVE  \E a \in Of(options, P \cup {o}, specs[m].name) :
                        \A b \in Of(options, P \cup {o}, specs[n].name) : a < b
    OBVIOUS
  <2>1. \E a \in Of(options, P, specs[m].name) : \A b \in Of(options, P, specs[n].name) : a < b
    BY DEF Says
  <2> QED
    BY <1>2, <2>1
<1> QED
  BY <1>4, <1>5, <1>6 DEF Says

\* What get_input_spec_or_create and the assignment make of the inputs: one
\* of them, the one of that name, has a new value of one parameter.
Assigned(specs, option, new, k) ==
  /\ DOMAIN specs = 1 .. Len(specs) /\ Len(specs) \in Nat
  /\ k \in DOMAIN new /\ DOMAIN new = DOMAIN specs \cup {k}
  /\ k \notin DOMAIN specs =>
       k = Len(specs) + 1 /\ \A m \in DOMAIN specs : specs[m].name # option.key[2]
  /\ new[k].name = option.key[2]
  /\ \A m \in DOMAIN specs : new[m].name = specs[m].name
  /\ \A m \in DOMAIN new : new[m].param = [ p \in Param |-> new[m].param[p] ]
  /\ \A m \in DOMAIN new : \A p \in Param :
       new[m].param[p] = IF m = k /\ p = option.key[3] THEN option.values[1]
                         ELSE IF m \in DOMAIN specs THEN specs[m].param[p]
                         ELSE InputSpec(0, "").param[p]

LEMMA MergeAssigns ==
  ASSUME NEW specs, Merged(specs),
         \A n \in DOMAIN specs : specs[n].param = [ p \in Param |-> specs[n].param[p] ],
         NEW option, IsInputOption(option), WellFormed(option)
  PROVE  \E k : Assigned(specs, option, Merge(specs, option), k)
<1> DEFINE name == option.key[2]
           with == get_input_spec_or_create(specs, name)
           k == CHOOSE m \in DOMAIN with : with[m].name = name
           value == option.values[1]
           param == option.key[3]
           new == [ with EXCEPT ![k].param[param] = value ]
           N == Len(specs)
           s == InputSpec(N, name)
           found == \E m \in DOMAIN specs : specs[m].name = name
<1>1. PICK S : specs \in Seq(S)
  BY DEF Merged
<1>2. N \in Nat /\ DOMAIN specs = 1 .. N
  BY <1>1
<1>3. param \in Param
  BY DEF WellFormed
<1>4. \A p \in Param : s.param[p] = InputSpec(0, "").param[p]
  BY DEF InputSpec
<1>5. s.name = name /\ IsInput(s) /\ s.param = [ p \in Param |-> s.param[p] ]
  BY DEF InputSpec, IsInput
<1>6. with = IF found THEN specs ELSE Append(specs, s)
  BY DEF get_input_spec_or_create
<1>7. Merge(specs, option) = new
  BY DEF Merge
<1> HIDE DEF s, with, param, value, name
<1>8. ~ found => /\ DOMAIN with = 1 .. N + 1 /\ with[N + 1] = s
                 /\ \A m \in 1 .. N : with[m] = specs[m]
  <2> SUFFICES ASSUME ~ found
               PROVE  /\ DOMAIN with = 1 .. N + 1 /\ with[N + 1] = s
                      /\ \A m \in 1 .. N : with[m] = specs[m]
    OBVIOUS
  <2>1. specs \in Seq(S \cup {s}) /\ s \in S \cup {s} /\ with = Append(specs, s)
    BY <1>1, <1>6
  <2> QED
    BY <1>2, <2>1
<1>9. k \in DOMAIN with /\ with[k].name = name
  <2>1. \E m \in DOMAIN with : with[m].name = name
    <3>1. CASE found
      BY <1>6, <3>1
    <3>2. CASE ~ found
      BY <1>2, <1>5, <1>8, <3>2
    <3> QED
      BY <3>1, <3>2
  <2> QED
    BY <2>1
<1> HIDE DEF k
<1>10. DOMAIN with = DOMAIN specs \cup {k} /\ (k \notin DOMAIN specs => ~ found /\ k = N + 1)
  <2>1. CASE found
    BY <1>6, <1>9, <2>1
  <2>2. CASE ~ found
    <3>1. k = N + 1
      BY <1>2, <1>8, <1>9, <2>2
    <3> QED
      BY <1>2, <1>8, <2>2, <3>1
  <2> QED
    BY <2>1, <2>2
<1>11. \A m \in DOMAIN with :
         /\ IsInput(with[m]) /\ with[m].param = [ p \in Param |-> with[m].param[p] ]
         /\ m \in DOMAIN specs => with[m] = specs[m]
         /\ m \notin DOMAIN specs => with[m] = s
  <2>1. CASE found
    BY <1>6, <2>1 DEF Merged
  <2>2. CASE ~ found
    <3>1. \A m \in DOMAIN with : m \in 1 .. N \/ m = N + 1
      BY <1>2, <1>8, <2>2
    <3> QED
      BY <1>2, <1>5, <1>8, <2>2, <3>1 DEF Merged
  <2> QED
    BY <2>1, <2>2
<1> DEFINE changed == [ with[k] EXCEPT !.param[param] = value ]
<1>12. DOMAIN new = DOMAIN with
       /\ \A m \in DOMAIN with : new[m] = IF m = k THEN changed ELSE with[m]
  <2>1. new = [ with EXCEPT ![k] = changed ]
    OBVIOUS
  <2>2. \E T : with \in Seq(T)
    <3>1. CASE found
      BY <1>1, <1>6, <3>1
    <3>2. CASE ~ found
      <4>1. specs \in Seq(S \cup {s}) /\ s \in S \cup {s}
        BY <1>1
      <4> QED
        BY <1>6, <3>2, <4>1
    <3> QED
      BY <3>1, <3>2
  <2>3. with = [ m \in DOMAIN with |-> with[m] ]
    BY <2>2
  <2> HIDE DEF changed
  <2> QED
    BY <2>1, <2>3
<1>13. /\ changed.name = with[k].name
       /\ changed.param = [ p \in Param |-> IF p = param THEN value ELSE with[k].param[p] ]
  <2>1. IsInput(with[k]) /\ with[k].param = [ p \in Param |-> with[k].param[p] ]
    BY <1>9, <1>11
  <2>2. changed.name = with[k].name /\ changed.param = [ with[k].param EXCEPT ![param] = value ]
    BY <2>1 DEF IsInput
  <2> DEFINE w == with[k].param
  <2> HIDE DEF w
  <2>3. w = [ p \in Param |-> w[p] ]
    BY <2>1 DEF w
  <2>4. [ w EXCEPT ![param] = value ] = [ p \in Param |-> IF p = param THEN value ELSE w[p] ]
    BY <1>3, <2>3
  <2> QED
    BY <2>2, <2>4 DEF w
<1> HIDE DEF changed, new
<1>14. \A m \in DOMAIN new : new[m].param = [ p \in Param |-> new[m].param[p] ]
  <2> SUFFICES ASSUME NEW m \in DOMAIN new PROVE new[m].param = [ p \in Param |-> new[m].param[p] ]
    OBVIOUS
  <2>1. CASE m = k
    BY <1>12, <1>13, <2>1
  <2>2. CASE m # k
    BY <1>11, <1>12, <2>2
  <2> QED
    BY <2>1, <2>2
<1>15. \A m \in DOMAIN new : \A p \in Param :
         new[m].param[p] = IF m = k /\ p = param THEN value
                           ELSE IF m \in DOMAIN specs THEN specs[m].param[p]
                           ELSE InputSpec(0, "").param[p]
  <2> SUFFICES ASSUME NEW m \in DOMAIN new, NEW p \in Param
               PROVE  new[m].param[p] = IF m = k /\ p = param THEN value
                                        ELSE IF m \in DOMAIN specs THEN specs[m].param[p]
                                        ELSE InputSpec(0, "").param[p]
    OBVIOUS
  <2>1. with[m].param[p] = IF m \in DOMAIN specs THEN specs[m].param[p]
                           ELSE InputSpec(0, "").param[p]
    BY <1>4, <1>11, <1>12
  <2>2. new[m].param[p] = IF m = k /\ p = param THEN value ELSE with[m].param[p]
    BY <1>12, <1>13
  <2> QED
    BY <2>1, <2>2
<1>16. new[k].name = name /\ \A m \in DOMAIN specs : new[m].name = specs[m].name
  BY <1>9, <1>10, <1>11, <1>12, <1>13
<1>17. k \in DOMAIN new
  BY <1>9, <1>12
<1>18. k \notin DOMAIN specs => k = N + 1 /\ \A m \in DOMAIN specs : specs[m].name # name
  BY <1>10
<1>19. DOMAIN new = DOMAIN specs \cup {k}
  BY <1>10, <1>12
<1> HIDE DEF N, found
<1>20. Assigned(specs, option, new, k)
  BY <1>2, <1>14, <1>15, <1>16, <1>17, <1>18, <1>19 DEF Assigned, N, name, param, value
<1> QED
  BY <1>7, <1>20

\* One round of the loop: the inputs say what one more option has said.
LEMMA MergeSays ==
  ASSUME NEW options \in Seq(Option), NEW o \in 1 .. Len(options),
         NEW P \in SUBSET (1 .. Len(options)), \A a \in P : a < o,
         NEW specs, Merged(specs), Says(options, P, specs), WellFormed(options[o])
  PROVE  Says(options, P \cup {o}, Merge(specs, options[o]))
<1> DEFINE option == options[o]
           new == Merge(specs, option)
           Q == P \cup {o}
<1>1. CASE ~ IsInputOption(option)
  BY <1>1, SaysOther DEF Merge
<1>2. CASE IsInputOption(option)
  <2>1. PICK k : Assigned(specs, option, new, k)
    BY <1>2, MergeAssigns DEF Says
  <2> DEFINE name == option.key[2]
             param == option.key[3]
             value == option.values[1]
  <2>2. option.key = << "input", name, param >> /\ param \in Param
    <3>1. option \in Option
      OBVIOUS
    <3>2. option.key \in Seq(STRING) /\ Len(option.key) = 3 /\ option.key[1] = "input"
          /\ option.key[3] \in Param
      BY <1>2, <3>1 DEF IsInputOption, WellFormed, Option
    <3> QED
      BY <3>2
  <2> HIDE DEF new, name, param, value
  <2>3. \A x, p, n : n \in In(options, Q, x, p) <=>
                       n \in In(options, P, x, p) \/ (x = name /\ p = param /\ n = o)
    <3> SUFFICES ASSUME NEW x, NEW p, NEW n
                 PROVE  n \in In(options, Q, x, p) <=>
                          n \in In(options, P, x, p) \/ (x = name /\ p = param /\ n = o)
      OBVIOUS
    <3>1. options[o].key = << "input", x, p >> <=> x = name /\ p = param
      BY <2>2
    <3> QED
      BY <3>1 DEF In
  <2>4. \A x : Of(options, Q, x) = Of(options, P, x) \cup (IF x = name THEN {o} ELSE {})
    <3> SUFFICES ASSUME NEW x
                 PROVE  Of(options, Q, x) = Of(options, P, x) \cup (IF x = name THEN {o} ELSE {})
      OBVIOUS
    <3>1. \A n : n \in Of(options, Q, x) <=> \E p \in Param : n \in In(options, Q, x, p)
      BY DEF Of
    <3>2. \A n : n \in Of(options, P, x) <=> \E p \in Param : n \in In(options, P, x, p)
      BY DEF Of
    <3>3. \A n : n \in Of(options, Q, x) <=> (n \in Of(options, P, x) \/ (x = name /\ n = o))
      BY <2>2, <2>3, <3>1, <3>2
    <3> QED
      BY <3>3
  <2> HIDE DEF Q, option
  <2>5. /\ DOMAIN specs = 1 .. Len(specs) /\ Len(specs) \in Nat
        /\ DOMAIN new = DOMAIN specs \cup {k}
        /\ k \notin DOMAIN specs => k = Len(specs) + 1 /\ \A m \in DOMAIN specs : specs[m].name # name
        /\ new[k].name = name
        /\ \A m \in DOMAIN specs : new[m].name = specs[m].name
    BY <2>1 DEF Assigned, name
  <2>6. /\ \A m \in DOMAIN new : new[m].param = [ p \in Param |-> new[m].param[p] ]
        /\ \A m \in DOMAIN new : \A p \in Param :
             new[m].param[p] = IF m = k /\ p = param THEN value
                               ELSE IF m \in DOMAIN specs THEN specs[m].param[p]
                               ELSE InputSpec(0, "").param[p]
    BY <2>1 DEF Assigned, param, value
  <2>7. /\ \A x : Of(options, P, x) # {} <=> \E n \in DOMAIN specs : specs[n].name = x
        /\ \A n \in DOMAIN specs : \A p \in Param :
             specs[n].param[p] = GivenParam(options, P, specs[n].name, p)
        /\ \A m, n \in DOMAIN specs :
             m < n => \E a \in Of(options, P, specs[m].name) :
                        \A b \in Of(options, P, specs[n].name) : a < b
    BY DEF Says
  \* every input mentioned is there
  <2>8. \A x : Of(options, Q, x) # {} <=> \E n \in DOMAIN new : new[n].name = x
    <3> SUFFICES ASSUME NEW x PROVE Of(options, Q, x) # {} <=> \E n \in DOMAIN new : new[n].name = x
      OBVIOUS
    <3>1. CASE x = name
      BY <2>4, <2>5, <3>1
    <3>2. CASE x # name
      <4>1. Of(options, Q, x) = Of(options, P, x)
        BY <2>4, <3>2
      <4>2. (\E n \in DOMAIN new : new[n].name = x) <=> \E n \in DOMAIN specs : specs[n].name = x
        BY <2>5, <3>2
      <4> QED
        BY <2>7, <4>1, <4>2
    <3> QED
      BY <3>1, <3>2
  \* no other input has its name
  <2>9. \A n \in DOMAIN new : new[n].name = name => n = k
    <3>1. \A n \in DOMAIN specs : specs[n].name = name => n = k
      BY <2>5 DEF Merged
    <3> QED
      BY <2>5, <3>1
  <2>10. \A n \in DOMAIN new : \A p \in Param :
           new[n].param[p] = GivenParam(options, Q, new[n].name, p)
    <3> SUFFICES ASSUME NEW n \in DOMAIN new, NEW p \in Param
                 PROVE  new[n].param[p] = GivenParam(options, Q, new[n].name, p)
      OBVIOUS
    <3> DEFINE M == In(options, P, new[n].name, p)
    <3>1. CASE n = k /\ p = param
      <4>1. In(options, Q, new[n].name, p) = M \cup {o}
        BY <2>3, <2>5, <3>1
      <4>2. o \in Int /\ \A a \in M : a \in Int /\ a < o
        <5>1. M \subseteq P
          BY DEF In
        <5>2. \A a \in P : a \in Int /\ a < o
          OBVIOUS
        <5> HIDE DEF M
        <5> QED
          BY <5>1, <5>2
      <4> HIDE DEF M
      <4>3. LastIn(M \cup {o}) = o
        <5>1. \A a \in M \cup {o} : a \in Int /\ a <= o
          BY <4>2
        <5>2. \E last \in M \cup {o} : \A a \in M \cup {o} : a <= last
          BY <5>1
        <5>3. LastIn(M \cup {o}) \in M \cup {o} /\ o <= LastIn(M \cup {o})
          BY <5>2 DEF LastIn
        <5> QED
          BY <4>2, <5>3
      <4>4. GivenParam(options, Q, new[n].name, p) = value
        BY <4>1, <4>3 DEF GivenParam, value, option
      <4> QED
        BY <2>6, <3>1, <4>4
    <3>2. CASE ~ (n = k /\ p = param)
      <4>1. In(options, Q, new[n].name, p) = M
        <5>1. ~ (new[n].name = name /\ p = param)
          BY <2>9, <3>2
        <5>2. \A a : a \in In(options, Q, new[n].name, p) <=> a \in M
          BY <2>3, <5>1
        <5> HIDE DEF M
        <5> QED
          BY <5>2
      <4>2. GivenParam(options, Q, new[n].name, p) = GivenParam(options, P, new[n].name, p)
        <5> HIDE DEF M
        <5> QED
          BY <4>1 DEF GivenParam, M
      <4>3. CASE n \in DOMAIN specs
        <5>1. new[n].name = specs[n].name /\ new[n].param[p] = specs[n].param[p]
          BY <2>5, <2>6, <3>2, <4>3
        <5>2. specs[n].param[p] = GivenParam(options, P, specs[n].name, p)
          BY <2>7, <4>3
        <5> QED
          BY <4>2, <5>1, <5>2
      <4>4. CASE n \notin DOMAIN specs
        <5>1. n = k /\ new[n].name = name /\ Of(options, P, name) = {}
          BY <2>5, <2>7, <4>4
        <5>2. M = {}
          BY <5>1 DEF Of
        <5>3. GivenParam(options, P, new[n].name, p) = InputSpec(0, "").param[p]
          BY <5>2 DEF GivenParam
        <5> QED
          BY <2>6, <3>2, <4>2, <4>4, <5>3
      <4> QED
        BY <4>3, <4>4
    <3> QED
      BY <3>1, <3>2
  \* and they are in the order of first mention
  <2>11. \A m, n \in DOMAIN new :
           m < n => \E a \in Of(options, Q, new[m].name) : \A b \in Of(options, Q, new[n].name) : a < b
    <3> SUFFICES ASSUME NEW m \in DOMAIN new, NEW n \in DOMAIN new, m < n
                 PROVE  \E a \in Of(options, Q, new[m].name) :
                          \A b \in Of(options, Q, new[n].name) : a < b
      OBVIOUS
    <3>1. m \in DOMAIN specs
      BY <2>5
    <3>2. \A x : Of(options, P, x) \subseteq P
      BY DEF Of, In
    <3>3. CASE n \in DOMAIN specs
      <4>1. PICK a \in Of(options, P, specs[m].name) : \A b \in Of(options, P, specs[n].name) : a < b
        BY <2>7, <3>1, <3>3
      <4>2. a < o /\ a \in Of(options, Q, new[m].name)
        BY <2>4, <2>5, <3>1, <3>2, <4>1
      <4>3. \A b \in Of(options, Q, new[n].name) : b \in Of(options, P, specs[n].name) \/ b = o
        BY <2>4, <2>5, <3>3
      <4> QED
        BY <4>1, <4>2, <4>3
    <3>4. CASE n \notin DOMAIN specs
      <4>1. n = k /\ new[n].name = name /\ Of(options, P, name) = {}
        BY <2>5, <2>7, <3>4
      <4>2. Of(options, Q, new[n].name) = {o}
        BY <2>4, <4>1
      <4>3. PICK a : a \in Of(options, P, specs[m].name)
        BY <2>7, <3>1
      <4>4. a < o /\ a \in Of(options, Q, new[m].name)
        BY <2>4, <2>5, <3>1, <3>2, <4>3
      <4> QED
        BY <4>2, <4>4
    <3> QED
      BY <3>3, <3>4
  <2>12. Says(options, Q, new)
    BY <2>6, <2>8, <2>10, <2>11 DEF Says
  <2> QED
    BY <2>12 DEF Q, new, option
<1> QED
  BY <1>1, <1>2

-----------------------------------------------------------------------------
\* The options that boost does not know, of one source.
LEMMA UnregisteredSelects ==
  ASSUME NEW options \in Seq(Option), NEW known
  PROVE  /\ Unregistered(options, known) \in Seq(Option)
         /\ \E e : IsAt(e, options, { n \in 1 .. Len(options) : options[n].key \notin known },
                        Unregistered(options, known))
<1> DEFINE T == { n \in 1 .. Len(options) : options[n].key \notin known }
           pieces == [ n \in DOMAIN options |-> IF n \in T THEN << options[n] >> ELSE << >> ]
<1>1. pieces = [ n \in DOMAIN options |->
                   IF options[n].key \notin known THEN << options[n] >> ELSE << >> ]
  <2>1. DOMAIN options = 1 .. Len(options)
    OBVIOUS
  <2>2. \A n \in DOMAIN options : n \in T <=> options[n].key \notin known
    BY <2>1
  <2> HIDE DEF T
  <2> QED
    BY <2>2
<1>2. Unregistered(options, known) = FlattenSeq(pieces)
  BY <1>1 DEF Unregistered
<1>3. T \in SUBSET (1 .. Len(options))
  OBVIOUS
<1> HIDE DEF T
<1>4. FlattenSeq(pieces) \in Seq(Option) /\ \E e : IsAt(e, options, T, FlattenSeq(pieces))
  BY <1>3, FlattenSelects
<1> HIDE DEF pieces
<1> QED
  BY <1>2, <1>4 DEF T

\* The value of a key is that of the first option that has it.
HasFirst(options, key, n) ==
  n \in 1 .. Len(options) /\ options[n].key = key /\ \A m \in 1 .. n - 1 : options[m].key # key

ValueAt(options, n) == IF options[n].values = << >> THEN "" ELSE options[n].values[1]

LEMMA FirstUnique ==
  ASSUME NEW options, NEW key, NEW m, NEW n, HasFirst(options, key, m), HasFirst(options, key, n)
  PROVE  m = n
<1>1. m \in Int /\ n \in Int /\ 1 <= m /\ 1 <= n
  BY DEF HasFirst
<1>2. ~ (m < n) /\ ~ (n < m)
  <2>1. m < n => m \in 1 .. n - 1
    BY <1>1
  <2>2. n < m => n \in 1 .. m - 1
    BY <1>1
  <2> QED
    BY <2>1, <2>2 DEF HasFirst
<1> QED
  BY <1>1, <1>2

LEMMA FirstValue ==
  ASSUME NEW options \in Seq(Option), NEW key, key \in KeysOf(options)
  PROVE  \E n : HasFirst(options, key, n) /\ ValueIn(options, key) = ValueAt(options, n)
<1> DEFINE T == { n \in 1 .. Len(options) : options[n].key = key }
<1>1. T \subseteq Nat /\ T # {}
  BY DEF KeysOf
<1>2. PICK n \in T : \A m \in T : n <= m
  BY <1>1, NatMin
<1>3. n \in 1 .. Len(options) /\ options[n].key = key /\ Len(options) \in Nat
  BY <1>2
<1>4. \A m \in 1 .. n - 1 : options[m].key # key
  <2> SUFFICES ASSUME NEW m \in 1 .. n - 1, options[m].key = key PROVE FALSE
    OBVIOUS
  <2>1. m \in 1 .. Len(options) /\ ~ (n <= m)
    BY <1>3
  <2> QED
    BY <1>2, <2>1
<1> DEFINE first == CHOOSE k \in DOMAIN options :
                      options[k].key = key /\ \A m \in 1 .. k - 1 : options[m].key # key
<1>5. HasFirst(options, key, first)
  <2>1. n \in DOMAIN options
    BY <1>3
  <2>2. \E k \in DOMAIN options : options[k].key = key /\ \A m \in 1 .. k - 1 : options[m].key # key
    BY <1>3, <1>4, <2>1
  <2>3. first \in DOMAIN options /\ options[first].key = key
        /\ \A m \in 1 .. first - 1 : options[m].key # key
    BY <2>2
  <2> HIDE DEF first
  <2> QED
    BY <2>3 DEF HasFirst
<1>6. ValueIn(options, key) = ValueAt(options, first)
  BY DEF ValueIn, ValueAt
<1> QED
  BY <1>5, <1>6

LEMMA ValueInIs ==
  ASSUME NEW options \in Seq(Option), NEW key, NEW n, HasFirst(options, key, n)
  PROVE  ValueIn(options, key) = ValueAt(options, n)
<1>1. key \in KeysOf(options)
  BY DEF KeysOf, HasFirst
<1> QED
  BY <1>1, FirstValue, FirstUnique

LEMMA ValueNotNone ==
  ASSUME NEW options \in Seq(Option), NEW key, key \in KeysOf(options)
  PROVE  ValueIn(options, key) # None
<1>1. PICK n : HasFirst(options, key, n) /\ ValueIn(options, key) = ValueAt(options, n)
  BY FirstValue
<1>2. options[n] \in Option
  BY <1>1 DEF HasFirst
<1> DEFINE values == options[n].values
           S == STRING
<1>3. values \in Seq(S)
  BY <1>2 DEF Option
<1>4. None \notin S /\ None # ""
  BY StartupAssumption
<1> HIDE DEF values, S
<1>5. values # << >> => values[1] \in S
  BY <1>3
<1>6. ValueAt(options, n) = IF values = << >> THEN "" ELSE values[1]
  BY DEF ValueAt, values
<1>7. ValueAt(options, n) # None
  BY <1>4, <1>5, <1>6
<1> QED
  BY <1>1, <1>7

\* Of two sources, one after the other, the first that has a key decides.
LEMMA ValueInBoth ==
  ASSUME NEW s \in Seq(Option), NEW t \in Seq(Option), NEW key
  PROVE  /\ s \o t \in Seq(Option)
         /\ KeysOf(s \o t) = KeysOf(s) \cup KeysOf(t)
         /\ key \in KeysOf(s) => ValueIn(s \o t, key) = ValueIn(s, key)
         /\ key \in KeysOf(t) \ KeysOf(s) => ValueIn(s \o t, key) = ValueIn(t, key)
<1> DEFINE z == s \o t
           N == Len(s)
<1>1. /\ z \in Seq(Option) /\ N \in Nat /\ Len(t) \in Nat /\ Len(z) = N + Len(t)
      /\ \A n \in 1 .. N : z[n] = s[n]
      /\ \A n \in 1 .. Len(t) : z[N + n] = t[n]
      /\ DOMAIN s = 1 .. N /\ DOMAIN t = 1 .. Len(t) /\ DOMAIN z = 1 .. N + Len(t)
  OBVIOUS
<1> HIDE DEF z
<1>2. \A n \in 1 .. N + Len(t) : n \in 1 .. N \/ \E k \in 1 .. Len(t) : n = N + k
  <2> SUFFICES ASSUME NEW n \in 1 .. N + Len(t), n \notin 1 .. N PROVE \E k \in 1 .. Len(t) : n = N + k
    OBVIOUS
  <2>1. n - N \in 1 .. Len(t) /\ n = N + (n - N)
    BY <1>1
  <2> QED
    BY <2>1
<1>3. KeysOf(z) = KeysOf(s) \cup KeysOf(t)
  <2>1. ASSUME NEW k, k \in KeysOf(z) PROVE k \in KeysOf(s) \cup KeysOf(t)
    <3>1. PICK n \in 1 .. N + Len(t) : k = z[n].key
      BY <1>1, <2>1 DEF KeysOf
    <3>2. CASE n \in 1 .. N
      BY <1>1, <3>1, <3>2 DEF KeysOf
    <3>3. CASE n \notin 1 .. N
      <4>1. PICK i \in 1 .. Len(t) : n = N + i
        BY <1>2, <3>3
      <4> QED
        BY <1>1, <3>1, <4>1 DEF KeysOf
    <3> QED
      BY <3>2, <3>3
  <2>2. ASSUME NEW k, k \in KeysOf(s) PROVE k \in KeysOf(z)
    <3>1. PICK n \in 1 .. N : k = s[n].key
      BY <1>1, <2>2 DEF KeysOf
    <3>2. n \in DOMAIN z /\ z[n] = s[n]
      BY <1>1
    <3> QED
      BY <3>1, <3>2 DEF KeysOf
  <2>3. ASSUME NEW k, k \in KeysOf(t) PROVE k \in KeysOf(z)
    <3>1. PICK n \in 1 .. Len(t) : k = t[n].key
      BY <1>1, <2>3 DEF KeysOf
    <3>2. N + n \in DOMAIN z /\ z[N + n] = t[n]
      BY <1>1
    <3> QED
      BY <3>1, <3>2 DEF KeysOf
  <2> QED
    BY <2>1, <2>2, <2>3
<1>4. ASSUME key \in KeysOf(s) PROVE ValueIn(z, key) = ValueIn(s, key)
  <2>1. PICK n : HasFirst(s, key, n) /\ ValueIn(s, key) = ValueAt(s, n)
    BY <1>4, FirstValue
  <2>2. n \in 1 .. N /\ s[n].key = key /\ \A m \in 1 .. n - 1 : s[m].key # key
    BY <2>1 DEF HasFirst
  <2>3. n \in 1 .. Len(z) /\ z[n] = s[n] /\ \A m \in 1 .. n - 1 : m \in 1 .. N /\ z[m] = s[m]
    BY <1>1, <2>2
  <2>4. HasFirst(z, key, n)
    BY <2>2, <2>3 DEF HasFirst
  <2>5. ValueAt(z, n) = ValueAt(s, n)
    BY <2>3 DEF ValueAt
  <2> QED
    BY <1>1, <2>1, <2>4, <2>5, ValueInIs
<1>5. ASSUME key \in KeysOf(t), key \notin KeysOf(s) PROVE ValueIn(z, key) = ValueIn(t, key)
  <2>1. PICK n : HasFirst(t, key, n) /\ ValueIn(t, key) = ValueAt(t, n)
    BY <1>5, FirstValue
  <2>2. n \in 1 .. Len(t) /\ t[n].key = key /\ \A m \in 1 .. n - 1 : t[m].key # key
    BY <2>1 DEF HasFirst
  <2> DEFINE k == N + n
  <2>3. k \in 1 .. Len(z) /\ z[k] = t[n]
    BY <1>1, <2>2
  <2>4. \A m \in 1 .. k - 1 : z[m].key # key
    <3> SUFFICES ASSUME NEW m \in 1 .. k - 1 PROVE z[m].key # key
      OBVIOUS
    <3>1. CASE m \in 1 .. N
      <4>1. z[m] = s[m] /\ s[m].key \in KeysOf(s)
        BY <1>1, <3>1 DEF KeysOf
      <4> QED
        BY <1>5, <4>1
    <3>2. CASE m \notin 1 .. N
      <4>1. m - N \in 1 .. n - 1 /\ m - N \in 1 .. Len(t) /\ m = N + (m - N)
        BY <1>1, <2>2, <3>2
      <4>2. z[m] = t[m - N]
        BY <1>1, <4>1
      <4> QED
        BY <2>2, <4>1, <4>2
    <3> QED
      BY <3>1, <3>2
  <2> HIDE DEF k
  <2>5. HasFirst(z, key, k)
    BY <2>2, <2>3, <2>4 DEF HasFirst
  <2>6. ValueAt(z, k) = ValueAt(t, n)
    BY <2>3 DEF ValueAt
  <2> QED
    BY <1>1, <2>1, <2>5, <2>6, ValueInIs
<1> QED
  BY <1>1, <1>3, <1>4, <1>5 DEF z

-----------------------------------------------------------------------------
\* the options of both sources that are handed through
Unknown ==
  { n \in 1 .. Len(Options) :
      Options[n].key \notin (IF n <= Len(argv) THEN CommandLineKeys ELSE ConfigKeys) }

StartKey == << "starting-input" >>

\* what boost keeps of the option --starting-input of these options
Keeps(map, options) ==
  /\ StartKey \in DOMAIN map <=> StartKey \in KeysOf(options)
  /\ StartKey \in DOMAIN map => map[StartKey] = ValueIn(options, StartKey)

\* which of the options have been merged, while parse is at it
Merging ==
  /\ unrecognized \in Seq(Option)
  /\ \E T \in SUBSET Unknown :
       /\ \E e : IsAt(e, Options, T, unrecognized)
       /\ \A a \in Unknown \ T : \A b \in T : a < b
       /\ Says(Options, Unknown \ T, user_inputs)

GivenInv ==
  /\ argv \in Seq(Option) /\ file \in Seq(Option) \cup {None}
  /\ stage = "command line" => vm = << >>
  /\ stage \in {"command line", "configuration file"} => user_inputs = << >>
  /\ stage = "configuration file" =>
       vm = Store(<< >>, argv, CommandLineKeys) /\ unrecognized = Unregistered(argv, CommandLineKeys)
  /\ stage \in {"merge", "validate", "inputs", "select", "threads"} \/ Started =>
       Options \in Seq(Option) /\ Keeps(vm, Options)
  /\ stage = "merge" => Merging
  /\ stage \in {"validate", "inputs"} => Says(Options, Unknown, user_inputs)
  /\ stage = "threads" \/ Started =>
       \A k \in Kinds :
         inputs[current[k]].name = IF StartingInput = None THEN ClearName ELSE StartingInput

\* Without options there are no inputs.
LEMMA SaysNothing == \A options : Says(options, {}, << >>)
BY DEF Says, Of, In

LEMMA StoreKeeps ==
  ASSUME NEW options \in Seq(Option)
  PROVE  /\ Keeps(Store(<< >>, options, CommandLineKeys), options)
         /\ << "config-file" >> \in DOMAIN Store(<< >>, options, CommandLineKeys)
              <=> << "config-file" >> \in KeysOf(options)
<1>1. StartKey \in CommandLineKeys /\ << "config-file" >> \in CommandLineKeys
  BY DEF StartKey, CommandLineKeys, ConfigKeys
<1>2. DOMAIN Store(<< >>, options, CommandLineKeys) = KeysOf(options) \cap CommandLineKeys
  BY DEF Store
<1>3. StartKey \in KeysOf(options) =>
        Store(<< >>, options, CommandLineKeys)[StartKey] = ValueIn(options, StartKey)
  BY <1>1 DEF Store
<1> QED
  BY <1>1, <1>2, <1>3 DEF Keeps

LEMMA StoreKeepsBoth ==
  ASSUME NEW s \in Seq(Option), NEW t \in Seq(Option), NEW map, Keeps(map, s)
  PROVE  Keeps(Store(map, t, ConfigKeys), s \o t)
<1>1. StartKey \in ConfigKeys
  BY DEF StartKey, ConfigKeys
<1>2. DOMAIN Store(map, t, ConfigKeys) = DOMAIN map \cup (KeysOf(t) \cap ConfigKeys)
  BY DEF Store
<1>3. StartKey \in DOMAIN map \cup KeysOf(t) =>
        Store(map, t, ConfigKeys)[StartKey] =
          IF StartKey \in DOMAIN map THEN map[StartKey] ELSE ValueIn(t, StartKey)
  BY <1>1 DEF Store
<1> QED
  BY <1>1, <1>2, <1>3, ValueInBoth DEF Keeps

\* The two lists of options that boost does not know are, one after the other,
\* the list of them in both sources.
LEMMA UnknownSelected ==
  ASSUME argv \in Seq(Option), Options \in Seq(Option),
         NEW rest \in Seq(Option), Options = argv \o rest
  PROVE  /\ Unregistered(argv, CommandLineKeys) \o Unregistered(rest, ConfigKeys) \in Seq(Option)
         /\ \E e : IsAt(e, Options, Unknown,
                        Unregistered(argv, CommandLineKeys) \o Unregistered(rest, ConfigKeys))
<1> DEFINE A == { n \in 1 .. Len(argv) : argv[n].key \notin CommandLineKeys }
           B == { n \in 1 .. Len(rest) : rest[n].key \notin ConfigKeys }
           q == Unregistered(argv, CommandLineKeys)
           r == Unregistered(rest, ConfigKeys)
           N == Len(argv)
<1>1. q \in Seq(Option) /\ \E e : IsAt(e, argv, A, q)
  BY UnregisteredSelects
<1>2. r \in Seq(Option) /\ \E e : IsAt(e, rest, B, r)
  BY UnregisteredSelects
<1>3. Unknown = A \cup { N + n : n \in B }
  <2>1. /\ N \in Nat /\ Len(rest) \in Nat /\ Len(Options) = N + Len(rest)
        /\ \A n \in 1 .. N : Options[n] = argv[n]
        /\ \A n \in 1 .. Len(rest) : Options[N + n] = rest[n]
    OBVIOUS
  <2>2. ASSUME NEW n, n \in Unknown PROVE n \in A \cup { N + m : m \in B }
    <3>1. n \in 1 .. N + Len(rest)
      BY <2>1, <2>2 DEF Unknown
    <3>2. CASE n \in 1 .. N
      BY <2>1, <2>2, <3>2 DEF Unknown
    <3>3. CASE n \notin 1 .. N
      <4> DEFINE m == n - N
      <4>1. m \in 1 .. Len(rest) /\ n = N + m /\ ~ (n <= N)
        BY <2>1, <3>1, <3>3
      <4> HIDE DEF m
      <4>2. Options[n] = rest[m]
        BY <2>1, <4>1
      <4>3. m \in B
        BY <2>2, <4>1, <4>2 DEF Unknown
      <4> QED
        BY <4>1, <4>3
    <3> QED
      BY <3>2, <3>3
  <2>3. ASSUME NEW n \in A PROVE n \in Unknown
    <3>1. n \in 1 .. N /\ n \in 1 .. N + Len(rest) /\ n <= N
      BY <2>1
    <3> QED
      BY <2>1, <3>1 DEF Unknown
  <2>4. ASSUME NEW m \in B PROVE N + m \in Unknown
    <3>1. m \in 1 .. Len(rest) /\ N + m \in 1 .. N + Len(rest) /\ ~ (N + m <= N)
      BY <2>1
    <3> QED
      BY <2>1, <3>1 DEF Unknown
  <2> HIDE DEF A, B, N
  <2> QED
    BY <2>2, <2>3, <2>4
<1>4. A \in SUBSET (1 .. N) /\ B \in SUBSET (1 .. Len(rest))
  OBVIOUS
<1> HIDE DEF A, B
<1>5. PICK e : IsAt(e, argv, A, q)
  BY <1>1
<1>6. PICK f : IsAt(f, rest, B, r)
  BY <1>2
<1> HIDE DEF q, r
<1>7. \E g : IsAt(g, argv \o rest, A \cup { N + n : n \in B }, q \o r)
  BY <1>1, <1>2, <1>4, <1>5, <1>6, IsAtConcat
<1>8. q \o r \in Seq(Option)
  BY <1>1, <1>2
<1> HIDE DEF N
<1> QED
  BY <1>3, <1>7, <1>8 DEF q, r

-----------------------------------------------------------------------------
LEMMA InitGiven == StartupInit => GivenInv
<1> SUFFICES ASSUME StartupInit PROVE GivenInv
  OBVIOUS
<1>1. stage = "command line" /\ vm = << >> /\ user_inputs = << >> /\ main = "starting"
  BY DEF StartupInit
<1>2. argv \in Seq(Option) /\ file \in Seq(Option) \cup {None}
  <2>1. PICK start \in Starts : argv = start[1] /\ file = start[2]
    BY DEF StartupInit
  <2> QED
    BY <2>1, StartupAssumption
<1> QED
  BY <1>1, <1>2 DEF GivenInv, Started

\* What the options are does not change.
LEMMA GivenStays ==
  ASSUME UNCHANGED given
  PROVE  Options' = Options /\ Unknown' = Unknown /\ UNCHANGED << argv, file >>
<1>1. UNCHANGED << argv, file >>
  BY DEF given
<1>2. Options' = Options
  BY <1>1 DEF Options
<1>3. Unknown' = Unknown
  BY <1>1, <1>2 DEF Unknown
<1> QED
  BY <1>1, <1>2, <1>3

\* Once the threads run, all of this stays.
LEMMA NextGiven == StartupInv /\ GivenInv /\ [Next]_vars /\ UNCHANGED startup => GivenInv'
<1> SUFFICES ASSUME GivenInv, [Next]_vars, UNCHANGED startup PROVE GivenInv'
  OBVIOUS
<1>1. UNCHANGED given /\ UNCHANGED << stage, vm, unrecognized, user_inputs, inputs, current >>
  BY DEF startup, parsed, managed
<1>2. Options' = Options /\ Unknown' = Unknown /\ UNCHANGED << argv, file >>
  BY <1>1, GivenStays
<1>3. Started' => Started
  BY DEF Next, Run, Begin, Opened, Fail, Supervise, Notice, Return, Serve, Connect, ConnectFail,
         Listen, Accept, Request, SessionEnd, Aborted, Exit, Done, vars, Started
<1>4. StartingInput' = StartingInput
  BY <1>1 DEF StartingInput, Variable
<1>5. Merging => Merging'
  BY <1>1, <1>2 DEF Merging
<1> QED
  BY <1>1, <1>2, <1>3, <1>4, <1>5 DEF GivenInv

LEMMA CommandLineGiven == StartupInv /\ GivenInv /\ ReadCommandLine => GivenInv'
<1> SUFFICES ASSUME GivenInv, StartupInv, ReadCommandLine PROVE GivenInv'
  OBVIOUS
<1>1. stage = "command line" /\ stage' = "configuration file" /\ UNCHANGED given
      /\ UNCHANGED << main, user_inputs >>
      /\ vm' = Store(vm, argv, CommandLineKeys)
      /\ unrecognized' = Unregistered(argv, CommandLineKeys)
  BY DEF ReadCommandLine, Proceed, vars
<1>2. UNCHANGED << argv, file >> /\ argv \in Seq(Option) /\ file \in Seq(Option) \cup {None}
      /\ vm = << >> /\ user_inputs = << >>
  BY <1>1, GivenStays DEF GivenInv
<1>3. ~ Started'
  BY <1>1 DEF StartupInv, Started
<1> QED
  BY <1>1, <1>2, <1>3 DEF GivenInv

\* Nothing has been merged when both sources have been read.
LEMMA MergingStarts ==
  ASSUME NEW list \in Seq(Option), \E e : IsAt(e, Options, Unknown, list),
         unrecognized' = list, user_inputs' = << >>, Options' = Options, Unknown' = Unknown
  PROVE  Merging'
<1>1. Unknown \in SUBSET Unknown /\ Unknown \ Unknown = {}
  OBVIOUS
<1>2. Says(Options, Unknown \ Unknown, << >>)
  BY <1>1, SaysNothing
<1>3. PICK e : IsAt(e, Options, Unknown, list)
  OBVIOUS
<1>4. /\ IsAt(e, Options', Unknown, unrecognized')
      /\ \A a \in Unknown \ Unknown : \A b \in Unknown : a < b
      /\ Says(Options', Unknown \ Unknown, user_inputs')
  BY <1>1, <1>2, <1>3
<1> QED
  BY <1>4 DEF Merging

LEMMA ConfigurationFileGiven == StartupInv /\ GivenInv /\ ReadConfigurationFile => GivenInv'
<1> SUFFICES ASSUME GivenInv, StartupInv, ReadConfigurationFile PROVE GivenInv'
  OBVIOUS
<1>1. stage = "configuration file" /\ stage' = "merge" /\ UNCHANGED given
      /\ UNCHANGED << main, user_inputs >>
  BY DEF ReadConfigurationFile, Proceed, vars
<1>2. /\ UNCHANGED << argv, file >> /\ Options' = Options /\ Unknown' = Unknown
      /\ argv \in Seq(Option) /\ file \in Seq(Option) \cup {None} /\ user_inputs = << >>
      /\ vm = Store(<< >>, argv, CommandLineKeys)
      /\ unrecognized = Unregistered(argv, CommandLineKeys)
  BY <1>1, GivenStays DEF GivenInv
<1>3. Keeps(vm, argv) /\ (<< "config-file" >> \in DOMAIN vm <=> << "config-file" >> \in KeysOf(argv))
  BY <1>2, StoreKeeps
<1>4. ~ Started'
  BY <1>1 DEF StartupInv, Started
<1>5. Options \in Seq(Option) /\ Keeps(vm', Options) /\ Merging'
  <2>1. CASE << "config-file" >> \in DOMAIN vm
    <3>1. /\ file \in Seq(Option)
          /\ vm' = Store(vm, file, ConfigKeys)
          /\ unrecognized' = unrecognized \o Unregistered(file, ConfigKeys)
      BY <1>2, <2>1 DEF ReadConfigurationFile
    <3>2. Options = argv \o file
      BY <1>3, <2>1 DEF Options
    <3>3. Options \in Seq(Option)
      BY <1>2, <3>1, <3>2
    <3>4. Keeps(vm', Options)
      BY <1>2, <1>3, <3>1, <3>2, StoreKeepsBoth
    <3>5. /\ unrecognized' \in Seq(Option)
          /\ \E e : IsAt(e, Options, Unknown, unrecognized')
      BY <1>2, <3>1, <3>2, <3>3, UnknownSelected
    <3>6. PICK list : list = unrecognized'
      OBVIOUS
    <3>7. Merging'
      <4>1. list \in Seq(Option) /\ \E e : IsAt(e, Options, Unknown, list)
        BY <3>5, <3>6
      <4> QED
        BY <1>1, <1>2, <3>6, <4>1, MergingStarts
    <3> QED
      BY <3>3, <3>4, <3>7
  <2>2. CASE << "config-file" >> \notin DOMAIN vm
    <3>1. UNCHANGED << vm, unrecognized >>
      BY <2>2 DEF ReadConfigurationFile
    <3>2. Options = argv \o << >>
      BY <1>3, <2>2 DEF Options
    <3>3. Options = argv
      BY <1>2, <3>2
    <3>4. Unknown = { n \in 1 .. Len(argv) : argv[n].key \notin CommandLineKeys }
      BY <1>2, <3>3 DEF Unknown
    <3>5. /\ unrecognized \in Seq(Option)
          /\ \E e : IsAt(e, Options, Unknown, unrecognized)
      BY <1>2, <3>3, <3>4, UnregisteredSelects
    <3>6. PICK list : list = unrecognized
      OBVIOUS
    <3>7. Merging'
      <4>1. list \in Seq(Option) /\ \E e : IsAt(e, Options, Unknown, list)
        BY <3>5, <3>6
      <4> QED
        BY <1>1, <1>2, <3>1, <3>6, <4>1, MergingStarts
    <3> QED
      BY <1>2, <1>3, <3>1, <3>3, <3>7
  <2> QED
    BY <2>1, <2>2
<1> QED
  BY <1>1, <1>2, <1>4, <1>5 DEF GivenInv

LEMMA MergeOptionGiven == StartupInv /\ GivenInv /\ MergeOption => GivenInv'
<1> SUFFICES ASSUME GivenInv, StartupInv, MergeOption PROVE GivenInv'
  OBVIOUS
<1>1. /\ stage = "merge" /\ stage' = "merge" /\ UNCHANGED given /\ UNCHANGED << main, vm >>
      /\ unrecognized # << >> /\ WellFormed(Head(unrecognized))
      /\ user_inputs' = Merge(user_inputs, Head(unrecognized))
      /\ unrecognized' = Tail(unrecognized)
  BY DEF MergeOption, Proceed, vars
<1>2. /\ UNCHANGED << argv, file >> /\ Options' = Options /\ Unknown' = Unknown
      /\ argv \in Seq(Option) /\ file \in Seq(Option) \cup {None}
      /\ Options \in Seq(Option) /\ Keeps(vm, Options) /\ Merging
  BY <1>1, GivenStays DEF GivenInv
<1>3. ~ Started' /\ Merged(user_inputs)
  BY <1>1 DEF StartupInv, Started
<1>4. PICK T \in SUBSET Unknown :
        /\ unrecognized \in Seq(Option)
        /\ \E e : IsAt(e, Options, T, unrecognized)
        /\ \A a \in Unknown \ T : \A b \in T : a < b
        /\ Says(Options, Unknown \ T, user_inputs)
  BY <1>2 DEF Merging
<1>5. Unknown \in SUBSET (1 .. Len(Options))
  BY DEF Unknown
<1>6. PICK n \in T : /\ Head(unrecognized) = Options[n] /\ \A m \in T \ {n} : n < m
                     /\ \E f : IsAt(f, Options, T \ {n}, Tail(unrecognized))
  BY <1>1, <1>2, <1>4, <1>5, IsAtTail
<1>7. unrecognized' \in Seq(Option)
  BY <1>1, <1>4
<1>8. Unknown \ (T \ {n}) = (Unknown \ T) \cup {n}
  BY <1>4
<1>9. Says(Options, Unknown \ (T \ {n}), user_inputs')
  <2> DEFINE P == Unknown \ T
  <2>1. n \in 1 .. Len(Options) /\ P \in SUBSET (1 .. Len(Options)) /\ \A a \in P : a < n
    BY <1>4, <1>5
  <2>2. Says(Options, P, user_inputs)
    BY <1>4
  <2> HIDE DEF P
  <2>3. WellFormed(Options[n])
    BY <1>1, <1>6
  <2>4. Says(Options, P \cup {n}, Merge(user_inputs, Options[n]))
    BY <1>2, <1>3, <2>1, <2>2, <2>3, MergeSays
  <2> QED
    BY <1>1, <1>6, <1>8, <2>4 DEF P
<1>10. \A a \in Unknown \ (T \ {n}) : \A b \in T \ {n} : a < b
  BY <1>4, <1>6, <1>8
<1>11. Merging'
  <2>1. T \ {n} \in SUBSET Unknown'
    BY <1>2
  <2>2. \E e : IsAt(e, Options', T \ {n}, unrecognized')
    BY <1>1, <1>2, <1>6
  <2>3. Says(Options', Unknown' \ (T \ {n}), user_inputs')
    BY <1>2, <1>9
  <2>4. \A a \in Unknown' \ (T \ {n}) : \A b \in T \ {n} : a < b
    BY <1>2, <1>10
  <2> QED
    BY <1>7, <2>1, <2>2, <2>3, <2>4 DEF Merging
<1> QED
  BY <1>1, <1>2, <1>3, <1>11 DEF GivenInv

LEMMA ParsedGiven == StartupInv /\ GivenInv /\ Parsed => GivenInv'
<1> SUFFICES ASSUME GivenInv, StartupInv, Parsed PROVE GivenInv'
  OBVIOUS
<1>1. /\ stage = "merge" /\ stage' = "validate" /\ UNCHANGED given
      /\ UNCHANGED << main, vm, unrecognized, user_inputs >> /\ unrecognized = << >>
  BY DEF Parsed, Proceed, vars, parsed
<1>2. /\ UNCHANGED << argv, file >> /\ Options' = Options /\ Unknown' = Unknown
      /\ argv \in Seq(Option) /\ file \in Seq(Option) \cup {None}
      /\ Options \in Seq(Option) /\ Keeps(vm, Options) /\ Merging
  BY <1>1, GivenStays DEF GivenInv
<1>3. ~ Started'
  BY <1>1 DEF StartupInv, Started
<1>4. PICK T \in SUBSET Unknown :
        (\E e : IsAt(e, Options, T, << >>)) /\ Says(Options, Unknown \ T, user_inputs)
  BY <1>1, <1>2 DEF Merging
<1>5. T = {}
  BY <1>4 DEF IsAt
<1>6. Unknown \ T = Unknown
  BY <1>5
<1>7. Says(Options', Unknown', user_inputs')
  BY <1>1, <1>2, <1>4, <1>6
<1> QED
  BY <1>1, <1>2, <1>3, <1>7 DEF GivenInv

LEMMA ValidateGiven == StartupInv /\ GivenInv /\ (Validate \/ CreateInputs) => GivenInv'
<1> SUFFICES ASSUME GivenInv, StartupInv, Validate \/ CreateInputs PROVE GivenInv'
  OBVIOUS
<1>1. /\ UNCHANGED given /\ UNCHANGED << main, vm >>
      /\ \/ stage = "validate" /\ stage' = "inputs" /\ UNCHANGED user_inputs
         \/ stage = "inputs" /\ stage' = "select"
  BY DEF Validate, CreateInputs, Proceed, vars, parsed
<1>2. /\ UNCHANGED << argv, file >> /\ Options' = Options /\ Unknown' = Unknown
      /\ argv \in Seq(Option) /\ file \in Seq(Option) \cup {None}
      /\ Options \in Seq(Option) /\ Keeps(vm, Options) /\ Says(Options, Unknown, user_inputs)
  BY <1>1, GivenStays DEF GivenInv
<1>3. ~ Started'
  BY <1>1 DEF StartupInv, Started
<1> QED
  BY <1>1, <1>2, <1>3 DEF GivenInv

LEMMA SelectInputsGiven == StartupInv /\ GivenInv /\ SelectInputs => GivenInv'
<1> SUFFICES ASSUME GivenInv, StartupInv, SelectInputs PROVE GivenInv'
  OBVIOUS
<1>1. /\ stage = "select" /\ stage' = "threads" /\ UNCHANGED given
      /\ UNCHANGED << main, vm, unrecognized, user_inputs, inputs >>
  BY DEF SelectInputs, Proceed, vars, parsed
<1>2. /\ UNCHANGED << argv, file >> /\ Options' = Options /\ Unknown' = Unknown
      /\ argv \in Seq(Option) /\ file \in Seq(Option) \cup {None}
      /\ Options \in Seq(Option) /\ Keeps(vm, Options)
  BY <1>1, GivenStays DEF GivenInv
<1>3. Merged(user_inputs) /\ Complete(user_inputs) /\ Mapped(user_inputs, inputs)
      /\ \A k \in Kinds : current[k] = 0
  BY <1>1 DEF StartupInv
<1>4. \A k \in Kinds :
        inputs[current'[k]].name = IF StartingInput = None THEN ClearName ELSE StartingInput
  <2>1. CASE StartingInput = None
    <3>1. current' = current /\ inputs[0].name = ClearName
      BY <1>3, <2>1 DEF SelectInputs, Mapped, ClearInput, InputSpec
    <3> QED
      BY <1>3, <2>1, <3>1
  <2>2. CASE StartingInput # None
    <3>1. PICK id \in DOMAIN inputs : inputs[id].name = StartingInput
      BY <2>2 DEF SelectInputs, Named
    <3>2. Named(StartingInput) = {id}
      BY <1>3, <3>1, NamesFound
    <3>3. id \in Int
      BY <1>3, <3>1 DEF Mapped
    <3>4. get_input_by_name(StartingInput) = id
      BY <3>2, <3>3, FoundByName
    <3>5. current' = [ k \in Kinds |-> get_input_by_name(StartingInput) ]
      BY <2>2 DEF SelectInputs
    <3> QED
      BY <2>2, <3>1, <3>4, <3>5
  <2> QED
    BY <2>1, <2>2
<1>5. StartingInput' = StartingInput
  BY <1>1 DEF StartingInput, Variable
<1> QED
  BY <1>1, <1>2, <1>4, <1>5 DEF GivenInv

LEMMA StartThreadsGiven == StartupInv /\ GivenInv /\ StartThreads => GivenInv'
<1> SUFFICES ASSUME GivenInv, StartupInv, StartThreads PROVE GivenInv'
  OBVIOUS
<1>1. /\ stage = "threads" /\ stage' = "end" /\ UNCHANGED given
      /\ UNCHANGED << vm, unrecognized, user_inputs, inputs, current >>
  BY DEF StartThreads, parsed, managed
<1>2. /\ UNCHANGED << argv, file >> /\ Options' = Options /\ Unknown' = Unknown
      /\ argv \in Seq(Option) /\ file \in Seq(Option) \cup {None}
      /\ Options \in Seq(Option) /\ Keeps(vm, Options)
  BY <1>1, GivenStays DEF GivenInv
<1>3. StartingInput' = StartingInput
  BY <1>1 DEF StartingInput, Variable
<1>4. \A k \in Kinds :
        inputs[current[k]].name = IF StartingInput = None THEN ClearName ELSE StartingInput
  BY <1>1 DEF GivenInv
<1> QED
  BY <1>1, <1>2, <1>3, <1>4 DEF GivenInv

LEMMA MainGiven == StartupInv /\ GivenInv /\ Main => GivenInv'
<1> SUFFICES ASSUME StartupInv, GivenInv, Main PROVE GivenInv'
  OBVIOUS
<1>1. CASE ShowHelp \/ Throws \/ Refuse
  <2>1. main' \in {"done", "failed"} /\ stage' = "end" /\ UNCHANGED given
    BY <1>1 DEF ShowHelp, Throws, Refuse, End
  <2>2. UNCHANGED << argv, file >>
    BY <2>1 DEF given
  <2> QED
    BY <2>1, <2>2 DEF GivenInv, Started
<1> QED
  BY <1>1, CommandLineGiven, ConfigurationFileGiven, MergeOptionGiven, ParsedGiven, ValidateGiven,
     SelectInputsGiven, StartThreadsGiven DEF Main

LEMMA GivenInvariant == StartupSpec => []GivenInv
<1>1. StartupInv /\ GivenInv /\ [StartupNext]_allVars => GivenInv'
  <2>1. UNCHANGED allVars => [Next]_vars /\ UNCHANGED startup
    BY DEF allVars
  <2> QED
    BY <2>1, NextGiven, MainGiven DEF StartupNext
<1> QED
  BY <1>1, InitGiven, StartupInvariant, PTL DEF StartupSpec

\* An option of an input that is among the keys of no source is one that
\* boost does not know, wherever it stands.
LEMMA MentionsIn ==
  \A name, p : Mentions(name, p) = In(Options, Unknown, name, p)
<1> SUFFICES ASSUME NEW name, NEW p PROVE Mentions(name, p) = In(Options, Unknown, name, p)
  OBVIOUS
<1>1. << "input", name, p >> \in CommandLineKeys <=> << "input", name, p >> \in ConfigKeys
  <2>1. /\ Len(<< "input", name, p >>) = 3
        /\ Len(<< "config-file" >>) = 1 /\ Len(<< "help" >>) = 1 /\ Len(<< "version" >>) = 1
    OBVIOUS
  <2>2. << "input", name, p >> \notin { << "config-file" >>, << "help" >>, << "version" >> }
    BY <2>1
  <2> QED
    BY <2>2 DEF CommandLineKeys
<1> QED
  BY <1>1 DEF Mentions, In, Unknown

\* For any command line and any configuration file: parse makes one input of
\* all options with its name, in the order of first mention, and the last
\* value given for a parameter is the one it has.
THEOREM InputsAreAsGiven == StartupSpec => []InputsAsGiven
<1>1. GivenInv => InputsAsGiven
  <2> SUFFICES ASSUME GivenInv, stage \in {"validate", "inputs"} PROVE InputsAsGiven
    BY DEF InputsAsGiven
  <2>1. Says(Options, Unknown, user_inputs)
    BY DEF GivenInv
  <2>2. \A name : Mentioned(name) = Of(Options, Unknown, name)
    BY MentionsIn DEF Mentioned, Of
  <2>3. \A name : Mentioned(name) # {} <=> \E n \in DOMAIN user_inputs : user_inputs[n].name = name
    BY <2>1, <2>2 DEF Says
  <2>4. \A m, n \in DOMAIN user_inputs :
          m < n => \E a \in Mentioned(user_inputs[m].name) :
                     \A b \in Mentioned(user_inputs[n].name) : a < b
    BY <2>1, <2>2 DEF Says
  <2>5. ASSUME NEW n \in DOMAIN user_inputs, NEW p \in Param
        PROVE  LET M == Mentions(user_inputs[n].name, p)
               IN  user_inputs[n].param[p] =
                     IF M = {} THEN InputSpec(n, "").param[p]
                     ELSE Options[CHOOSE last \in M : \A m \in M : m <= last].values[1]
    <3> DEFINE M == Mentions(user_inputs[n].name, p)
    <3>1. user_inputs[n].param[p] = GivenParam(Options, Unknown, user_inputs[n].name, p)
      BY <2>1 DEF Says
    <3>2. M = In(Options, Unknown, user_inputs[n].name, p)
      BY MentionsIn
    <3>3. InputSpec(n, "").param[p] = InputSpec(0, "").param[p]
      BY DEF InputSpec
    <3> HIDE DEF M
    <3>4. GivenParam(Options, Unknown, user_inputs[n].name, p) =
            IF M = {} THEN InputSpec(n, "").param[p] ELSE Options[LastIn(M)].values[1]
      BY <3>2, <3>3 DEF GivenParam
    <3> QED
      BY <3>1, <3>4 DEF M, LastIn
  <2> QED
    BY <2>3, <2>4, <2>5 DEF InputsAsGiven
<1> QED
  BY <1>1, GivenInvariant, PTL

\* What the code does with the starting input, and with every other option that
\* boost knows: the command line goes before the file, not after it as the README
\* has it (FileHasPriority), since store leaves alone what an earlier one has set
\* (program_options.cpp, line 153).
FirstSourceDecides ==
  main \notin {"starting", "failed", "done"} =>
    \A k \in Kinds :
      inputs[current[k]].name =
        IF << "starting-input" >> \in KeysOf(Options) THEN ValueIn(Options, << "starting-input" >>)
        ELSE ClearName

\* For any command line and any configuration file: the process begins with
\* the input that --starting-input names first, for all kinds of metadata, and
\* without the option with the clear input (main.cpp, lines 52-59).
THEOREM ProcessStartsAsFirstAsked == StartupSpec => []FirstSourceDecides
<1>1. StartupInv /\ GivenInv => FirstSourceDecides
  <2> SUFFICES ASSUME StartupInv, GivenInv, Started PROVE FirstSourceDecides
    BY DEF StartupInv, FirstSourceDecides, Started
  <2>1. /\ Options \in Seq(Option) /\ Keeps(vm, Options)
        /\ \A k \in Kinds :
             inputs[current[k]].name = IF StartingInput = None THEN ClearName ELSE StartingInput
    BY DEF GivenInv
  <2>2. CASE StartKey \in KeysOf(Options)
    <3>1. StartingInput = ValueIn(Options, StartKey)
      BY <2>1, <2>2 DEF Keeps, StartingInput, Variable, StartKey
    <3>2. StartingInput # None
      BY <2>1, <2>2, <3>1, ValueNotNone
    <3> QED
      BY <2>1, <2>2, <3>1, <3>2 DEF FirstSourceDecides, StartKey
  <2>3. CASE StartKey \notin KeysOf(Options)
    <3>1. StartingInput = None
      BY <2>1, <2>3 DEF Keeps, StartingInput, Variable, StartKey
    <3> QED
      BY <2>1, <2>3, <3>1 DEF FirstSourceDecides, StartKey
  <2> QED
    BY <2>2, <2>3
<1> QED
  BY <1>1, StartupInvariant, GivenInvariant, PTL
=============================================================================

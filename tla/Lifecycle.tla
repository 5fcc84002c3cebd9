------------------------------ MODULE Lifecycle ------------------------------
(***************************************************************************)
(* The life of the process: the threads that main (src/main.cpp) starts    *)
(* and waits for, how supervised (src/supervisor.h) keeps them running,    *)
(* how a restart request gets from the controller to an extractor, and how *)
(* the controller learns that everything else is over.                     *)
(*                                                                         *)
(*   primary threads   the extractors and the injector                     *)
(*   secondary thread  the controller, a REST server on one thread         *)
(*                                                                         *)
(* What happens inside a run of a primary thread is in Mixer.tla and       *)
(* RemuxLoop.tla; here a run opens its source, streams, and ends.  What    *)
(* main does before it starts the threads is in Startup.tla.               *)
(***************************************************************************)
EXTENDS Naturals

CONSTANTS
  UserInput,     \* the names of user-defined inputs, each with an extractor
  Output         \* the injector

ASSUME LifecycleAssumption == Output \notin UserInput

Primary == UserInput \cup {Output}

VARIABLES
  norestart,  \* ProgramOptions::norestart, which no thread changes
  main,       \* main's thread
  th,         \* the primary threads
  ctl,        \* the controller
  restart,    \* m_restart_scheduled of every input
  asked       \* history: a restart was requested since the source was last opened

vars == << norestart, main, th, ctl, restart, asked >>

TypeOK ==
  /\ norestart \in BOOLEAN
  /\ main \in {"starting", "running", "waiting", "done", "failed"}
  /\ th \in [Primary -> {"none", "start", "open", "stream", "break", "cleanup", "over"}]
  /\ ctl \in {"none", "start", "connected", "accept", "session", "aborted", "over"}
  /\ restart \in [UserInput -> BOOLEAN]
  /\ asked \in [UserInput -> BOOLEAN]

\* main has started the controller, the extractors of the inputs that there
\* are, one at least, and the injector
Init ==
  /\ norestart \in BOOLEAN
  /\ main = "running"
  /\ \E inputs \in SUBSET UserInput \ {{}} :
       th = [ p \in Primary |-> IF p \in inputs \cup {Output} THEN "start" ELSE "none" ]
  /\ ctl = "start"
  /\ restart = [ i \in UserInput |-> FALSE ]
  /\ asked = [ i \in UserInput |-> FALSE ]

\* what supervised does when the function it runs returns or throws
Supervised == IF norestart THEN "over" ELSE "start"

-----------------------------------------------------------------------------
(***************************************************************************)
(* The primary threads.                                                    *)
(***************************************************************************)
To(p, from, to) == th[p] = from /\ th' = [ th EXCEPT ![p] = to ]

\* mutant of Begin: the request is forgotten only when the source is open
BeginKeeping(p) ==
  /\ To(p, "start", "open")
  /\ asked' = [ i \in UserInput |-> asked[i] /\ i # p ]
  /\ UNCHANGED << norestart, main, ctl, restart >>

\* mutant of Opened: requests made while the source was opened are forgotten
OpenedForgetting(p) ==
  /\ To(p, "open", "stream")
  /\ restart' = [ i \in UserInput |-> restart[i] /\ i # p ]
  /\ UNCHANGED << norestart, main, ctl, asked >>

\* The function starts.  An extractor forgets the requests made so far, and
\* goes on to connect to its source.
Begin(p) ==
  /\ To(p, "start", "open")
  /\ restart' = [ i \in UserInput |-> restart[i] /\ i # p ]
  /\ asked' = [ i \in UserInput |-> asked[i] /\ i # p ]
  /\ UNCHANGED << norestart, main, ctl >>

\* source and sink are open, the header is written
Opened(p) ==
  /\ To(p, "open", "stream")
  /\ UNCHANGED << norestart, main, ctl, restart, asked >>

\* MaintenanceProcessor sees a packet of the time source; the packets at
\* which it sees no request change nothing
Notice(i) ==
  /\ restart[i]
  /\ To(i, "stream", "break")
  /\ UNCHANGED << norestart, main, ctl, restart, asked >>

\* that packet has been written, or not: remux_loop returns
Return(i) ==
  /\ To(i, "break", "cleanup")
  /\ UNCHANGED << norestart, main, ctl, restart, asked >>

\* the source or the sink cannot be opened, fails, or ends
Fail(p) ==
  /\ To(p, "open", "cleanup") \/ To(p, "stream", "cleanup")
  /\ UNCHANGED << norestart, main, ctl, restart, asked >>

\* the scope of the function ends, and with it the run
Supervise(p) ==
  /\ To(p, "cleanup", Supervised)
  /\ UNCHANGED << norestart, main, ctl, restart, asked >>

Run(p) ==
  \/ Begin(p) \/ Opened(p) \/ Fail(p) \/ Supervise(p)
  \/ p \in UserInput /\ (Notice(p) \/ Return(p))

-----------------------------------------------------------------------------
(***************************************************************************)
(* The controller.                                                         *)
(***************************************************************************)
CtlTo(from, to) == ctl = from /\ ctl' = to

\* the acceptor is bound to its port, and the slot connected to on_exit
Connect ==
  /\ CtlTo("start", "connected")
  /\ UNCHANGED << norestart, main, th, restart, asked >>

\* the port is taken
ConnectFail ==
  /\ CtlTo("start", Supervised)
  /\ UNCHANGED << norestart, main, th, restart, asked >>

\* listen, do_accept, ioc.run
Listen ==
  /\ CtlTo("connected", "accept")
  /\ UNCHANGED << norestart, main, th, restart, asked >>

\* a client connects: the handler runs its session to the end
Accept ==
  /\ CtlTo("accept", "session")
  /\ UNCHANGED << norestart, main, th, restart, asked >>

\* mutant of Request: the request is scheduled for every thread
RequestEveryone(i) ==
  /\ ctl = "session"
  /\ th[i] # "none"
  /\ restart' = [ p \in Primary |-> TRUE ]
  /\ asked' = [ asked EXCEPT ![i] = TRUE ]
  /\ UNCHANGED << norestart, main, th, ctl >>

\* POST /input/restart of an input that exists
Request(i) ==
  /\ ctl = "session"
  /\ th[i] # "none"
  /\ restart' = [ restart EXCEPT ![i] = TRUE ]
  /\ asked' = [ asked EXCEPT ![i] = TRUE ]
  /\ UNCHANGED << norestart, main, th, ctl >>

\* the client is done: do_accept again
SessionEnd ==
  /\ CtlTo("session", "accept")
  /\ UNCHANGED << norestart, main, th, restart, asked >>

\* mutant of Aborted: the handler accepts again whatever the error
AbortedAgain ==
  /\ CtlTo("aborted", "accept")
  /\ UNCHANGED << norestart, main, th, restart, asked >>

\* the handler finds operation_aborted: ioc.run has no more work
Aborted ==
  /\ CtlTo("aborted", Supervised)
  /\ UNCHANGED << norestart, main, th, restart, asked >>

Serve ==
  \/ Connect \/ ConnectFail \/ Listen \/ Accept
  \/ \E i \in UserInput : Request(i)
  \/ SessionEnd \/ Aborted

-----------------------------------------------------------------------------
(***************************************************************************)
(* main.                                                                   *)
(***************************************************************************)

\* Every primary thread has been joined: ctx->exit() calls the slots that
\* are connected.  The controller's cancels the accept, if there is one.
Exit ==
  /\ main = "running"
  /\ \A p \in Primary : th[p] \in {"none", "over"}
  /\ main' = "waiting"
  /\ ctl' = IF ctl = "accept" THEN "aborted" ELSE ctl
  /\ UNCHANGED << norestart, th, restart, asked >>

\* the controller has been joined
Done ==
  /\ main = "waiting"
  /\ ctl = "over"
  /\ main' = "done"
  /\ UNCHANGED << norestart, th, ctl, restart, asked >>

Next == (\E p \in Primary : Run(p)) \/ Serve \/ Exit \/ Done

Spec == Init /\ [][Next]_vars

(***************************************************************************)
(* No thread waits for another one except main, so all of them run.  Of    *)
(* the world outside is assumed: opening a source ends one way or another, *)
(* a source that does not fail keeps sending packets of its time source,   *)
(* and every client ends its session.  A stream need never fail or end.    *)
(***************************************************************************)
Fairness ==
  /\ \A p \in Primary :
       /\ WF_vars(Begin(p)) /\ WF_vars(Supervise(p))
       /\ WF_vars(th[p] = "open" /\ (Opened(p) \/ Fail(p)))
  /\ \A i \in UserInput : WF_vars(Notice(i)) /\ WF_vars(Return(i))
  /\ WF_vars(Connect \/ ConnectFail) /\ WF_vars(Listen)
  /\ WF_vars(SessionEnd) /\ WF_vars(Aborted)
  /\ WF_vars(Exit) /\ WF_vars(Done)

FairSpec == Spec /\ Fairness

-----------------------------------------------------------------------------
\* POST /input/restart forces the input to restart (README.md, line 373), at
\* whatever point of its run the extractor is: its source is opened anew.
RestartHonoured == \A i \in UserInput : asked[i] /\ ~ norestart ~> ~ asked[i]

\* One request restarts an input once: a run is only broken off when a
\* restart was requested after it began, however long ago it was opened.
OneRestartPerRequest == \A i \in UserInput : th[i] = "break" => asked[i]

\* Once the exit signal has stopped the controller's accept, the process ends.
StoppedEnds == ctl = "aborted" ~> main = "done"

\* "Primary threads finished, let signal secondary threads that out time has
\* end" (main.cpp, line 87): then the process ends.
Terminates == main = "waiting" ~> main = "done"
=============================================================================

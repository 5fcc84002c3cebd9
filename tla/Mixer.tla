-------------------------------- MODULE Mixer --------------------------------
(***************************************************************************)
(* The mixing core of Metamix: the extractor threads of the user inputs,   *)
(* the injector thread of the output, the REST controller that steers      *)
(* them, and what they share: the closed-caption metadata queue, the       *)
(* system clock, the current input, the timestamp adjustment and the       *)
(* restart requests.                                                       *)
(*                                                                         *)
(*   extractor i   src/proc/extractor.cpp, src/user_defined_input.{h,cpp}  *)
(*   injector      src/proc/injector.cpp, src/clear_input.cpp              *)
(*   controller    src/input_manager.h, src/application_context.cpp        *)
(*   queue         MetadataQueue.tla      clock   OutputClock.tla          *)
(*                                                                         *)
(* Every access of a thread to shared state is a step of its own, so the   *)
(* threads interleave wherever the code lets them.  All threads run under  *)
(* supervised(.., restart = true): one that fails starts over.             *)
(*                                                                         *)
(* The queue of ad markers (ScteKind) is not modelled here: nothing reads  *)
(* it, and no step below depends on it.                                    *)
(***************************************************************************)
EXTENDS OutputClock, MetadataHeap

CONSTANTS
  UserInput,          \* ids of the user-defined inputs
  Restarted,          \* the inputs the controller may be asked to restart
  Adjustment,         \* the timestamp adjustments the controller may set
  PtsStep,            \* possible distances between two packets of the output source
  CaptionsPerFrame,   \* possible numbers of caption SEIs in a packet of an input
  Faulty,             \* can an output packet be lost or be malformed?
  MinTS,              \* the lowest timestamp, std::numeric_limits<TS>::min()
  MaxClock,           \* bound: the system clock
  MaxFrame,           \* bound: packets in a run of an input source
  MaxExtractorRuns,   \* bound: runs of each extractor
  MaxInjectorRuns,    \* bound: runs of the injector
  Capacity            \* bound: items in the queue

Clear == 0            \* the id of the virtual input `clear`
Input == {Clear} \cup UserInput
NoInput == -1         \* std::nullopt of an optional input id

ASSUME MixerAssumption ==
  /\ UserInput \subseteq Nat \ {Clear}
  /\ Restarted \subseteq UserInput
  /\ Adjustment \subseteq Int
  /\ PtsStep \subseteq Int
  /\ CaptionsPerFrame \subseteq Nat
  /\ Faulty \in BOOLEAN
  /\ MinTS \in Int
  /\ { MaxClock, MaxFrame, MaxExtractorRuns, MaxInjectorRuns, Capacity } \subseteq Nat

(***************************************************************************)
(* A metadata item.  Apart from what the queue sorts by it says whether it *)
(* is a caption or a CC reset, which is to clear the captions before it.   *)
(* run and due are not in the program: the run of the extractor that       *)
(* produced a caption, and the moment of the output at which it belongs    *)
(* (the output's time when that run opened its source, plus the caption's  *)
(* distance from the first packet).  written and lost below are not in the *)
(* program either: they stand for the messages in the output, in their     *)
(* order.  What a reader finds of the messages in one packet is the        *)
(* subject of Packets, and is less (CaptionsArrive there).                 *)
(***************************************************************************)
Item ==
  [ id : Input, pts : Int, order : Int, kind : {"caption", "reset"},
    run : Nat, due : Int ]

\* build_cc_reset_metadata; its order INT_MIN puts it before every caption
Reset(id, ts) ==
  [ id |-> id, pts |-> ts, order |-> -1, kind |-> "reset", run |-> 0, due |-> ts ]

VARIABLES
  \* clock, last, rescaler: OutputClock, driven by the injector
  q, job, out,    \* the queue of SeiKind, see MetadataQueue
  current,        \* CurrentInputsIds::sei
  adjustment,     \* ApplicationContext::m_ts_adjustment
  restart,        \* UserDefinedInput::m_restart_scheduled of every input
  ext,            \* the extractor threads
  inj,            \* the injector thread
  found,          \* found_sei_metadata of the packet the injector works on
  written,        \* the last item that has been written to the output
  lost,           \* has a CC reset been lost that no later one made up for?
  outTime         \* the latest output packet's time on the injector's timeline

queueVars == << q, job, out >>
controlVars == << current, adjustment, restart >>
outputVars == << inj, found, written, lost, outTime >>
vars == << clockVars, queueVars, controlVars, ext, outputVars >>

Queue == INSTANCE MetadataQueue WITH TS <- Int

Extractor ==
  [ pc : {"start", "open", "stream", "sei", "drop", "now", "reset"},
    rescaler : Rescaler,     \* SeiExtractor::pts_rescaler
    frame : Nat,             \* pts of the latest packet
    todo : Nat,              \* caption SEIs of the packet still to be pushed
    order : Nat,             \* and how many were
    brk : BOOLEAN,           \* MaintenanceProcessor asked to stop after this packet
    resetAt : Int,           \* pts of the CC reset of post_exit
    runs : Nat,              \* runs so far
    opened : Int ]           \* outTime when this run opened its source

Injector ==
  [ pc : {"start", "idle", "ticked", "adjusted", "clear", "query", "pop", "emit"},
    rescaler : Rescaler,                   \* SeiInjector::pts_rescaler
    pts : Int,                             \* pkt.pts
    ts : Int,                              \* rescaled_pts
    since : Int,                           \* SeiInjector::prev_pts
    prev : Input \cup {NoInput},           \* SeiInjector::prev_input_id
    input : Input \cup {NoInput},          \* input_id
    shift : Int,                           \* the adjustment rescaled_pts was made with
    runs : Nat ]                           \* runs so far

\* a thread before and after a run of its function: no locals
ExtractorAt(pc, runs) ==
  [ pc |-> pc, rescaler |-> ClockRelative(0), frame |-> 0, todo |-> 0, order |-> 0,
    brk |-> FALSE, resetAt |-> 0, runs |-> runs, opened |-> 0 ]

InjectorAt(pc, runs) ==
  [ pc |-> pc, rescaler |-> ClockRelative(0), pts |-> 0, ts |-> 0, since |-> MinTS,
    prev |-> NoInput, input |-> NoInput, shift |-> 0, runs |-> runs ]

TypeOK ==
  /\ ClockTypeOK
  /\ Queue!TypeOK
  /\ current \in Input
  /\ adjustment \in Int
  /\ restart \in [UserInput -> BOOLEAN]
  /\ ext \in [UserInput -> Extractor]
  /\ inj \in Injector
  /\ found \in Seq(Item)
  /\ written \in Item
  /\ lost \in BOOLEAN
  /\ outTime \in Int

Init ==
  /\ ClockInit
  /\ Queue!Init
  /\ current \in Input
  /\ adjustment \in Adjustment
  /\ restart = [ i \in UserInput |-> FALSE ]
  /\ ext = [ i \in UserInput |-> ExtractorAt("start", 0) ]
  /\ inj = InjectorAt("start", 0)
  /\ found = << >>
  /\ written = Reset(Clear, 0)
  /\ lost = FALSE
  /\ outTime = 0

-----------------------------------------------------------------------------
(***************************************************************************)
(* The controller: the handlers of POST /input/current, /config and        *)
(* /input/restart.                                                         *)
(***************************************************************************)
SetCurrentInput(i) ==
  /\ current' = i
  /\ UNCHANGED << clockVars, queueVars, adjustment, restart, ext, outputVars >>

SetAdjustment(value) ==
  /\ adjustment' = value
  /\ UNCHANGED << clockVars, queueVars, current, restart, ext, outputVars >>

ScheduleRestart(i) ==
  /\ restart' = [ restart EXCEPT ![i] = TRUE ]
  /\ UNCHANGED << clockVars, queueVars, current, adjustment, ext, outputVars >>

Controller ==
  \/ \E i \in Input : SetCurrentInput(i)
  \/ \E value \in Adjustment : SetAdjustment(value)
  \/ \E i \in Restarted : ScheduleRestart(i)

-----------------------------------------------------------------------------
(***************************************************************************)
(* The extractor of input i.                                               *)
(***************************************************************************)

\* extractor(): a request made before this point is forgotten
ExtStart(i) ==
  /\ ext[i].pc = "start"
  /\ ext[i].runs < MaxExtractorRuns
  /\ ext' = [ ext EXCEPT ![i].pc = "open", ![i].runs = @ + 1 ]
  /\ restart' = [ restart EXCEPT ![i] = FALSE ]
  /\ UNCHANGED << clockVars, queueVars, current, adjustment, outputVars >>

\* mutant of ExtOpen: timestamps are rescaled to the beginning of the clock
ExtOpenAtZero(i) ==
  /\ ext[i].pc = "open"
  /\ ext' = [ ext EXCEPT ![i].pc = "stream",
                         ![i].rescaler = ClockRelative(0),
                         ![i].frame = 0,
                         ![i].opened = outTime ]
  /\ UNCHANGED << clockVars, queueVars, controlVars, outputVars >>

\* source and sink are open; remux_loop creates the processors
ExtOpen(i) ==
  /\ ext[i].pc = "open"
  /\ ext' = [ ext EXCEPT ![i].pc = "stream",
                         ![i].rescaler = ClockRelative(clock),
                         ![i].frame = 0,
                         ![i].opened = outTime ]
  /\ UNCHANGED << clockVars, queueVars, controlVars, outputVars >>

\* a packet with n caption SEIs: MaintenanceProcessor, then SeiExtractor
ExtPacket(i, n) ==
  /\ ext[i].pc = "stream"
  /\ ext[i].frame < MaxFrame
  /\ ext' = [ ext EXCEPT ![i].pc = "sei",
                         ![i].frame = @ + 1,
                         ![i].todo = n,
                         ![i].order = 0,
                         ![i].brk = restart[i] ]
  /\ UNCHANGED << clockVars, queueVars, controlVars, outputVars >>

\* mutant of ExtPush: one caption too many
ExtPushOneMore(i) ==
  LET e == ext[i]
  IN  /\ e.pc = "sei"
      /\ e.todo >= 0
      /\ Queue!Push([ id |-> i, pts |-> RescaleToClock(e.rescaler, e.frame),
                      order |-> e.order, kind |-> "caption", run |-> e.runs,
                      due |-> e.opened + RescaleTs(e.frame - 1) ])
      /\ ext' = [ ext EXCEPT ![i].rescaler = Anchored(e.rescaler, e.frame),
                             ![i].todo = @ - 1,
                             ![i].order = @ + 1 ]
      /\ UNCHANGED << clockVars, controlVars, outputVars >>

\* one caption SEI: UserDefinedInput::push
ExtPush(i) ==
  LET e == ext[i]
  IN  /\ e.pc = "sei"
      /\ e.todo > 0
      /\ Queue!Push([ id |-> i, pts |-> RescaleToClock(e.rescaler, e.frame),
                      order |-> e.order, kind |-> "caption", run |-> e.runs,
                      due |-> e.opened + RescaleTs(e.frame - 1) ])
      /\ ext' = [ ext EXCEPT ![i].rescaler = Anchored(e.rescaler, e.frame),
                             ![i].todo = @ - 1,
                             ![i].order = @ + 1 ]
      /\ UNCHANGED << clockVars, controlVars, outputVars >>

\* the packet goes to the sink; remux_loop returns if a restart was asked for
ExtRemuxed(i) ==
  /\ ext[i].pc = "sei"
  /\ ext[i].todo = 0
  /\ ext' = [ ext EXCEPT ![i] = IF @.brk THEN ExtractorAt("drop", @.runs)
                                        ELSE [ @ EXCEPT !.pc = "stream" ] ]
  /\ UNCHANGED << clockVars, queueVars, controlVars, outputVars >>

\* mutant of ExtFail: post_exit starts without drop_id
ExtFailUncleaned(i) ==
  /\ \/ ext[i].pc \in {"open", "stream"}
     \/ ext[i].pc = "sei" /\ ext[i].todo = 0
  /\ ext' = [ ext EXCEPT ![i] = ExtractorAt("now", @.runs) ]
  /\ UNCHANGED << clockVars, queueVars, controlVars, outputVars >>

\* Opening or reading fails, the timestamps are not in order, the stream
\* ends, or remux_packet has failed too often.
ExtFail(i) ==
  /\ \/ ext[i].pc \in {"open", "stream"}
     \/ ext[i].pc = "sei" /\ ext[i].todo = 0
  /\ ext' = [ ext EXCEPT ![i] = ExtractorAt("drop", @.runs) ]
  /\ UNCHANGED << clockVars, queueVars, controlVars, outputVars >>

\* post_exit: drop_id, now() and push() are three steps
ExtDrop(i) ==
  /\ ext[i].pc = "drop"
  /\ Queue!DropId(i)
  /\ ext' = [ ext EXCEPT ![i].pc = "now" ]
  /\ UNCHANGED << clockVars, controlVars, outputVars >>

ExtNow(i) ==
  /\ ext[i].pc = "now"
  /\ ext' = [ ext EXCEPT ![i].pc = "reset", ![i].resetAt = clock + 1 ]
  /\ UNCHANGED << clockVars, queueVars, controlVars, outputVars >>

ExtReset(i) ==
  /\ ext[i].pc = "reset"
  /\ Queue!Push(Reset(i, ext[i].resetAt))
  /\ ext' = [ ext EXCEPT ![i] = ExtractorAt("start", @.runs) ]
  /\ UNCHANGED << clockVars, controlVars, outputVars >>

Extract(i) ==
  \/ ExtStart(i) \/ ExtOpen(i)
  \/ \E n \in CaptionsPerFrame : ExtPacket(i, n)
  \/ ExtPush(i) \/ ExtRemuxed(i) \/ ExtFail(i)
  \/ ExtDrop(i) \/ ExtNow(i) \/ ExtReset(i)

-----------------------------------------------------------------------------
(***************************************************************************)
(* The injector.                                                           *)
(***************************************************************************)

\* injector(): source and sink are open; remux_loop creates the processors
InjStart ==
  /\ inj.pc = "start"
  /\ inj.runs < MaxInjectorRuns
  /\ NewTicker
  /\ inj' = [ InjectorAt("idle", inj.runs + 1) EXCEPT !.rescaler = ClockRelative(clock) ]
  /\ UNCHANGED << queueVars, controlVars, ext, found, written, lost, outTime >>

\* a packet of the output source: ClockTicker
InjTick(step) ==
  /\ inj.pc = "idle"
  /\ inj.pts + step >= 0
  /\ Tick(inj.pts + step)
  /\ clock' <= MaxClock
  /\ outTime' = last'
  /\ inj' = [ inj EXCEPT !.pc = "ticked", !.pts = @ + step ]
  /\ UNCHANGED << queueVars, controlVars, ext, found, written, lost >>

\* mutant of InjAdjust: the adjustment is added
InjAdjustAdding ==
  /\ inj.pc = "ticked"
  /\ inj' = [ inj EXCEPT !.pc = "adjusted",
                         !.rescaler = Anchored(@, inj.pts),
                         !.ts = RescaleToClock(inj.rescaler, inj.pts) + adjustment,
                         !.shift = adjustment ]
  /\ UNCHANGED << clockVars, queueVars, controlVars, ext, found, written, lost, outTime >>

\* SeiInjector::process: rescale the packet's pts, read the adjustment
InjAdjust ==
  /\ inj.pc = "ticked"
  /\ inj' = [ inj EXCEPT !.pc = "adjusted",
                         !.rescaler = Anchored(@, inj.pts),
                         !.ts = RescaleToClock(inj.rescaler, inj.pts) - adjustment,
                         !.shift = adjustment ]
  /\ UNCHANGED << clockVars, queueVars, controlVars, ext, found, written, lost, outTime >>

\* mutant of InjSelect: the reset is only emitted for the first packet
InjSelectResetOnce ==
  /\ inj.pc = "adjusted"
  /\ inj' = [ inj EXCEPT !.pc = IF current = Clear THEN "clear" ELSE "query",
                         !.input = current,
                         !.prev = current ]
  /\ found' = IF inj.prev = NoInput THEN << Reset(current, inj.ts) >> ELSE << >>
  /\ UNCHANGED << clockVars, queueVars, controlVars, ext, written, lost, outTime >>

\* read the current input; a CC reset comes first when it has changed
InjSelect ==
  /\ inj.pc = "adjusted"
  /\ inj' = [ inj EXCEPT !.pc = IF current = Clear THEN "clear" ELSE "query",
                         !.input = current,
                         !.prev = current ]
  /\ found' = IF current # inj.prev THEN << Reset(current, inj.ts) >> ELSE << >>
  /\ UNCHANGED << clockVars, queueVars, controlVars, ext, written, lost, outTime >>

\* ClearInput::run_query_sei
InjClear ==
  /\ inj.pc = "clear"
  /\ found' = Append(found, Reset(Clear, IF inj.since > inj.ts THEN inj.since ELSE inj.ts))
  /\ inj' = [ inj EXCEPT !.pc = "emit", !.since = inj.ts + 1 ]
  /\ UNCHANGED << clockVars, queueVars, controlVars, ext, written, lost, outTime >>

\* UserDefinedInput::run_query_sei: pop_all takes the mutex, loops, returns
InjLock ==
  /\ inj.pc = "query"
  /\ Queue!Lock(inj.input, inj.since, inj.ts + 1, TRUE)
  /\ inj' = [ inj EXCEPT !.pc = "pop" ]
  /\ UNCHANGED << clockVars, controlVars, ext, found, written, lost, outTime >>

InjPop ==
  /\ inj.pc = "pop"
  /\ Queue!PopLoop
  /\ UNCHANGED << clockVars, controlVars, ext, outputVars >>

\* An answer without items is replaced by an empty SEI (EMPTY_SEI in
\* stdseis.cpp), which is neither a caption nor a reset: it is left out of found.
InjPopped ==
  /\ inj.pc = "pop"
  /\ Queue!Unlock
  /\ found' = found \o out
  /\ inj' = [ inj EXCEPT !.pc = "emit", !.since = inj.ts + 1 ]
  /\ UNCHANGED << clockVars, controlVars, ext, written, lost, outTime >>

\* the end of SeiInjector::process: its locals are gone
Processed == [ inj EXCEPT !.pc = "idle", !.ts = 0, !.input = NoInput, !.shift = 0 ]

\* what was found goes into the packet, and the packet to the sink
InjEmit ==
  /\ inj.pc = "emit"
  /\ written' = IF found = << >> THEN written ELSE found[Len(found)]
  /\ lost' = (lost /\ ~ \E k \in DOMAIN found : found[k].kind = "reset")
  /\ found' = << >>
  /\ inj' = Processed
  /\ UNCHANGED << clockVars, queueVars, controlVars, ext, outTime >>

\* A BinaryParseError leaves the packet as it was, a failing remux_packet
\* drops it: what was found is gone either way, and the injector goes on.
InjLose ==
  /\ Faulty
  /\ inj.pc = "emit"
  /\ lost' = (lost \/ \E k \in DOMAIN found : found[k].kind = "reset")
  /\ found' = << >>
  /\ inj' = Processed
  /\ UNCHANGED << clockVars, queueVars, controlVars, ext, written, outTime >>

\* The source ends or fails, or processing a packet throws any other
\* exception: the injector starts over.
InjFail ==
  /\ \/ inj.pc = "idle"
     \/ Faulty /\ inj.pc = "emit"
  /\ found' = << >>
  /\ inj' = InjectorAt("start", inj.runs)
  /\ UNCHANGED << clockVars, queueVars, controlVars, ext, written, lost, outTime >>

Inject ==
  \/ InjStart
  \/ \E step \in PtsStep : InjTick(step)
  \/ InjAdjust \/ InjSelect \/ InjClear \/ InjLock \/ InjPop \/ InjPopped
  \/ InjEmit \/ InjLose \/ InjFail

-----------------------------------------------------------------------------
Next ==
  \/ Controller
  \/ \E i \in UserInput : Extract(i)
  \/ Inject

Spec == Init /\ [][Next]_vars

-----------------------------------------------------------------------------
(***************************************************************************)
(* Properties of the output.                                               *)
(***************************************************************************)

\* what has been written just before item k of the packet being emitted
Before(k) == IF k = 1 THEN written ELSE found[k - 1]

FollowsCaption(k) == found[k].kind = "caption" /\ Before(k).kind = "caption"

\* In the order in which messages are written to the output, captions of two
\* inputs are never next to each other: whenever the current input changes,
\* and however the change interleaves with the injector's query, a CC reset is
\* written before the first caption of the new input.  One case is not
\* prevented: the packet is lost, and with it the reset, which SeiInjector has
\* by then recorded as sent (injector.cpp, lines 121-129).
ResetBetweenInputs ==
  inj.pc = "emit" =>
    \A k \in DOMAIN found :
      FollowsCaption(k) => found[k].id = Before(k).id \/ (k = 1 /\ lost)

\* No caption is written before its time: not before the output has reached
\* the point where the caption belongs, shifted by the timestamp adjustment.
NeverEarly ==
  inj.pc = "emit" =>
    \A k \in DOMAIN found :
      found[k].kind = "caption" => found[k].due + inj.shift <= outTime

(***************************************************************************)
(* Properties of what the threads share.                                   *)
(***************************************************************************)
Captions == { x \in Elements(q) : x.kind = "caption" }

\* The captions in the queue come from the present run of their extractor,
\* and only while that run goes on: whenever and however an extractor stops,
\* the next run starts with none of its leftovers.
NoLeftovers ==
  \A x \in Captions :
    /\ x.run = ext[x.id].runs
    /\ ext[x.id].pc \in {"stream", "sei", "drop"}

\* An input whose source is down restarts its extractor over and over, and
\* every run pushes a CC reset: at most one of them is ever in the queue.
OneResetPerInput ==
  \A i, j \in DOMAIN q :
    q[i].kind = "reset" /\ q[j].kind = "reset" /\ q[i].id = q[j].id => i = j

\* "Zero (default) means Metamix tries to put metadata exactly at the same
\* point in time" (README.md, line 219): a caption is stamped with the
\* moment of the output at which it belongs.
SamePoint == \A x \in Captions : x.pts = x.due

\* The injector has not been restarted.
FirstRun == inj.runs <= 1

\* The same until the injector is restarted: neither a run of an extractor that
\* begins in the middle of the output nor a change of the adjustment shifts
\* the captions (SeiExtractor::process, TSRescaler).
SamePointAtFirst == FirstRun => SamePoint
=============================================================================

----------------------------- MODULE OutputClock -----------------------------
(***************************************************************************)
(* The system clock (src/clock.h, src/clock.cpp): a counter of ticks that  *)
(* only the output thread advances, from the timestamps of the packets of  *)
(* the output source.                                                      *)
(*                                                                         *)
(* Every run of the injector creates a ClockTicker (src/proc/injector.cpp) *)
(* with a rescaler anchored at the clock's present value and a TSTicker    *)
(* that has seen no timestamp yet.  Each packet of the output source is    *)
(* rescaled to the clock and its distance to the previous one is added.    *)
(*                                                                         *)
(* The rescaling of timestamps is also what the injector and the           *)
(* extractors use for the metadata, see Mixer.tla.                         *)
(***************************************************************************)
EXTENDS Integers

CONSTANTS
  Num, Den,   \* one unit of a stream's time base is Num/Den clock ticks
  NoTS        \* std::nullopt of an optional timestamp

ASSUME ClockAssumption ==
  /\ Num \in Nat \ {0}
  /\ Den \in Nat \ {0}
  /\ NoTS \notin Int

(***************************************************************************)
(* rescale_ts: FFmpeg's av_rescale_q, rounding to the nearest integer and  *)
(* halves away from zero.                                                  *)
(***************************************************************************)
RescaleTs(ts) ==
  IF ts >= 0 THEN (ts * Num + Den \div 2) \div Den
             ELSE - (((- ts) * Num + Den \div 2) \div Den)

(***************************************************************************)
(* TSRescaler: the first timestamp it is asked for becomes its zero.       *)
(***************************************************************************)
Rescaler == [ base : Int, zero : Int \cup {NoTS} ]

ClockRelative(now) == [ base |-> now, zero |-> NoTS ]

Anchored(r, ts) == IF r.zero = NoTS THEN [ r EXCEPT !.zero = ts ] ELSE r

RescaleToClock(r, ts) == r.base + RescaleTs(ts - Anchored(r, ts).zero)

VARIABLES
  clock,      \* Clock::m_val
  last,       \* TSTicker::m_last_ts of the running ClockTicker
  rescaler    \* its pts_rescaler

clockVars == << clock, last, rescaler >>

ClockTypeOK ==
  /\ clock \in Int
  /\ last \in Int \cup {NoTS}
  /\ rescaler \in Rescaler

ClockInit ==
  /\ clock = 0
  /\ last = NoTS
  /\ rescaler = ClockRelative(0)

\* mutant of Incremented: the sign of the distance is not looked at
IncrementedAlways(now, delta) == now + delta

\* Clock::increment: negative distances are ignored
Incremented(now, delta) == IF delta >= 0 THEN now + delta ELSE now

\* the injector starts over: a new ClockTicker
NewTicker ==
  /\ last' = NoTS
  /\ rescaler' = ClockRelative(clock)
  /\ UNCHANGED clock

\* mutant of Tick: the distance is taken in the wrong direction
TickBackwards(pts) ==
  LET ts == RescaleToClock(rescaler, pts)
  IN  /\ rescaler' = Anchored(rescaler, pts)
      /\ clock' = Incremented(clock, IF last = NoTS THEN ts ELSE last - ts)
      /\ last' = ts

\* ClockTicker::process of a packet with this pts
Tick(pts) ==
  LET ts == RescaleToClock(rescaler, pts)
  IN  /\ rescaler' = Anchored(rescaler, pts)
      /\ clock' = Incremented(clock, IF last = NoTS THEN ts ELSE ts - last)
      /\ last' = ts

ClockNext == NewTicker \/ \E pts \in Int : Tick(pts)

ClockSpec == ClockInit /\ [][ClockNext]_clockVars

-----------------------------------------------------------------------------
\* The clock never runs backwards, in whatever order the timestamps of the
\* output source come and however often the injector restarts: metadata
\* stamped later is never stamped lower.
ClockMonotone == [][ clock' >= clock ]_clockVars

\* The clock is never behind the packet the injector is working on: an
\* extractor that starts now does not stamp its metadata into the past.
ClockNotBehind == last # NoTS => last <= clock
=============================================================================

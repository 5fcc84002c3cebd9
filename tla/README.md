# Metamix in TLA+

Metamix takes closed captions out of several live inputs, keeps them in a
queue while the pictures travel through an external mixer, and injects the
captions of the *current* input into the mixed output. This directory holds a
formal model of that program: TLA+ modules, TLC configurations that check them
on small instances, and TLAPS proofs for all instances. Paths below are
relative to the repository (`src/...` is its source directory).

## 1. The system

| Part | State | Operations | Talks to |
| --- | --- | --- | --- |
| Metadata queue (`src/metadata_queue.h`) | a vector kept as a binary heap, a mutex | `push`, `drop_id`, `pop`, `pop_all` | extractors push and drop, the injector pops |
| System clock (`src/clock.{h,cpp}`) | an atomic tick counter; per user a rescaler (base, zero) and a ticker (last timestamp) | `increment`, `now`, `tick`, `rescale_to_clock` | advanced by the injector only, read by extractors |
| Extractor, one thread per input (`src/proc/extractor.cpp`) | the processors of a run | `extractor`, `SeiExtractor::process`, `MaintenanceProcessor::process`, `post_exit` | queue, clock, restart request |
| Injector, one thread (`src/proc/injector.cpp`) | `prev_pts`, `prev_input_id`, processors of a run | `ClockTicker::process`, `SeiInjector::process` | queue, clock, current input, adjustment |
| Input manager (`src/input_manager.h`) | the current input of every kind of metadata, the inputs and their capabilities | `set_current_inputs`, lookups | controller writes, injector reads |
| REST controller (`src/proc/controller.cpp`) | none of its own | `POST /input/current`, `/input/restart`, `/config`, and the `GET`s | input manager, adjustment, restart requests |
| Remux loop and supervision (`src/io/remux_loop.cpp`, `src/supervisor.h`) | retry counters, the packet in hand | read, check, process, write; restart for ever | runs the processors of extractors and injector |
| Program options (`src/program_options.cpp`) | the inputs, the output, the starting input | `parse`, `validate` | `main` |
| Start-up and shutdown (`src/main.cpp`, `src/application_context.cpp`) | threads, the running flag | `main`, `exit` | everything |
| Codecs (`src/h264`, `src/scte35`, `src/binary_*`) | the cursor of a parser | parse and emit NAL units, SEI messages, splice information | extractor and injector |
| FFmpeg handles (`src/io`) | contexts of source and sink, which stream is which | open, classify, start, read, write, close | remux loop |

What is hard here is not any one function but that everything above runs in
threads that share the queue, the clock, the current input, the adjustment and
the restart requests, each under its own lock or atomic, never under a common
one; that every thread may fail and start over at any moment; and that
positions in time are computed from two different clocks (the packets of an
input and those of the output) which meet only in the anchors of the
rescalers. `PROJECT.json` lists these hazards with their lines and the
properties that cover them.

What must hold, part by part:

* queue: a pop answers its query; it consumes nothing of the future; it gives
  the mutex back; it does what the comments of `pop` and `pop_all` say;
* clock: never backwards, never behind the packet being processed;
* extractor: nothing of a run outlives it in the queue; every caption is
  stamped with the moment at which it belongs; a requested restart happens;
* injector: between captions of two inputs a reset is written, none is written
  early, and a reader of the output finds what was injected;
* controller and input manager: what a request sets is a state somebody asked for;
* remux loop: a transient failure is retried a bounded number of times;
* handles: the processors of a run get the streams they rely on, whatever the
  source has this time; a header is followed by a trailer;
* start-up: every thread finds its own input, and the options mean what they say
  in whatever order they come;
* shutdown: once all inputs and the output are done the program ends;
* codecs: a rewritten packet keeps its pictures and can be read; what a packet
  says is what is extracted from it, up to the first damage.

## 2. Modules

| Module | Models | Kind |
| --- | --- | --- |
| `MetadataHeap` | the comparator, libstdc++'s heap algorithms, `remove_if` | operators |
| `TimedQueue` | the comments of `pop` and `pop_all`: a query is one step on a set | abstract specification |
| `MetadataQueue` | `src/metadata_queue.h`, each round of the pop loops a step | component |
| `OrderlyQueue` | `MetadataQueue` with a memory of what its callers have done to it | component |
| `OutputClock` | `src/clock.{h,cpp}` as driven by `ClockTicker` | component |
| `Mixer` | extractors, injector and controller over one `MetadataQueue` and the `OutputClock` | composition |
| `RemuxLoop` | `src/io/remux_loop.cpp` and what it expects of FFmpeg's muxer | component |
| `StreamRun` | a run from opening its handles to closing them (`src/io`), around `RemuxLoop` | composition |
| `Lifecycle` | `src/main.cpp`, `src/supervisor.h`, restart requests, the controller's accept loop | component |
| `ProgramOptions` | `src/program_options.cpp`, `src/iospec.h` | operators |
| `Startup` | `src/main.cpp` from the command line to the threads, and `Lifecycle` after it | composition |
| `InputSelection` | the REST API of the README: a request has its effect at one moment, or none | abstract specification |
| `Controller` | `src/proc/controller.cpp`, `src/input_manager.h` | component |
| `Bytes` | `src/binary_parser_util.h`, `src/binary_emitter_util.h` | operators |
| `NalUnits` | `src/h264`: emulation prevention, NAL units, SEI messages | operators |
| `Scte35`, `Scte35Emitter`, `Scte35Parser` | `src/scte35`: the types, `emit` and `emit_size_hint`, the parser | operators |
| `Packets` | what the processors do with the bytes of a packet, `src/binary_parser.h` | component |
| `MC*` | constants and restricted callers for TLC | instances |
| `*Proofs` | theorems of the module they are named after; those of `RemuxLoop` are in `StreamRunProofs`, those of `OutputClock` in `MixerProofs`, of `OrderlyQueue` in `MetadataQueueProofs` | proofs |
| `SequenceFacts` | what is proved once about sequences: concatenation, `FlattenSeq`, `FoldLeft`, `SelectSeq` | lemmas |

### Queue

The vector is kept position by position: `drop_id` erases from the middle of
the heap and nothing rebuilds it, so which item a later pop meets first is a
matter of positions. `SiftUp` and `PopHeap` say where `__push_heap` and
`__adjust_heap` leave every element, as sets of positions on the path to the
root; that makes them functions without recursion, which the provers accept.
`push` and `drop_id` are one step (they hold the mutex for a fixed piece of
work). A pop is `Lock`, then rounds of `Skip`, `Take`, `DropColliding`, `Taken`,
`Exhausted`, then `Unlock`; nothing else can touch the queue in between, so the
rounds are steps only to see every intermediate vector and to ask whether the
loop ends.

`TimedQueue` is what a caller reads in the comments. The refinement maps a pop
in progress to the state *after* the query: the items that will survive and the
answer that will be returned, computed from what is still queued. It is the
content of `ImplementsTimedQueue` that these never change while the loop runs. It
holds for orderly callers only; `OrderlyQueue` remembers whether they have been so
since the queue was last empty.

### Clock

`RescaleTs` is FFmpeg's rounding with the time-base quotient `Num/Den`.
Timestamps are mathematical integers: 64-bit ticks of 1/90000 s overflow after
three million years.

### Mixer

One program counter per thread; every access to something shared is its own
step. The extractor of an input goes

    start -> open -> stream <-> sei (one step per caption SEI)
                     \-> drop -> now -> reset -> start     (post_exit)

and the injector

    start -> idle -> ticked -> adjusted -> query -> pop ... -> emit -> idle
                                      \-> clear ------------/

Reading the clock, the adjustment and the current input, locking the queue and
its rounds are different steps, so the controller's requests and the extractors
fall between any two of them. `found` is `found_sei_metadata`. An item carries
what the queue sorts by and whether it is a caption or a CC reset; the `run` and
`due` of an item, `written`, `lost` and `outTime` are history: they say what was
written to the output and when, and no guard reads them. That something is
written does not mean that a reader finds it, see `Packets` (10 in section 3).

Assumed: the video stream is both the time source and the stream with the
SEIs (`CaptionsKeepTime` of `StreamRun`); processors run in the order
of their tuple, clock first. The queue of ad markers is left out, since nothing
in the program pops it.

### Remux loop

`Mixer` only knows that a run ends; `RemuxLoop` says when. Its steps are the
parts of the loop's body: read, check, process, write. The muxer is modelled by
the two things the code relies on: `cur_dts`, and the rule by which libavformat
refuses a packet, of which the loop's own test is a copy. A write that fails
for another reason may or may not have been recorded in `cur_dts`. Source and
sink have time bases of their own (`Num/Den`); a packet may lack its timestamps,
and what the muxer then makes up is any of them. A processor may throw, which
ends the run. `failed`, `lastDts` and `undated` are history.

### Runs

`StreamRun` puts around the loop what `extractor` and `injector` have in common:
source and sink are opened, the streams copied and classified, the header is
written, and at the end, however it comes, the destructors close the sink. Its
`stage` is the line that comes next, and each line may throw. The source may
have other streams in every run; a stream goes by name, and what its codec is
decides whether it is strict. Every step of a run is a step of `RemuxLoop` or
none of its business (`RunImplementsLoop`), so the theorems about the loop hold.

### Life cycle

One variable per thread says how far it is; `Supervised` is what `supervised`
does when a run ends, under `--no-restart` and without. A restart request is
`restart` (the flag) and `asked` (history: requested since the source was last
opened). The exit signal reaches the slots connected at that moment; the
controller's slot cancels an accept, and there is one to cancel only in
`ctl = "accept"`.

`Startup` precedes it: one action for each thing that `main` does before there
are threads, and `End` for every exception. `ProgramOptions` has the rules by
which options become inputs. An option is its key, split at the dots, and its
values; what Boost knows goes to `vm` (the first source that has a key keeps
it), what it does not know is merged by the name of the input, one option a
step. The inputs of `Lifecycle` are those that `user_inputs` has; the others
have no thread (`"none"`).

### Controller

A request is what its JSON says: the references it makes (by name, by id, by
both, by neither) and whether they have the right type. `Resolve` and
`Exchange` are the two loops over the kinds, one kind a step, between which the
injector reads and extractors start. Ids are cut to the width of `unsigned int`
(`% IdLimit`), as the JSON library does it. That names are unique is
`ControllerAssumption`; that they are, and that ids are those of the map, is
checked, and proved, where the inputs are made (`ThreadsFindInputs`).

The refinement of `InputSelection` places the effect of a request at its first
exchange. This is sound because no thread but the controller itself reads the
second kind; a reader of both would see half a change.

### Packets and codecs

`Mixer` says which captions are found for a packet of the output and which are
pushed for a packet of an input; `Packets` says what becomes of the bytes. Its
actions are the rounds of the loops (`Collect`, `ReadUnit`, `ReadMessage`,
`ReadSection`) and what follows them (`Rewrite`, `StripFails`, `AllRead`); a
packet leaves its processor by `Pass`. A processor keeps nothing from one packet
to the next, so one at a time is enough. `sent` is what the packet means, which
only the properties read, and `rounds` counts the rounds of the loops.

The codecs are operators on sequences of bytes. A number that is wider than 16
bits is only ever carried, so it stays a sequence of bytes. A parser returns
its value with the position after it, and fails by returning a position past
the end, since all failures look alike to the callers, except one: a
segmentation descriptor that is declared too short throws something the
extractor does not catch (`section_throws`). Two things the language
leaves open are choices of `build`: the order in which the fields of a time
descriptor are read and that of the halves of `scan_48`.

The senders are in `MCPackets`: SEI units are written as H.264 prescribes it
(not by the code's emitter), splice information by the code's emitter, as in
`test/scte35`, and once more with the lengths that SCTE 35 prescribes.

## 3. Runs

| Run | Question | Bounds | Result |
| --- | --- | --- | --- |
| `queue` | Does a pop answer its query, keep the future and return, on any vector? Does the queue do what its comments say while callers never drop and never push two items of an input at one instant, and again once it is empty? | 2 inputs, 3 instants, pushes, drops and pops at any time; 5 items, 4 after a disorderly call | holds |
| `queue_drop_id` | The same for callers that drop | as above | `FrontIsEarliest` fails |
| `mixer` | Is a reset written between captions of two inputs? Does anything outlive its run? Is every caption stamped with its moment, and is one ever written early? Is the clock monotone and never behind? | six scenes, see below; quotient 3/2; lost and malformed packets, failing threads | holds |
| `mixer_injector_restart` | "Exactly at the same point in time" (README, line 219) across a restart of the injector | the scene `outputRestarts` | `SamePoint` fails |
| `remux_retry` | Do the processors get the right streams? When does a run give up, and for which timestamps? Does a header get its trailer? | sources with up to 2 streams out of 6 (two with captions, another video, two with ad markers, sound), in two containers; dts -2 .. 2 or none, ticks of the sink twice as long, 2 retries, anything fails at any time | holds |
| `remux_finer` | Is the message about timestamps that do not grow ever false? | the same, dts -1 .. 2 or none, ticks of the sink half as long | `NoFalseAlarm` fails |
| `lifecycle` | Do options become the inputs they describe? Is every restart request honoured, once? Does the process end? | up to 2 inputs, up to 2 of 16 options after those of the output, right and wrong ones, 6 configuration files | holds |
| `file_priority` | "Options from configuration file have higher priority" (README, line 184) | as `lifecycle` | `FileHasPriority` fails |
| `exit` | Does the process end when the exit signal comes during a session? | 2 inputs | `Terminates` fails |
| `controller` | Is a request all or nothing? | 2 user-defined inputs; known, unknown, contradictory, overflowing and ill-typed references, for one kind, both or all | holds |
| `packets` | Is a rewritten packet whole? Is what is pushed what was sent? | see below | holds |
| `captions_arrive` | Is all that was injected found by a reader? | see below | `CaptionsArrive` fails |

Why the bounds are enough. Five items are the smallest heap with two full
levels and a bit, in which `drop_id` can break both the left and the right
branch; three instants give one before, one inside and one after a time frame.
One item less is enough after a disorderly call: the smallest heap that `drop_id` breaks
has three.

`mixer` has scenes (`Scene` in `MCMixer`), since all that moves at once is more than TLC can
enumerate: a scene says which inputs run and how often, how the output's
timestamps go, and which adjustments are made, and its steps are those of
`Next` that stay in it. In `switching` two inputs change places
at any step of three packets of the output; in `switchingRestarts` the injector
restarts in between, and its second run starts with what the first one has
written last. In `inputRestarts` an input, current or not, has two runs, which is what
"left over" needs; in `adjusting` too, under adjustments that come and go. In `outputRestarts` the clock has moved
when the injector restarts, and an input may open before, between and after. In
`outputJumps` the timestamps of the output go up and down by up to 3, up to a
clock of 8, with a time base that does not divide the clock's, so that every
rounding occurs.

In `remux_retry` two
retries distinguish "too many in a row" from "too many", and the timestamps
include zero, which the code treats as none, and its neighbours; with a tick of
the sink for two of the source, two timestamps become one. The counters
`MaxClock`, `MaxFrame`, `MaxExtractorRuns`, `MaxInjectorRuns` and `Capacity`
stop the model, not the program; they occur only in guards and are named
"bound" in `CONSTANTS`.

In `lifecycle` a command line is completed, or spoilt, by any two options in any
order, among them a parameter given twice, one without value, names that are
reserved, empty or a star, and keys of too many or too few parts; two inputs are
given one parameter at a time, with and without a file that says otherwise.

In `packets` a packet of video has up to three kinds of units before its SEI
units, none, one or two of these (with captions, other messages, bytes that need
escapes; invalid; without a stop bit), pictures, another SEI unit after them,
and may have lost its last byte; the injector has found a message empty of
captions, a caption, or a reset and a caption. There is a section of splice information for every
command and every shape of `splice_insert` and of a schedule, with descriptors
of all four kinds, alone or between others, and with its last byte lost; one has
a descriptor that is too short.

Deadlock is checked except in the runs of `Lifecycle` (`lifecycle`, `file_priority`, `exit`), whose process ends.

Fairness. `packets` has none: that the loops of the parsers end is the invariant
`LoopsAdvance` on the number of their rounds, which says more. `PopReturns` assumes weak fairness of the rounds of a pop and of its
return (`Fairness` of the queue): a thread that holds the mutex is not blocked
by anything else, so the scheduler will run it. `Lifecycle` assumes that its
threads run, which only `main` ever waits for another one justifies, and of the
world: that opening a source ends one way or another, that a source which
neither fails nor ends keeps sending packets of its time source (a restart
request is only noticed at one of those), and that a client ends its session.
It does not assume that streams end or fail. `Startup` adds that `main` runs.

The six violations are disagreements of the code with a comment, a message or
the README; `PROJECT.json` quotes the lines ("findings"). 7, 10 and 18 of the list
below are three of them; the others are:

1. `drop_id` leaves a vector that is not a heap (1@1, 1@2, 2@0, drop 2: the
   front is 1@2).
2. After a restart of the injector the clock jumps to twice its value.
3. With `--no-restart`, when the last stream ends while the controller serves a
   client, or before it has connected to the exit signal, the process does not
   end.

Other disagreements met while modelling:

4. Two caption SEIs of one packet have one pts, so the second is dropped, or
   the assertion in `pop_impl` fails (`src/metadata_queue.h`, line 157).
5. `post_exit` pushes the CC reset of a stopped run at `now() + 1`
   (`src/proc/extractor.cpp`, lines 197-203), which the next run can precede
   with its first captions, also without the race described in the FIXME.
6. A run whose first caption is not in its first packet stamps all captions too
   early, by the delay (`src/clock.cpp`, line 37: the zero of a rescaler is the
   first timestamp it is *asked* for). `mixer` with
   `CaptionsPerFrame = {0, 1}` and `MaxFrame = 2` violates `SamePointAtFirst`.
7. `remux_loop` compares `cur_dts`, in the sink's time base, with a dts in the
   source's (`src/io/remux_loop.cpp`, line 68), and nothing makes them equal
   (`src/io/sink_handle.cpp`, line 68). In a sink with finer ticks a run is ended
   although its timestamps grow (`remux_finer`); a packet without a dts ends it in
   any sink. With coarser ticks it is a false alarm only below zero
   (`AlarmsExplained`), but packets that become equal by rescaling are refused by
   the muxer instead, and lost.
8. A dts that falls below zero is not noticed (line 64: a `cur_dts` of zero
   counts as none).
9. Capabilities are only ever set (`src/user_defined_input.h`, line 37), while
   README line 223 says that they may change "when input source goes down".

And those of the codecs, which the definitions named here state:

10. `emit_sei_payload` puts a stop bit after every message. In a unit with two
    (a reset and a caption, after every switch; a message that was kept and a
    caption) a reader sees nothing after the first: a reset behind a message that
    was kept is written, its input taken for announced (`src/proc/injector.cpp`,
    line 125), and not seen. `CaptionsArrive`, which is what README line 42
    promises, fails in `captions_arrive`; `FirstArrives` is what is left of it.
11. Only the first SEI unit after AUD, SPS and PPS is stripped of captions
    (`Old`); `CHANGELOG.md`, line 17, speaks of all.
12. `emit_variadic_length_int` divides by 255 where it should subtract: 255 is
    written as FF 01, and from 510 on the length of the unit is wrong too.
13. `count_emulation_prevention_bytes` counts 00 00 03 only, while 00 00 00,
    00 00 01 and 00 00 02 are escaped as well: the unit is longer than declared
    and all units after it are lost. 00 00 00 00 is not read back as written
    (`copy_ebsp_to_rbsp` looks at the escaped bytes, `copy_rbsp_to_ebsp` at the
    plain ones).
14. A missing stop bit throws `std::runtime_error`, which ends the run, where
    everything else that is malformed is logged (`ReadUnit`, `StripFails`).
15. A segmentation descriptor with a length below 4 makes a vector of a range that
    ends before it begins (`src/scte35/parser.cpp`, lines 246-248): the
    `std::length_error` is not caught by `ScteExtractor::process` and ends the run,
    for a section whose checksum has not been looked at yet.
16. `write_12_pair`: `low & 0x0f00 >> 4` is `low & 0x00f0`. It goes unnoticed
    with tier 0xfff and commands below 256 bytes.
17. The parser skips the identifier of a private command twice, expects a DTMF
    descriptor one byte shorter than it is, and cannot read a schedule of the
    emitter, which declares the wrong length (`Refused`). The test of the
    emitter does not try them.

And of the start-up:

18. "Options from configuration file have higher priority than command line"
    (README, line 184) is true of the options of inputs only. Boost keeps the
    first value of all others, and the command line is stored first: with
    `--starting-input` given, the file's is ignored (`FileHasPriority`, run
    `file_priority`; `ProcessStartsAsFirstAsked` is a theorem about what happens
    instead).
19. An input cannot be called `*` (README, line 178): the keys that are
    registered for the help text (`src/program_options.cpp`, lines 94-99) are then
    options Boost knows, and nobody reads them.

`SamePointAtFirst` is `SamePoint` where 2 is excluded (until the injector is
restarted), and `mixer` excludes 6 (a caption in every packet of an input).

Every property of a passing run has a mutant: a definition beside the one it
replaces, marked "mutant of", that changes the code the way a slip would, and
under which TLC finds the property violated. `PROJECT.json` pairs them.

## 4. Proofs

TLAPS checks, for all values of the constants that satisfy the named
assumptions (`QueueAssumption`, `ClockAssumption`, `MixerAssumption`, `RemuxAssumption`,
`StreamRunAssumption`, `LifecycleAssumption`, `StartupAssumption`, `ControllerAssumption`,
`MarkerAssumption`, `PacketsAssumption`):

| Theorem | Says |
| --- | --- |
| `ClockTypeCorrect`, `ClockNeverBehind`, `ClockNeverBack` | `OutputClock`: types, `ClockNotBehind`, `ClockMonotone` |
| `QueueTypeCorrect`, `PopAnswersQuery`, `FutureSurvivesQueries` | `MetadataQueue`, however disordered: `TypeOK`, `PoppedSatisfyQuery`, `FutureIsKept` |
| `HeapStaysOrdered`, `FrontStaysEarliest` | `MetadataQueue` as long as nothing is dropped: the vector is a heap (`HeapOrdered`), its front the earliest item (`FrontIsEarliest`) |
| `HeapStaysWhenOrderly`, `QueueImplementsTimedQueue` | `OrderlyQueue`: `HeapWhenOrderly`, `ImplementsTimedQueue` |
| `MixerTypeCorrect`, `ResetsSeparateInputs` | `Mixer`: `TypeOK`, `ResetBetweenInputs` |
| `NothingLeftOver`, `ResetsDoNotPileUp` | `Mixer`: `NoLeftovers`, `OneResetPerInput` |
| `CaptionsKeepTheirPoint`, `CaptionsAreNeverEarly` | `Mixer` with steady sources, until the injector is restarted: `SamePointAtFirst`, `NeverEarly` |
| `RemuxTypeCorrect`, `RemuxGivesUpInTime` | `RemuxLoop`: `TypeOK`, `GivesUpInTime` |
| `AlarmsAreExplained` | `RemuxLoop` with a sink whose ticks are no shorter than those of the source (`Num <= Den`): `AlarmsExplained` |
| `RunImplementsLoop` | `StreamRun` implements `RemuxLoop` |
| `CaptionsAlwaysKeepTime`, `TrailersAlwaysWritten` | `StreamRun`: `CaptionsKeepTime`, `HeadersHaveTrailers` |
| `ThreadsTypeCorrect`, `RunsBreakOnRequest` | `Startup` and the threads after it: `TypeOK`, `OneRestartPerRequest` |
| `RunsBreakOnRequestAlone` | `Lifecycle` alone: `OneRestartPerRequest` |
| `ExtractorsFindTheirInputs` | `Startup`: `ThreadsFindInputs` |
| `InputsAreAsGiven`, `ProcessStartsAsFirstAsked` | `Startup`: `InputsAsGiven`, and the starting input is that of the first source that has one |
| `TypeCorrect`, `EveryRoundTakesAByte` | `Packets`: `TypeOK`, `LoopsAdvance` |
| `PicturesAreKept` | `Packets`: `PicturesKept`, while the injected messages are `PlainMessages` |
| `FirstMessageArrives` | `Packets`: `FirstArrives`, while they are and the first is short (`FirstIsShort`) |
| `CaptionsAreExtracted` | `Packets`: `CaptionsExtracted`, for packets that are `AsStandardised` |
| `ControllerTypeCorrect` | `Controller`: `TypeOK` |
| `ControllerImplementsSelection` | `Controller` implements `InputSelection` |

*Clock.* `ClockNotBehind` is not inductive: a backward jump lowers `last` but
not the clock, and the first tick of a new ticker adds an absolute timestamp.
The invariant adds that a fresh ticker's rescaler is anchored at a clock value
that is not negative, so that the first rescaled timestamp is that value.

*Heap* (`MetadataHeapProofs`). Two things are proved of the algorithms for every
vector. First, where elements go: the result of `SiftUp`, `PopHeap` and
`RemoveId` takes its elements one to one from places of the operand
(`DrawnFrom`), all but the root's in a pop, so nothing is copied, invented or
lost. Second, the order: what a push or a pop leaves is a heap if it was one, and
the root of a heap is no later than any of its elements. `Ancestors` is a
recursive function, which its definition does not help to reason about; that it
is the path to the root is proved by a least counterexample (`NatMin`), as is
the root's being the least.

*Queue.* Typing needs that these operators return sequences of items.
`FutureIsKept` is an action property: an item of the future that a pop moves
keeps its copies, whatever the order of the vector. It needs that `DropColliding`
only happens after an item was taken (`MatchTaken`). `HeapStaysOrdered` is stated for
every caller that does not drop (`UndroppedSpec`), since with a drop it is false
(1 above).

*The queue as promised.* `QueueImplementsTimedQueue` maps a pop in progress to the state
after the query and shows that a round changes neither the surviving items nor
the answer. A round looks at the root only, so this needs that the root is the
earliest (`HeapOrdered`, `FrontIsEarliest`), that no two items of one input have one
instant (`OneEach`; otherwise the items' places decide), and what a query has
popped at each of its stages (`QueryProgress`). All that is an invariant while the
callers are `orderly`: one item of an input an instant (4 above), no drops (1
above). It is true of an empty queue, whatever was done to it before, so the
promise is good again as soon as the queue has run empty. The
order in which the abstract queue answers is that of ranks (`RankOnto`).

*Mixer: what is written.* `ResetBetweenInputs` speaks of the moment of writing;
its invariant follows the captions back through the injector. `OwnQuery`: a pop
in progress asks for the input the injector has selected. `OwnCaptions`: what has
been found is captions of the selected input after at most one leading reset.
`Separated`: unless a reset is waiting at the head of `found`, or was lost, a
caption that was written last is of the input the injector used last. The clock's
and the queue's invariants are reused; `QueueProofs` instantiates the queue's
theorems.

*Mixer: the queue.* `NoLeftovers` and `OneResetPerInput` rest on one invariant
(`ContentInv`): between `drop_id` and the reset nothing of an extractor's input is
queued, and until then all its captions are of its present run. A reset is thus
pushed where there is none, and a new run begins where there is no caption.

*Mixer: the time.* `SamePoint` compares a caption's timestamp with the moment at
which it belongs. The theorems' hypotheses are what the code needs to get it
right, no more. `FirstRun`: the injector has not been restarted (2 above;
`mixer_injector_restart` shows what happens otherwise). `Steady`: every packet of an
input has captions (6 above), and the timestamps of the output do not go back (the
clock ignores such a jump, the injector's rescaler does not). Extractors may
restart at any time, time bases, adjustments, and the order of everything are
arbitrary. The invariant (`OnTime`): the clock is the output's time
(`ClockIsOutput`), the rescaler of an extractor is anchored at the clock it opened
its source at (`ExtractorsAnchored`), that of the injector is its ticker's
(`InjectorOnTime`), and captions keep their point on the way from the queue to the
packet (`PointsKept`).

*Remux loop.* `GivesUpInTime` needs that the counters and the failures in a row
agree as long as the run goes on (`CountsAgree`). The test of the timestamps is
made on one packet and concerns earlier ones, some of which were lost:
`RecordedInTime` says that what the muxer has recorded of a stream, if it is above
zero, is no later than the latest packet that passed. That rescaling leaves it so
needs `Num <= Den` (`RescaledNoLater`); with shorter ticks it is false (7 above).

*Runs.* `RunInvariant` follows the lines before the loop: what is classified stays
so until it is required and used, and a packet of a stream that the sink does not
have gets no further than the check. `TrailerDue`: the flag of the destructor
says exactly that there is a header.

*Life cycle and start-up.* A run is broken off because a flag was found set; that
every flag found set was set in this run (`RequestsAreNew`) makes
`OneRestartPerRequest` inductive: it needs the exchange at the beginning of a
run. `StartupInv` follows the list of inputs through `main`: parsing keeps names
different (`Merged`), validation lets only complete inputs pass (`Complete`), and
map and threads are made from one list (`Mapped`). Of the options it is only
assumed that their keys and values are strings (`StartupAssumption`). What
`ControllerAssumption` supposes of the inputs is what `ThreadsFindInputs` shows.

*Options.* `InputsAsGiven` and `FirstSourceDecides` compare what `main`'s loops have made
with all options of both sources. `GivenInv` follows the loops one option at a
time: the inputs are what the options merged so far say (`Says`, for the set of
places `Merging`), an option more changes one parameter of one of them
(`MergeSays`), and the map of Boost has of `--starting-input` what the sources
read so far give it (`Keeps`). The options that Boost does not know of the two
sources are, one after the other, those of both (`Unknown`), which is where
selection from sequences comes in; a selection is reasoned about by where its
elements stand.

*Controller.* `ControlInv`: a changeset is what the references of the request
have found, for the kinds the first loop has been at (`LookedUp`), and the second
loop, like that of `GET`, is right about the kinds it has been at, because no
other thread writes the current inputs. The refinement then has one lemma for
each step: the first exchange performs a selection, the response everything
else. `CommittedFirst` is the point of it: what the injector reads between two
exchanges is what is selected already. `MarkerAssumption` says that what the model
writes for a missing value is no value (in C++ they are `std::nullopt` and JSON's
`null`).

*Packets.* Typing and termination go together: that a cursor never leaves its
bytes, and that nothing of the bytes outside is read into a section, follows
from what every parser returns for any bytes at any position, and so does that a
round takes at least one of them (`RoundsPaid`). The parsers are recursive
functions; that they exist is a lemma of each (`UnitsExist`), and what they
return is shown by the least or greatest position where it would be wrong
(`NatMin`, `NatMax`).

`PicturesAreKept` is a theorem about writing and reading. `AllCollected` says that
the injector has collected the valid units among those that arrived, in their
order, and that it writes `Rewritten` of them. A unit is read back as it was
written (`UnitIsRead`), so of any sequence of them (`UnitsRead`), as long as each has
the length declared for it. That of the new SEI unit is a sum of hints:
`PlainLength` shows that a hint is the length of what is written if the message
has at least a byte, less than 510, a type below 510, and no 00 00 00, 00 00 01
or 00 00 02 in its data, and only then is `PlainMessages` true of the state. The
hypothesis is no weaker than the code needs (12 and 13 above are what happens
without it), and all packets of the run satisfy it.

`FirstMessageArrives` goes from there into the new SEI unit, which a reader takes
byte by byte through `reset_ep3b`. `ReadAsWritten` is the heart of it: what `Ep3b`
writes with emulation prevention, the reader reads back without it, for all bytes
that have no 00 00 00, 00 00 01 or 00 00 02 in them. Of the prefixes of a plain unit that are not read back take the shortest; the
one before it is, and the next byte either goes out as it is or after a 3 that
the reader drops (`OneMoreReadBack`); a prefix that ends in two zeros ends in them
on both sides (`EndsAfter`). The header, the type and the size of the first message
are then found where they were put (`HeaderIsRead`, `SmallNumberRead`), its data
behind them, and behind it the stop bit if there is no second message
(`OnlyMessage`). Above 255 the size runs over several bytes, where the writer's
rule is the one of 12 above: hence `FirstIsShort`.

`CaptionsAreExtracted` is about packets that others have written. `AsStandardised`
says how: in a SEI unit that can be read, the messages follow one another, each
after its type and its size, which are bytes of 255 and a smaller one (H.264,
7.3.2.3); TLC evaluates it for the packets of the run (`MCPackets`). Emulation
prevention is not described once more: the unit is compared after the code's own
`copy_ebsp_to_sodb`. Messages so written are read back from wherever one begins,
of any number and size (`NumberIsRead`, `MessageIsRead`, `MessagesRead`). The
invariant is `AllPushed`: the extractor stands behind unit k, and what has been
pushed, with the captions still ahead of it in that unit, are the captions of the
first k units. A unit that is not there in full is the last one (`CutOff`), one
without stop bit ends the run, so what has been pushed stays the captions of the
units before it.

Only model-checked, and why:

- `PopReturns`, `RestartHonoured`, `StoppedEnds` (and `Terminates`): liveness under
  fairness is beyond TLAPS 1.4.5 as installed.
- `SectionsExtracted`: it compares the sections pushed with what senders put into the
  packet. For every packet this would need of each of the parsers of commands,
  times and descriptors that it returns what an encoder of SCTE 35 has written; the
  only encoders of the project are the code's own, which goes wrong in the ways
  17 above names, and those of `MCPackets`.
- `NeverEarly` after a restart of the injector. `SamePoint` is false there, and without
  `Steady` both are.

## 5. Not modelled

See "components" in `PROJECT.json`. In short: logging, version and formatting
(no state that is read back), FFmpeg's own behaviour (only success, failure,
end of stream, the best stream and the muxer's rule for timestamps matter),
`crc32` (a 32-bit table; the model has a sum that
tells damaged sections as well), what the addresses and the log options of the
command line are used for, Boost's guessing of abbreviated options, capabilities, which are
only reported, and the `GET`s that report them.

Left out of the codecs, because the code runs into undefined behaviour there
that no sender provokes: a SEI message that ends before its size byte, a private
command that reads up to 4 bytes past its section (the model reads zeros there; the
section is refused in any case), and fewer than 20 bytes after the last section of a packet (`scte35_parser_next` returns
an empty optional, which `operator>>` dereferences). Assertions are those of a
release build, which has none: a SEI message without data would stop a build for
debugging (`src/binary_parser.h`, line 151).

## 6. Plan

Done, in this order: queue, clock, mixer (the behaviour users see), remux loop,
life cycle, controller, codecs and packets, program options and start-up, runs;
then the proofs, from the queue's to the controller's.
Next, proofs:

1. `Mixer`'s queue is used by orderly callers where `drop_id` finds nothing: the
   weakest condition on the extractors under which `QueueImplementsTimedQueue`
   holds in the mixer too.
2. A description of what a viewer sees (captions of one input at a time, resets
   in between), and that `Mixer` implements it.
3. `FirstArrives` for every message of a packet, not only the first.
4. `SectionsExtracted`, one syntax element of SCTE 35 at a time.

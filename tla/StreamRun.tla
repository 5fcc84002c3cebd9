------------------------------ MODULE StreamRun ------------------------------
(***************************************************************************)
(* A run of an extractor (src/proc/extractor.cpp) or of the injector       *)
(* (src/proc/injector.cpp) from its first line to its last destructor:     *)
(* source and sink are opened (src/io/source_handle.cpp, sink_handle.cpp), *)
(* the streams of the source classified (src/io/io_handle.cpp,             *)
(* stream_classification.h), the header is written, remux_loop runs        *)
(* (RemuxLoop), and the handles are closed.                                *)
(*                                                                         *)
(* A stream is told by name, not by its index in the tables of source and  *)
(* sink, which are the same.  A source may have other streams in the next  *)
(* run.                                                                    *)
(***************************************************************************)
EXTENDS RemuxLoop, FiniteSets

CONSTANTS
  CodecOf,       \* the codec of every stream
  Source,        \* what a source may turn out to be when it is opened
  None           \* std::nullopt

ASSUME StreamRunAssumption ==
  /\ DOMAIN CodecOf = Stream
  /\ None \notin Stream
  /\ \A s \in Strict : CodecOf[s] # "scte"       \* AVMEDIA_TYPE_DATA
  /\ \A each \in Source : each.streams \subseteq Stream /\ each.mpegts \in BOOLEAN

VARIABLES
  stage,         \* the line of extractor or injector that comes next
  source,        \* the source, as avformat_find_stream_info has found it
  sc,            \* StreamClassification
  should_write_trailer,
  sink           \* history: what has been written to the sink

handles == << source, should_write_trailer, sink >>
run == << stage, sc, handles >>

NoSource == [ streams |-> {}, mpegts |-> FALSE ]
Unclassified == [ time_source |-> None, sei |-> None, scte |-> None ]

RunInit ==
  /\ Init
  /\ stage = "source.open"
  /\ source = NoSource
  /\ sc = Unclassified
  /\ should_write_trailer = FALSE
  /\ sink = "none"

\* the next line is reached, the loop has not begun or is over
Line(from, to) == stage = from /\ stage' = to /\ UNCHANGED vars

-----------------------------------------------------------------------------
(***************************************************************************)
(* IOHandle::classify_streams.                                             *)
(***************************************************************************)
Streams(codec) == { s \in source.streams : CodecOf[s] = codec }

\* H.264 in MPEG-TS is not understood and passed by
Captioned == IF source.mpegts THEN {} ELSE Streams("h264")
Videos == Streams("h264") \cup Streams("mpeg2video")     \* AVMEDIA_TYPE_VIDEO

\* StreamClassification::classify throws on the second stream of a kind
ClassifyFails == Cardinality(Captioned) > 1 \/ Cardinality(Streams("scte")) > 1

AnyOf(S) == IF S = {} THEN {None} ELSE S

\* mutant of Classification: the time source is always the best video stream
ClassificationByBest ==
  [ time_source : AnyOf(Videos), sei : AnyOf(Captioned), scte : AnyOf(Streams("scte")) ]

\* The stream with the captions is the time source as well; without one it is
\* the video stream that av_find_best_stream prefers, if there is one.
Classification ==
  { kinds \in [ time_source : AnyOf(Videos), sei : AnyOf(Captioned), scte : AnyOf(Streams("scte")) ] :
      kinds.sei # None => kinds.time_source = kinds.sei }

-----------------------------------------------------------------------------
OpenSource ==
  /\ Line("source.open", "sink.open")
  /\ source' \in Source
  /\ UNCHANGED << sc, should_write_trailer, sink >>

OpenSink ==
  /\ Line("sink.open", "init_remuxing")
  /\ sink' = "open"
  /\ UNCHANGED << sc, source, should_write_trailer >>

\* the streams of the source are copied, those that appear later are not
InitRemuxing ==
  /\ Line("init_remuxing", "classify_streams")
  /\ UNCHANGED << sc, handles >>

ClassifyStreams ==
  /\ Line("classify_streams", "require")
  /\ ~ ClassifyFails
  /\ sc' \in Classification
  /\ UNCHANGED handles

RequireTimeSource ==
  /\ Line("require", "sink.start")
  /\ sc.time_source # None
  /\ UNCHANGED << sc, handles >>

\* the header is written, and remux_loop begins
StartSink ==
  /\ stage = "sink.start"
  /\ stage' = "remux_loop"
  /\ should_write_trailer' = TRUE
  /\ sink' = "started"
  /\ Begin
  /\ UNCHANGED << sc, source >>

\* an exception: FFmpeg may refuse to open, to allocate and to write
Throw ==
  /\ \/ stage \in {"source.open", "sink.open", "init_remuxing", "sink.start"}
     \/ stage = "classify_streams" /\ ClassifyFails
     \/ stage = "require" /\ sc.time_source = None
  /\ Line(stage, "close")
  /\ UNCHANGED << sc, handles >>

\* A processor gets the packets of its stream.  Only that of the time source
\* of an extractor, MaintenanceProcessor, ever asks for a break, and only those
\* that read or write the bytes of a packet throw.
Called == { kind \in DOMAIN sc : sc[kind] = pkt.stream }

Loop ==
  /\ stage = "remux_loop"
  /\ pc \notin {"none", "over"}
  /\ Next
  /\ pkt'.stream \in source.streams \cup {NoStream}
  /\ ~ brk /\ brk' => "time_source" \in Called
  /\ cause' = "processor" => {"sei", "scte"} \cap Called # {}
  /\ stage' = IF pc' = "over" THEN "close" ELSE stage
  /\ UNCHANGED << sc, handles >>

Leaving ==
  /\ stage = "close" /\ stage' = "source.open"
  /\ IF pc = "over" THEN Leave ELSE UNCHANGED vars

\* mutant of Close: no trailer after an exception
CloseAfterReturn ==
  /\ Leaving
  /\ sink' = IF should_write_trailer /\ cause \in {"eof", "break"} THEN "finished" ELSE sink
  /\ source' = NoSource /\ sc' = Unclassified /\ should_write_trailer' = FALSE

\* the destructors of all that lives in the run, the handles among them; then supervised begins the next run
Close ==
  /\ Leaving
  /\ sink' = IF should_write_trailer THEN "finished" ELSE sink
  /\ source' = NoSource /\ sc' = Unclassified /\ should_write_trailer' = FALSE

RunNext ==
  \/ OpenSource \/ OpenSink \/ InitRemuxing \/ ClassifyStreams \/ RequireTimeSource \/ StartSink
  \/ Throw \/ Loop \/ Close

RunSpec == RunInit /\ [][RunNext]_<< vars, run >>

-----------------------------------------------------------------------------
(***************************************************************************)
(* Properties.                                                             *)
(***************************************************************************)

\* The processors of a run meet what they rely on, whatever streams the source
\* has this time: there is a time source, so that the clock advances and restart
\* requests are seen; when there are captions it is the stream that has them, so
\* that ClockTicker is done with a packet before SeiInjector gets it (Mixer); and
\* no kind refers to a stream of an earlier run.
CaptionsKeepTime ==
  stage = "remux_loop" =>
    /\ sc.time_source \in Videos
    /\ sc.sei # None => sc.sei = sc.time_source
    /\ \A kind \in DOMAIN sc : sc[kind] \in source.streams \cup {None}
    /\ pc = "write" => pkt.stream \in source.streams

\* A sink that has a header gets its trailer before the next run, however this
\* one ends: by an exception, a break, or the end of the source
\* (SinkHandle::~SinkHandle).
HeadersHaveTrailers == stage = "source.open" => sink # "started"
=============================================================================

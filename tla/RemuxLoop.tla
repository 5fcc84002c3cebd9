------------------------------ MODULE RemuxLoop ------------------------------
(***************************************************************************)
(* remux_loop (src/io/remux_loop.cpp), which every run of an extractor and *)
(* of the injector spends its time in: read a packet, compare its          *)
(* timestamps with those the sink's muxer has seen, hand it to the         *)
(* processors, write it.  supervised (src/supervisor.h) starts a new run   *)
(* whenever one ends.                                                      *)
(*                                                                         *)
(* The muxer is FFmpeg's: it is modelled by what remux_loop reads of it    *)
(* (cur_dts of every stream) and by which packets it refuses.  Its streams *)
(* have time bases of their own: SinkHandle::init_remuxing copies only the *)
(* codec parameters (src/io/sink_handle.cpp, lines 61-68).                 *)
(***************************************************************************)
EXTENDS Integers

CONSTANTS
  Stream,        \* the streams of the source when the run began
  Strict,        \* those whose dts must grow, not only not fall
  Num, Den,      \* a tick of the source is Num/Den ticks of the sink
  MaxRetry,      \* MAX_RETRY, 10 in the code
  Dts,           \* the decoding timestamps of the source
  WritesFail,    \* can writing fail for other reasons than timestamps?
  NoTS,          \* AV_NOPTS_VALUE, of packets and of cur_dts
  NoStream       \* a stream that appeared after the run began

ASSUME RemuxAssumption ==
  /\ Strict \subseteq Stream
  /\ NoStream \notin Stream
  /\ Num \in Nat \ {0} /\ Den \in Nat \ {0}
  /\ MaxRetry \in Nat
  /\ Dts \subseteq Int
  /\ WritesFail \in BOOLEAN
  /\ NoTS \notin Int

VARIABLES
  pc,            \* where the loop is; "none": it has not begun, "over": it has ended
  pkt,           \* the packet in hand
  brk,           \* has a processor asked to stop?
  readTrial,     \* read_trial
  remuxTrial,    \* remux_trial
  curDts,        \* cur_dts of every stream of the sink
  cause,         \* what ended the run
  lastDts,       \* history: dts of the packet before, of every stream
  undated,       \* history: the streams that have had packets without a dts
  failed         \* history: reads and writes that failed in a row

trials == << readTrial, remuxTrial >>
sent == << lastDts, undated >>
history == << sent, failed >>
vars == << pc, pkt, brk, trials, curDts, cause, history >>

Packet ==
  [ stream : Stream \cup {NoStream}, dts : Dts \cup {NoTS}, pts : Int \cup {NoTS} ]

NoPacket == [ stream |-> NoStream, dts |-> 0, pts |-> 0 ]

TypeOK ==
  /\ pc \in {"none", "read", "check", "process", "write", "over"}
  /\ pkt \in Packet \cup {NoPacket}
  /\ brk \in BOOLEAN
  /\ readTrial \in 0 .. MaxRetry /\ remuxTrial \in 0 .. MaxRetry
  /\ curDts \in [Stream -> Int \cup {NoTS}]
  /\ cause \in {"none", "eof", "read", "stream", "dts", "pts", "processor", "remux", "break"}
  /\ lastDts \in [Stream -> Int \cup {NoTS}]
  /\ undated \subseteq Stream \cup {NoStream}
  /\ failed \in [reads : Nat, writes : Nat]

Init ==
  /\ pc = "none"
  /\ pkt = NoPacket
  /\ brk = FALSE
  /\ readTrial = 0 /\ remuxTrial = 0
  /\ curDts = [ s \in Stream |-> NoTS ]
  /\ cause = "none"
  /\ lastDts = [ s \in Stream |-> NoTS ]
  /\ undated = {}
  /\ failed = [ reads |-> 0, writes |-> 0 ]

End(why) == pc' = "over" /\ cause' = why

\* av_packet_rescale_ts: to the nearest tick, halves away from zero
Rescaled(dts) ==
  IF dts = NoTS THEN NoTS
  ELSE IF dts >= 0 THEN (dts * Num + Den \div 2) \div Den
  ELSE - (((- dts) * Num + Den \div 2) \div Den)

\* mutant of OutOfOrder: the dts of every stream must grow
OutOfOrderEverywhere(s, dts) ==
  /\ curDts[s] \notin {NoTS, 0}
  /\ dts = NoTS \/ curDts[s] >= dts

\* The test of cur_dts, made by remux_loop before the packet is rescaled and
\* by the muxer after it.  A cur_dts of zero counts as none; AV_NOPTS_VALUE is
\* the lowest int64_t, so that a packet without a dts comes before all others.
OutOfOrder(s, dts) ==
  /\ curDts[s] \notin {NoTS, 0}
  /\ dts = NoTS \/ curDts[s] > dts \/ (s \in Strict /\ curDts[s] = dts)

\* pts < dts, if the packet has both
ShownTooEarly(p) == NoTS \notin {p.dts, p.pts} /\ p.pts < p.dts

\* the presentation timestamps that tell the packets of one dts apart here
PtsOf(dts) == IF dts = NoTS THEN {NoTS} ELSE { NoTS, dts - 1, dts }

-----------------------------------------------------------------------------
\* source.read_packet
ReadPacket(p) ==
  /\ pc = "read"
  /\ pc' = "check"
  /\ pkt' = p
  /\ readTrial' = 0
  /\ failed' = [ failed EXCEPT !.reads = 0 ]
  /\ UNCHANGED << brk, remuxTrial, curDts, cause, sent >>

ReadEnd ==
  /\ pc = "read"
  /\ readTrial' = 0
  /\ failed' = [ failed EXCEPT !.reads = 0 ]
  /\ End("eof")
  /\ UNCHANGED << pkt, brk, remuxTrial, curDts, sent >>

\* mutant of ReadFail: a success in between is not looked at
ReadFailSticky ==
  /\ pc = "read"
  /\ failed' = [ failed EXCEPT !.reads = @ + 1 ]
  /\ IF readTrial < MaxRetry
     THEN readTrial' = MaxRetry /\ UNCHANGED << pc, cause >>
     ELSE End("read") /\ UNCHANGED readTrial
  /\ UNCHANGED << pkt, brk, remuxTrial, curDts, sent >>

ReadFail ==
  /\ pc = "read"
  /\ failed' = [ failed EXCEPT !.reads = @ + 1 ]
  /\ IF readTrial < MaxRetry
     THEN readTrial' = readTrial + 1 /\ UNCHANGED << pc, cause >>
     ELSE End("read") /\ UNCHANGED readTrial
  /\ UNCHANGED << pkt, brk, remuxTrial, curDts, sent >>

\* the timestamps; sink.get_stream throws for a stream the sink does not have
Check ==
  /\ pc = "check"
  /\ IF pkt.stream = NoStream THEN End("stream")
     ELSE IF OutOfOrder(pkt.stream, pkt.dts) THEN End("dts")
     ELSE IF ShownTooEarly(pkt) THEN End("pts")
     ELSE pc' = "process" /\ UNCHANGED cause
  /\ UNCHANGED << pkt, brk, trials, curDts, history >>

\* The processors: one of them may ask to stop after this packet.  An exception
\* of theirs (a missing stop bit in rbsp.h, a packet that cannot be grown) is
\* caught by supervised only.
Process ==
  /\ pc = "process"
  /\ \/ pc' = "write" /\ brk' \in BOOLEAN /\ UNCHANGED cause
     \/ End("processor") /\ UNCHANGED brk
  /\ lastDts' = [ lastDts EXCEPT ![pkt.stream] = pkt.dts ]
  /\ undated' = IF pkt.dts = NoTS THEN undated \cup {pkt.stream} ELSE undated
  /\ UNCHANGED << pkt, trials, curDts, failed >>

Refused == OutOfOrder(pkt.stream, Rescaled(pkt.dts))

\* what the muxer may record of the packet: it makes up a dts that is missing,
\* or leaves it missing
Accepted ==
  { [ curDts EXCEPT ![pkt.stream] = dts ] :
      dts \in IF pkt.dts = NoTS THEN Dts \cup {NoTS} ELSE { Rescaled(pkt.dts) } }

\* the end of the loop's body
NextRound ==
  /\ IF brk THEN End("break") ELSE pc' = "read" /\ UNCHANGED cause
  /\ brk' = FALSE
  /\ pkt' = NoPacket

Write ==
  /\ pc = "write"
  /\ ~ Refused
  /\ curDts' \in Accepted
  /\ remuxTrial' = 0
  /\ failed' = [ failed EXCEPT !.writes = 0 ]
  /\ NextRound
  /\ UNCHANGED << readTrial, sent >>

\* mutant of WriteFail: the retries are counted one too far
WriteFailOneMore ==
  /\ pc = "write"
  /\ \/ Refused /\ curDts' = curDts
     \/ ~ Refused /\ WritesFail /\ curDts' \in {curDts} \cup Accepted
  /\ failed' = [ failed EXCEPT !.writes = @ + 1 ]
  /\ IF remuxTrial <= MaxRetry
     THEN remuxTrial' = remuxTrial + 1 /\ NextRound
     ELSE End("remux") /\ UNCHANGED << remuxTrial, brk, pkt >>
  /\ UNCHANGED << readTrial, sent >>

\* The packet is lost, and another one will be tried.  A muxer that fails to
\* write has recorded the packet's dts or has not.
WriteFail ==
  /\ pc = "write"
  /\ \/ Refused /\ curDts' = curDts
     \/ ~ Refused /\ WritesFail /\ curDts' \in {curDts} \cup Accepted
  /\ failed' = [ failed EXCEPT !.writes = @ + 1 ]
  /\ IF remuxTrial < MaxRetry
     THEN remuxTrial' = remuxTrial + 1 /\ NextRound
     ELSE End("remux") /\ UNCHANGED << remuxTrial, brk, pkt >>
  /\ UNCHANGED << readTrial, sent >>

\* source, sink and processors are there (StreamRun)
Begin ==
  /\ pc = "none"
  /\ pc' = "read"
  /\ UNCHANGED << pkt, brk, trials, curDts, cause, history >>

\* the run is left, and supervised prepares another one
Leave ==
  /\ pc = "over"
  /\ pc' = "none"
  /\ pkt' = NoPacket
  /\ brk' = FALSE
  /\ readTrial' = 0 /\ remuxTrial' = 0
  /\ curDts' = [ s \in Stream |-> NoTS ]
  /\ cause' = "none"
  /\ lastDts' = [ s \in Stream |-> NoTS ]
  /\ undated' = {}
  /\ failed' = [ reads |-> 0, writes |-> 0 ]

Next ==
  \/ \E s \in Stream \cup {NoStream}, dts \in Dts \cup {NoTS} :
       \E pts \in PtsOf(dts) : ReadPacket([ stream |-> s, dts |-> dts, pts |-> pts ])
  \/ ReadEnd \/ ReadFail
  \/ Check \/ Process \/ Write \/ WriteFail
  \/ Begin \/ Leave

Spec == Init /\ [][Next]_vars

-----------------------------------------------------------------------------
\* A run that ends by failures has had MAX_RETRY + 1 of them in a row, and no
\* run survives that many: reads and writes are counted apart, and every
\* success starts the count anew.
GivesUpInTime ==
  /\ (failed.reads > MaxRetry) <=> (cause = "read")
  /\ (failed.writes > MaxRetry) <=> (cause = "remux")

\* Is the packet in hand where it should be among those that its stream has
\* sent before, all of which had a dts?
InOrder ==
  /\ pkt.dts # NoTS /\ pkt.stream \notin undated
  /\ \/ lastDts[pkt.stream] = NoTS
     \/ lastDts[pkt.stream] < pkt.dts
     \/ pkt.stream \notin Strict /\ lastDts[pkt.stream] = pkt.dts

\* "Input provided invalid, non monotonically increasing dts to muxer in
\* stream %1%: %2% >= %3%" (remux_loop.cpp, lines 22-23): the input of a run
\* that ends with this message is not in order.
NoFalseAlarm == cause = "dts" => ~ InOrder

\* What can be said of that message whichever time base the sink has, as long
\* as its ticks are no shorter than those of the source: only where timestamps
\* are below zero is it given for an input that is in order.  cur_dts is compared
\* before the packet is rescaled (remux_loop.cpp, line 68), the writes before
\* may have failed, and a cur_dts of zero counts as none.
AlarmsExplained == cause = "dts" /\ InOrder => pkt.dts < 0
=============================================================================

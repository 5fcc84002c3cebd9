--------------------------- MODULE StreamRunProofs ---------------------------
(***************************************************************************)
(* Theorems about RemuxLoop and about StreamRun, in which the loop runs,   *)
(* for every set of streams, every limit of the retries, every set of      *)
(* timestamps and every source.                                            *)
(***************************************************************************)
EXTENDS StreamRun, TLAPS

-----------------------------------------------------------------------------
(* RemuxLoop *)

\* a rescaled timestamp is a timestamp
LEMMA RescaledType ==
  ASSUME NEW dts \in Int \cup {NoTS}
  PROVE  Rescaled(dts) \in Int \cup {NoTS}
<1>1. Den \in Nat /\ Den > 0 /\ Num \in Nat
  BY RemuxAssumption
<1>2. CASE dts \in Int
  <2>1. dts * Num + Den \div 2 \in Int /\ (- dts) * Num + Den \div 2 \in Int
    BY <1>1, <1>2
  <2>2. \A a \in Int : a \div Den \in Int /\ - (a \div Den) \in Int
    BY <1>1
  <2> QED
    BY <1>2, <2>1, <2>2 DEF Rescaled
<1>3. CASE dts = NoTS
  BY <1>3 DEF Rescaled
<1> QED
  BY <1>2, <1>3

\* the packet in hand, even before the first one
LEMMA PacketType ==
  ASSUME TypeOK
  PROVE  pkt.dts \in Int \cup {NoTS} /\ pkt.stream \in Stream \cup {NoStream}
<1>1. CASE pkt = NoPacket
  BY <1>1 DEF NoPacket
<1>2. CASE pkt \in Packet
  BY <1>2, RemuxAssumption DEF Packet
<1> QED
  BY <1>1, <1>2 DEF TypeOK

\* where a run begins, the first one and every other
LEMMA FreshTypes ==
  /\ [ s \in Stream |-> NoTS ] \in [Stream -> Int \cup {NoTS}]
  /\ [ reads |-> 0, writes |-> 0 ] \in [ reads : Nat, writes : Nat ]
  /\ 0 \in 0 .. MaxRetry
BY RemuxAssumption

-----------------------------------------------------------------------------
(***************************************************************************)
(* The types.                                                              *)
(***************************************************************************)
LEMMA TypeStep ==
  ASSUME TypeOK, [Next]_vars
  PROVE  TypeOK'
<1> USE RemuxAssumption
<1>1. ASSUME NEW s \in Stream \cup {NoStream}, NEW dts \in Dts \cup {NoTS}, NEW pts \in PtsOf(dts),
             ReadPacket([ stream |-> s, dts |-> dts, pts |-> pts ])
      PROVE  TypeOK'
  <2>1. pts \in Int \cup {NoTS}
    BY DEF PtsOf
  <2>2. [ stream |-> s, dts |-> dts, pts |-> pts ] \in Packet
    BY <2>1 DEF Packet
  <2>3. [ failed EXCEPT !.reads = 0 ] \in [ reads : Nat, writes : Nat ]
    BY DEF TypeOK
  <2> QED
    BY <1>1, <2>2, <2>3 DEF ReadPacket, TypeOK, sent
<1>2. CASE ReadEnd
  BY <1>2 DEF ReadEnd, End, TypeOK, sent
<1>3. CASE ReadFail
  <2>1. failed.reads + 1 \in Nat
    BY DEF TypeOK
  <2>2. failed' \in [ reads : Nat, writes : Nat ]
    BY <1>3, <2>1 DEF ReadFail, TypeOK
  <2>3. readTrial' \in 0 .. MaxRetry
    BY <1>3 DEF ReadFail, TypeOK
  <2> QED
    BY <1>3, <2>2, <2>3 DEF ReadFail, End, TypeOK, sent
<1>4. CASE Check
  BY <1>4 DEF Check, End, TypeOK, trials, history, sent
<1>5. CASE Process
  <2>1. pkt.dts \in Int \cup {NoTS} /\ pkt.stream \in Stream \cup {NoStream}
    BY PacketType
  <2>2. lastDts' \in [Stream -> Int \cup {NoTS}]
    BY <1>5, <2>1 DEF Process, TypeOK
  <2>3. undated' \subseteq Stream \cup {NoStream}
    BY <1>5, <2>1 DEF Process, TypeOK
  <2> QED
    BY <1>5, <2>2, <2>3 DEF Process, End, TypeOK, trials
<1>6. Accepted \subseteq [Stream -> Int \cup {NoTS}]
  <2>1. Rescaled(pkt.dts) \in Int \cup {NoTS}
    BY PacketType, RescaledType
  <2>2. \A dts \in Int \cup {NoTS} :
          [ curDts EXCEPT ![pkt.stream] = dts ] \in [Stream -> Int \cup {NoTS}]
    BY DEF TypeOK
  <2> QED
    BY <2>1, <2>2 DEF Accepted
<1>7. ASSUME NextRound
      PROVE  /\ pc' \in {"read", "over"}
             /\ cause' \in {cause, "break"}
             /\ brk' = FALSE
             /\ pkt' = NoPacket
  BY <1>7 DEF NextRound, End
<1>8. CASE Write
  <2>1. failed' \in [ reads : Nat, writes : Nat ]
    BY <1>8 DEF Write, TypeOK
  <2> QED
    BY <1>6, <1>7, <1>8, <2>1 DEF Write, TypeOK, sent
<1>9. CASE WriteFail
  <2>1. failed.writes + 1 \in Nat
    BY DEF TypeOK
  <2>2. failed' \in [ reads : Nat, writes : Nat ]
    BY <1>9, <2>1 DEF WriteFail, TypeOK
  <2>3. curDts' \in [Stream -> Int \cup {NoTS}]
    BY <1>6, <1>9 DEF WriteFail, TypeOK
  <2>4. CASE remuxTrial < MaxRetry
    BY <1>7, <1>9, <2>2, <2>3, <2>4 DEF WriteFail, TypeOK, sent
  <2>5. CASE ~ (remuxTrial < MaxRetry)
    BY <1>9, <2>2, <2>3, <2>5 DEF WriteFail, End, TypeOK, sent
  <2> QED
    BY <2>4, <2>5
<1>10. CASE Begin
  BY <1>10 DEF Begin, TypeOK, trials, history, sent
<1>11. CASE Leave
  BY <1>11, FreshTypes DEF Leave, TypeOK
<1>12. CASE UNCHANGED vars
  BY <1>12 DEF vars, trials, history, sent, TypeOK
<1> QED
  BY <1>1, <1>2, <1>3, <1>4, <1>5, <1>8, <1>9, <1>10, <1>11, <1>12 DEF Next

\* Every variable of remux_loop keeps its type; in particular the retry
\* counters never leave 0 .. MAX_RETRY (remux_loop.cpp, lines 53 and 104).
THEOREM RemuxTypeCorrect == Spec => []TypeOK
<1>1. Init => TypeOK
  BY FreshTypes DEF Init, TypeOK
<1> QED
  BY <1>1, TypeStep, PTL DEF Spec

-----------------------------------------------------------------------------
(***************************************************************************)
(* Giving up.  GivesUpInTime compares the failures in a row with what      *)
(* ended the run; in between it is the counters of remux_loop that agree   *)
(* with the failures, as long as the run goes on.                          *)
(***************************************************************************)
CountsAgree ==
  /\ (pc # "over") <=> (cause = "none")
  /\ failed.reads = IF cause = "read" THEN MaxRetry + 1 ELSE readTrial
  /\ failed.writes = IF cause = "remux" THEN MaxRetry + 1 ELSE remuxTrial

LEMMA CountsInit == Init => CountsAgree
BY DEF Init, CountsAgree

LEMMA CountsStep ==
  ASSUME TypeOK, CountsAgree, [Next]_vars
  PROVE  CountsAgree'
<1> USE RemuxAssumption
<1>0. /\ failed \in [ reads : Nat, writes : Nat ]
      /\ readTrial \in 0 .. MaxRetry /\ remuxTrial \in 0 .. MaxRetry
  BY DEF TypeOK
<1>1. ASSUME NEW p, ReadPacket(p) PROVE CountsAgree'
  <2>1. failed'.reads = 0 /\ failed'.writes = failed.writes
    BY <1>0, <1>1 DEF ReadPacket
  <2> QED
    BY <1>1, <2>1 DEF ReadPacket, CountsAgree
<1>2. CASE ReadEnd
  <2>1. failed'.reads = 0 /\ failed'.writes = failed.writes
    BY <1>0, <1>2 DEF ReadEnd
  <2> QED
    BY <1>2, <2>1 DEF ReadEnd, End, CountsAgree
<1>3. CASE ReadFail
  <2>1. failed'.reads = failed.reads + 1 /\ failed'.writes = failed.writes
    BY <1>0, <1>3 DEF ReadFail
  <2>2. CASE readTrial < MaxRetry
    BY <1>0, <1>3, <2>1, <2>2 DEF ReadFail, CountsAgree
  <2>3. CASE ~ (readTrial < MaxRetry)
    BY <1>0, <1>3, <2>1, <2>3 DEF ReadFail, End, CountsAgree
  <2> QED
    BY <2>2, <2>3
<1>4. CASE Check
  BY <1>4 DEF Check, End, CountsAgree, trials, history
<1>5. CASE Process
  BY <1>5 DEF Process, End, CountsAgree, trials
<1>6. CASE Write
  <2>1. failed'.writes = 0 /\ failed'.reads = failed.reads
    BY <1>0, <1>6 DEF Write
  <2> QED
    BY <1>6, <2>1 DEF Write, NextRound, End, CountsAgree
<1>7. CASE WriteFail
  <2>1. failed'.writes = failed.writes + 1 /\ failed'.reads = failed.reads
    BY <1>0, <1>7 DEF WriteFail
  <2>2. CASE remuxTrial < MaxRetry
    BY <1>0, <1>7, <2>1, <2>2 DEF WriteFail, NextRound, End, CountsAgree
  <2>3. CASE ~ (remuxTrial < MaxRetry)
    BY <1>0, <1>7, <2>1, <2>3 DEF WriteFail, End, CountsAgree
  <2> QED
    BY <2>2, <2>3
<1>8. CASE Begin
  BY <1>8 DEF Begin, CountsAgree, trials, history
<1>9. CASE Leave
  BY <1>9 DEF Leave, CountsAgree
<1>10. CASE UNCHANGED vars
  BY <1>10 DEF vars, trials, history, CountsAgree
<1> QED
  BY <1>1, <1>2, <1>3, <1>4, <1>5, <1>6, <1>7, <1>8, <1>9, <1>10 DEF Next

\* For every limit: a run ends by failures exactly when there have been
\* MAX_RETRY + 1 of a kind in a row (remux_loop.cpp, lines 52-61, 104-110).
THEOREM RemuxGivesUpInTime == Spec => []GivesUpInTime
<1>1. TypeOK /\ CountsAgree => GivesUpInTime
  BY RemuxAssumption DEF TypeOK, CountsAgree, GivesUpInTime
<1> QED
  BY <1>1, RemuxTypeCorrect, CountsInit, CountsStep, PTL DEF Spec

-----------------------------------------------------------------------------
(***************************************************************************)
(* The timestamps, for sinks whose ticks are no shorter than those of the  *)
(* source.  What the muxer has recorded of a stream, if it is above zero,  *)
(* is never later than the latest packet that passed the test (rescaling   *)
(* makes it no later, and writes may have failed in between); a stream     *)
(* that has had a packet without a dts is out of the account.              *)
(***************************************************************************)
RecordedInTime ==
  /\ pc \in {"process", "write"} => pkt.stream \in Stream
  /\ pc = "process" => ~ OutOfOrder(pkt.stream, pkt.dts)
  /\ pc = "write" =>
       /\ lastDts[pkt.stream] = pkt.dts
       /\ pkt.dts = NoTS => pkt.stream \in undated
  /\ \A s \in Stream \ undated :
       curDts[s] # NoTS /\ curDts[s] > 0 => lastDts[s] # NoTS /\ curDts[s] <= lastDts[s]
  /\ cause = "dts" => pkt.stream \in Stream /\ OutOfOrder(pkt.stream, pkt.dts)

\* where timestamps are above zero, longer ticks make them no later
LEMMA RescaledNoLater ==
  ASSUME Num <= Den, NEW dts \in Int, Rescaled(dts) > 0
  PROVE  Rescaled(dts) <= dts
<1>1. Den \in Nat /\ Den > 0 /\ Num \in Nat /\ dts # NoTS
  BY RemuxAssumption
<1>2. \A a, b \in Int : a < b * Den => a \div Den < b
  <2> SUFFICES ASSUME NEW a \in Int, NEW b \in Int, b <= a \div Den
               PROVE  b * Den <= a
    BY <1>1
  <2>1. a = Den * (a \div Den) + (a % Den) /\ a % Den \in 0 .. (Den - 1) /\ a \div Den \in Int
    BY <1>1
  <2>2. b * Den <= Den * (a \div Den)
    BY <1>1, <2>1
  <2> QED
    BY <1>1, <2>1, <2>2
<1>3. Den \div 2 \in Nat /\ Den \div 2 < Den
  BY <1>1
<1>4. CASE dts >= 0
  <2>1. dts * Num <= dts * Den
    BY <1>1, <1>4
  <2>2. dts * Num + Den \div 2 < (dts + 1) * Den /\ dts * Num + Den \div 2 \in Int
    BY <1>1, <1>3, <2>1
  <2>3. (dts * Num + Den \div 2) \div Den < dts + 1 /\ (dts * Num + Den \div 2) \div Den \in Int
    BY <1>1, <1>2, <2>2
  <2> QED
    BY <1>1, <1>4, <2>3 DEF Rescaled
<1>5. CASE dts < 0
  <2>1. (- dts) * Num \in Nat
    BY <1>1, <1>5
  <2>2. (- dts) * Num + Den \div 2 \in Nat
    BY <1>3, <2>1
  <2>3. ((- dts) * Num + Den \div 2) \div Den \in Nat
    BY <1>1, <2>2
  <2>4. ~ (Rescaled(dts) > 0)
    BY <1>1, <1>5, <2>3 DEF Rescaled
  <2> QED
    BY <2>4
<1> QED
  BY <1>1, <1>4, <1>5

LEMMA RecordedInit == Init => RecordedInTime
BY DEF Init, RecordedInTime

LEMMA RecordedStep ==
  ASSUME Num <= Den, TypeOK, RecordedInTime, CountsAgree, [Next]_vars
  PROVE  RecordedInTime'
<1> USE RemuxAssumption
<1>0. /\ curDts \in [Stream -> Int \cup {NoTS}]
      /\ lastDts \in [Stream -> Int \cup {NoTS}]
      /\ pkt.dts \in Int \cup {NoTS}
  BY PacketType DEF TypeOK
<1>1. ASSUME NEW p, ReadPacket(p) PROVE RecordedInTime'
  <2>1. cause = "none"
    BY <1>1 DEF ReadPacket, CountsAgree
  <2> QED
    BY <1>1, <2>1 DEF ReadPacket, RecordedInTime, sent
<1>2. CASE ReadEnd
  BY <1>2 DEF ReadEnd, End, RecordedInTime, OutOfOrder, sent
<1>3. CASE ReadFail
  BY <1>3 DEF ReadFail, End, RecordedInTime, OutOfOrder, sent
<1>4. CASE Check
  <2>1. UNCHANGED << pkt, curDts, lastDts, undated >> /\ pc' \in {"process", "over"}
    BY <1>4 DEF Check, End, trials, history, sent
  <2>2. pc' = "process" => pkt.stream \in Stream /\ ~ OutOfOrder(pkt.stream, pkt.dts)
    BY <1>4, PacketType DEF Check, End
  <2>3. cause' = "dts" => pkt.stream \in Stream /\ OutOfOrder(pkt.stream, pkt.dts)
    BY <1>4, PacketType DEF Check, End, CountsAgree
  <2> QED
    BY <2>1, <2>2, <2>3 DEF RecordedInTime, OutOfOrder
<1>5. CASE Process
  <2>1. pkt.stream \in Stream /\ ~ OutOfOrder(pkt.stream, pkt.dts)
    BY <1>5 DEF Process, RecordedInTime
  <2>2. /\ lastDts'[pkt.stream] = pkt.dts
        /\ \A s \in Stream \ {pkt.stream} : lastDts'[s] = lastDts[s]
    BY <1>0, <1>5, <2>1 DEF Process
  <2>3. /\ undated \subseteq undated'
        /\ pkt.dts = NoTS => pkt.stream \in undated'
    BY <1>5 DEF Process
  <2>4. ASSUME NEW s \in Stream \ undated', curDts[s] # NoTS, curDts[s] > 0
        PROVE  lastDts'[s] # NoTS /\ curDts[s] <= lastDts'[s]
    <3>1. CASE s = pkt.stream
      BY <1>0, <2>1, <2>2, <2>3, <2>4, <3>1 DEF OutOfOrder
    <3>2. CASE s # pkt.stream
      BY <2>2, <2>3, <2>4, <3>2 DEF RecordedInTime
    <3> QED
      BY <3>1, <3>2
  <2>5. /\ UNCHANGED << curDts, pkt >>
        /\ pc' \in {"write", "over"}
        /\ cause' \in {"none", "processor"}
    BY <1>5 DEF Process, End, CountsAgree
  <2> QED
    BY <2>1, <2>2, <2>3, <2>4, <2>5 DEF RecordedInTime
<1>6. ASSUME pc = "write",
             curDts' \in {curDts} \cup Accepted,
             UNCHANGED sent,
             pc' \in {"read", "over"},
             cause' \in {cause, "break", "remux"}
      PROVE  RecordedInTime'
  <2>1. /\ pkt.stream \in Stream
        /\ lastDts[pkt.stream] = pkt.dts
        /\ pkt.dts = NoTS => pkt.stream \in undated
        /\ cause = "none"
    BY <1>6 DEF RecordedInTime, CountsAgree
  <2>2. ASSUME NEW s \in Stream \ undated, curDts'[s] # NoTS, curDts'[s] > 0
        PROVE  lastDts[s] # NoTS /\ curDts'[s] <= lastDts[s]
    <3>1. CASE curDts' = curDts
      BY <2>2, <3>1 DEF RecordedInTime
    <3>2. CASE curDts' \in Accepted /\ s = pkt.stream
      <4>1. pkt.dts \in Int
        BY <1>0, <2>1, <2>2, <3>2
      <4>2. curDts'[s] = Rescaled(pkt.dts)
        BY <1>0, <2>1, <3>2, <4>1 DEF Accepted
      <4>3. Rescaled(pkt.dts) <= pkt.dts
        BY <2>2, <4>1, <4>2, RescaledNoLater
      <4> QED
        BY <2>1, <3>2, <4>1, <4>2, <4>3
    <3>3. CASE curDts' \in Accepted /\ s # pkt.stream
      <4>1. curDts'[s] = curDts[s]
        BY <1>0, <3>3 DEF Accepted
      <4> QED
        BY <2>2, <4>1 DEF RecordedInTime
    <3> QED
      BY <1>6, <3>1, <3>2, <3>3
  <2> QED
    BY <1>6, <2>1, <2>2 DEF RecordedInTime, sent
<1>7. CASE Write
  BY <1>6, <1>7 DEF Write, NextRound, End
<1>8. CASE WriteFail
  BY <1>6, <1>8 DEF WriteFail, NextRound, End
<1>9. CASE Begin
  BY <1>9 DEF Begin, RecordedInTime, OutOfOrder, trials, history, sent
<1>10. CASE Leave
  BY <1>10 DEF Leave, RecordedInTime
<1>11. CASE UNCHANGED vars
  BY <1>11 DEF vars, trials, history, sent, RecordedInTime, OutOfOrder
<1> QED
  BY <1>1, <1>2, <1>3, <1>4, <1>5, <1>7, <1>8, <1>9, <1>10, <1>11 DEF Next

\* For every source, every failing write and every sink whose ticks are no
\* shorter than the source's: no run ends with the message of remux_loop.cpp,
\* line 22, while its source is in order and its timestamps not below zero.
THEOREM AlarmsAreExplained == Num <= Den => (Spec => []AlarmsExplained)
<1> SUFFICES ASSUME Num <= Den PROVE Spec => []AlarmsExplained
  OBVIOUS
<1>1. ASSUME TypeOK, RecordedInTime, cause = "dts", InOrder
      PROVE  pkt.dts < 0
  <2>1. /\ pkt.stream \in Stream \ undated
        /\ pkt.dts \in Int
        /\ curDts[pkt.stream] \in Int \cup {NoTS}
        /\ lastDts[pkt.stream] \in Int \cup {NoTS}
        /\ OutOfOrder(pkt.stream, pkt.dts)
    BY <1>1, PacketType DEF TypeOK, RecordedInTime, InOrder
  <2> QED
    BY <1>1, <2>1, RemuxAssumption DEF RecordedInTime, InOrder, OutOfOrder
<1>2. TypeOK /\ RecordedInTime => AlarmsExplained
  BY <1>1 DEF AlarmsExplained
<1>3. TypeOK /\ CountsAgree /\ RecordedInTime /\ [Next]_vars => RecordedInTime'
  BY RecordedStep
<1> QED
  BY <1>2, <1>3, RemuxTypeCorrect, CountsInit, CountsStep, RecordedInit, PTL DEF Spec

-----------------------------------------------------------------------------
(***************************************************************************)
(* The loop of a run is RemuxLoop.                                         *)
(***************************************************************************)
LEMMA LoopStep == [RunNext]_<< vars, run >> => [Next]_vars
<1> SUFFICES ASSUME [RunNext]_<< vars, run >>
             PROVE  [Next]_vars
  OBVIOUS
<1>1. CASE OpenSource \/ OpenSink \/ InitRemuxing \/ ClassifyStreams \/ RequireTimeSource \/ Throw
  BY <1>1 DEF OpenSource, OpenSink, InitRemuxing, ClassifyStreams, RequireTimeSource, Throw, Line
<1>2. CASE StartSink
  BY <1>2 DEF StartSink, Next
<1>3. CASE Loop
  BY <1>3 DEF Loop
<1>4. CASE Close
  BY <1>4 DEF Close, Leaving, Next
<1>5. CASE UNCHANGED << vars, run >>
  BY <1>5
<1> QED
  BY <1>1, <1>2, <1>3, <1>4, <1>5 DEF RunNext

\* Opening and closing handles around it takes nothing from the loop: what is
\* proved of RemuxLoop holds in every run (remux_loop.cpp, lines 41-116, called
\* by extractor.cpp, line 232, and injector.cpp, line 258).
THEOREM RunImplementsLoop == RunSpec => Spec
<1>1. RunInit => Init
  BY DEF RunInit
<1> QED
  BY <1>1, LoopStep, PTL DEF RunSpec, Spec

-----------------------------------------------------------------------------
(***************************************************************************)
(* The streams.  What CaptionsKeepTime says in the loop is established     *)
(* line by line before it; in the loop a packet of a stream the sink does  *)
(* not have gets no further than the check.                                *)
(***************************************************************************)
Classified ==
  /\ sc \in [ time_source : Videos \cup {None}, sei : Captioned \cup {None},
              scte : source.streams \cup {None} ]
  /\ sc.sei # None => sc.sei = sc.time_source

RunInvariant ==
  /\ stage # "remux_loop" => pc \in {"none", "over"}
  /\ stage \in {"require", "sink.start", "remux_loop"} => Classified
  /\ stage \in {"sink.start", "remux_loop"} => sc.time_source # None
  /\ stage = "remux_loop" /\ pc \notin {"none", "over"} =>
       /\ pc # "read" => pkt.stream \in source.streams \cup {NoStream}
       /\ pc \in {"process", "write"} => pkt.stream # NoStream

LEMMA RunInvariantInit == RunInit => RunInvariant
BY DEF RunInit, Init, RunInvariant

\* what classify_streams finds
LEMMA ClassifiedBy == ClassifyStreams => Classified'
<1> SUFFICES ASSUME ClassifyStreams
             PROVE  Classified'
  OBVIOUS
<1>1. source' = source /\ sc' \in Classification
  BY DEF ClassifyStreams, handles
<1>2. sc' \in [ time_source : Videos \cup {None}, sei : Captioned \cup {None},
                scte : source.streams \cup {None} ]
  BY <1>1 DEF Classification, AnyOf, Streams
<1>3. sc'.sei # None => sc'.sei = sc'.time_source
  BY <1>1 DEF Classification
<1> QED
  BY <1>1, <1>2, <1>3 DEF Classified, Videos, Captioned, Streams

\* the steps of the loop, as far as packets and streams are concerned
LEMMA LoopPackets ==
  ASSUME TypeOK, RunInvariant, Loop
  PROVE  /\ pc' # "none"
         /\ pc' \notin {"over", "read"} => pkt'.stream \in source.streams \cup {NoStream}
         /\ pc' \in {"process", "write"} => pkt'.stream # NoStream
<1>1. pc \notin {"none", "over"} /\ pkt'.stream \in source.streams \cup {NoStream} /\ Next
  BY DEF Loop
<1>2. pc \in {"process", "write"} => pkt.stream # NoStream
  BY <1>1 DEF RunInvariant, Loop
<1>3. CASE \E s \in Stream \cup {NoStream}, dts \in Dts \cup {NoTS} :
             \E pts \in PtsOf(dts) : ReadPacket([ stream |-> s, dts |-> dts, pts |-> pts ])
  BY <1>1, <1>3 DEF ReadPacket
<1>4. CASE ReadEnd \/ ReadFail
  BY <1>1, <1>4 DEF ReadEnd, ReadFail, End
<1>5. CASE Check
  BY <1>1, <1>5 DEF Check, End
<1>6. CASE Process
  BY <1>1, <1>2, <1>6 DEF Process, End
<1>7. CASE Write \/ WriteFail
  BY <1>1, <1>7 DEF Write, WriteFail, NextRound, End
<1>8. CASE Begin \/ Leave
  BY <1>1, <1>8 DEF Begin, Leave
<1> QED
  BY <1>1, <1>3, <1>4, <1>5, <1>6, <1>7, <1>8 DEF Next

LEMMA RunInvariantStep ==
  ASSUME TypeOK, RunInvariant, [RunNext]_<< vars, run >>
  PROVE  RunInvariant'
<1>1. CASE OpenSource
  BY <1>1 DEF OpenSource, Line, vars, RunInvariant
<1>2. CASE OpenSink
  BY <1>2 DEF OpenSink, Line, vars, RunInvariant
<1>3. CASE InitRemuxing
  BY <1>3 DEF InitRemuxing, Line, vars, RunInvariant
<1>4. CASE ClassifyStreams
  BY <1>4, ClassifiedBy DEF ClassifyStreams, Line, vars, RunInvariant
<1>5. ASSUME UNCHANGED << sc, source >>
      PROVE  Classified' <=> Classified
  BY <1>5 DEF Classified, Videos, Captioned, Streams
<1>6. CASE RequireTimeSource
  BY <1>5, <1>6 DEF RequireTimeSource, Line, vars, handles, RunInvariant
<1>7. CASE StartSink
  BY <1>5, <1>7 DEF StartSink, Begin, RunInvariant
<1>8. CASE Throw
  BY <1>8 DEF Throw, Line, vars, RunInvariant
<1>9. CASE Loop
  BY <1>5, <1>9, LoopPackets DEF Loop, handles, RunInvariant
<1>10. CASE Close
  BY <1>10 DEF Close, Leaving, Leave, vars, RunInvariant
<1>11. CASE UNCHANGED << vars, run >>
  BY <1>5, <1>11 DEF vars, run, handles, RunInvariant
<1> QED
  BY <1>1, <1>2, <1>3, <1>4, <1>6, <1>7, <1>8, <1>9, <1>10, <1>11 DEF RunNext

\* For every source, with whatever streams it has in each run: the processors
\* have a time source, it is the stream with the captions if there is one, and
\* no packet of a stream that the sink does not have is written.
THEOREM CaptionsAlwaysKeepTime == RunSpec => []CaptionsKeepTime
<1>1. ASSUME RunInvariant, stage = "remux_loop"
      PROVE  /\ sc.time_source \in Videos
             /\ sc.sei # None => sc.sei = sc.time_source
             /\ \A kind \in DOMAIN sc : sc[kind] \in source.streams \cup {None}
             /\ pc = "write" => pkt.stream \in source.streams
  <2>1. Classified /\ sc.time_source # None
    BY <1>1 DEF RunInvariant
  <2>2. DOMAIN sc = {"time_source", "sei", "scte"}
    BY <2>1 DEF Classified
  <2>3. Videos \subseteq source.streams /\ Captioned \subseteq source.streams
    BY DEF Videos, Captioned, Streams
  <2>4. \A kind \in DOMAIN sc : sc[kind] \in source.streams \cup {None}
    BY <2>1, <2>2, <2>3 DEF Classified
  <2>5. pc = "write" => pkt.stream \in source.streams
    BY <1>1 DEF RunInvariant
  <2> QED
    BY <2>1, <2>4, <2>5 DEF Classified
<1>2. RunInvariant => CaptionsKeepTime
  BY <1>1 DEF CaptionsKeepTime
<1>3. RunSpec => []TypeOK
  BY RunImplementsLoop, RemuxTypeCorrect, PTL
<1> QED
  BY <1>2, <1>3, RunInvariantInit, RunInvariantStep, PTL DEF RunSpec

-----------------------------------------------------------------------------
(***************************************************************************)
(* Headers and trailers.                                                   *)
(***************************************************************************)
TrailerDue ==
  /\ should_write_trailer = (sink = "started")
  /\ stage \notin {"remux_loop", "close"} => sink # "started"

LEMMA TrailerDueStep == TrailerDue /\ [RunNext]_<< vars, run >> => TrailerDue'
<1> SUFFICES ASSUME TrailerDue, [RunNext]_<< vars, run >>
             PROVE  TrailerDue'
  OBVIOUS
<1>1. CASE OpenSource \/ OpenSink \/ InitRemuxing \/ ClassifyStreams \/ RequireTimeSource
  BY <1>1 DEF OpenSource, OpenSink, InitRemuxing, ClassifyStreams, RequireTimeSource, Line,
              handles, TrailerDue
<1>2. CASE StartSink
  BY <1>2 DEF StartSink, TrailerDue
<1>3. CASE Throw \/ Loop
  BY <1>3 DEF Throw, Loop, Line, handles, TrailerDue
<1>4. CASE Close
  BY <1>4 DEF Close, Leaving, TrailerDue
<1>5. CASE UNCHANGED << vars, run >>
  BY <1>5 DEF run, handles, TrailerDue
<1> QED
  BY <1>1, <1>2, <1>3, <1>4, <1>5 DEF RunNext

\* However a run ends, a sink with a header is left with its trailer
\* (sink_handle.cpp, lines 10-18 and 91).
THEOREM TrailersAlwaysWritten == RunSpec => []HeadersHaveTrailers
<1>1. RunInit => TrailerDue
  BY DEF RunInit, TrailerDue
<1>2. TrailerDue => HeadersHaveTrailers
  BY DEF TrailerDue, HeadersHaveTrailers
<1> QED
  BY <1>1, <1>2, TrailerDueStep, PTL DEF RunSpec
=============================================================================

------------------------------- MODULE Packets -------------------------------
(***************************************************************************)
(* What the processors of extractors and injector do with the bytes of one *)
(* packet: SeiInjector::process rewrites a video packet of the output      *)
(* (src/proc/injector.cpp), SeiExtractor::process and                      *)
(* ScteExtractor::process look for metadata (src/proc/extractor.cpp).      *)
(* Whom the captions belong to, and when they are due, is in Mixer.tla.    *)
(*                                                                         *)
(* A processor keeps nothing of one packet for the next, and works on one  *)
(* of its own: one packet at a time is all there is to see.                *)
(***************************************************************************)
EXTENDS NalUnits, Scte35Emitter, Scte35Parser

CONSTANTS
  \* packets of video: their NAL units, the SEI messages in each of them, and
  \* how many bytes at the end were lost
  VideoPacket,
  \* what a query of the injector may return: sequences of SEI messages (of
  \* one that holds no captions, when the input has none)
  Metadata,
  \* packets of splice information: their sections, what the sender made of
  \* each of them, whether they begin with a pointer field, and how many bytes
  \* at the end were lost
  SplicePacket

\* A NAL unit is of a length that can be declared.  Of the last one, a part
\* may be lost; where whole units are missing they have not been sent.
ASSUME PacketsAssumption ==
  /\ \A v \in VideoPacket :
       /\ v.units \in Seq(Seq(Byte)) /\ v.lost \in Nat
       /\ \A i \in DOMAIN v.units : v.units[i] # << >> /\ Len(v.units[i]) <= MAX_LENGTH
       /\ v.units # << >> => v.lost < 4 + Len(Last(v.units))
  /\ None \notin Seq(Seq(Byte)) \cup Seq(SeiPayload)
  /\ Metadata \subseteq Seq(SeiPayload) \ { << >> }
  /\ \A s \in SplicePacket : s.bytes \in Seq(Seq(Byte)) /\ s.lost \in Nat

VARIABLES
  build,      \* the choices of the compiler, see Scte35Parser
  task,       \* the processor that has a packet
  sent,       \* the packet as its source describes it
  found,      \* found_sei_metadata
  packet,     \* its bytes
  cursor,     \* m_data of the parser of the packet
  units,      \* the NAL units collected by the injector
  unit,       \* the SEI unit the extractor is in, and m_data of its parser
  rounds,     \* how often the loops over the packet have gone round (auxiliary)
  pushed,     \* what the extractor has pushed to the queue
  outcome     \* how process ended, once it has

vars == << build, task, sent, found, packet, cursor, units, unit, rounds,
           pushed, outcome >>

NoUnit == [ sodb |-> << >>, cursor |-> 1 ]

\* what a processor pushes
Pushed == IF task = "splice" THEN SpliceInfoSection ELSE [ order : Nat, val : SeiPayload ]

TypeOK ==
  /\ build \in Build
  /\ task \in {"none", "inject", "extract", "splice"}
  /\ found \in Seq(SeiPayload)
  /\ packet \in Seq(Byte) /\ units \in Seq(Seq(Byte))
  /\ unit \in [ sodb : Seq(Byte), cursor : Nat ]
  /\ outcome # "ok" => cursor \in 1 .. Len(packet) + 1
  /\ unit.cursor \in 1 .. Len(unit.sodb) + 1
  /\ rounds \in Nat
  /\ pushed \in Seq(Pushed)
  /\ outcome \in {"none", "ok", "parse error", "thrown"}

Init ==
  /\ build \in Build
  /\ task = "none" /\ sent = None /\ found = << >>
  /\ packet = << >> /\ cursor = 1 /\ units = << >> /\ unit = NoUnit
  /\ rounds = 0 /\ pushed = << >> /\ outcome = "none"

-----------------------------------------------------------------------------
(* the packet is read *)

\* their bytes, without those that were lost
Without(lost, s) == SubSeq(s, 1, Len(s) - lost)
VideoBytes(v) == Without(v.lost, Each(emit_avcc_nalu, v.units))
SpliceBytes(s) ==
  Without(s.lost, (IF s.pointer THEN << 0 >> ELSE << >>) \o FlattenSeq(s.bytes))

Receive(what, p, bytes, metadata) ==
  /\ task = "none"
  /\ task' = what /\ sent' = p /\ packet' = bytes /\ found' = metadata
  /\ UNCHANGED << build, cursor, units, unit, rounds, pushed, outcome >>

\* remux_loop goes on: the packet is written, or the exception ends the run
Pass ==
  /\ outcome # "none"
  /\ task' = "none" /\ sent' = None /\ found' = << >>
  /\ packet' = << >> /\ cursor' = 1 /\ units' = << >> /\ unit' = NoUnit
  /\ rounds' = 0 /\ pushed' = << >> /\ outcome' = "none"
  /\ UNCHANGED build

Working(what) == task = what /\ outcome = "none"

End(how) ==
  /\ outcome' = how
  /\ UNCHANGED << build, task, sent, found, cursor, units, unit, rounds, pushed >>

-----------------------------------------------------------------------------
(* SeiInjector::process *)

\* the SEI messages from position p on, and all those of a SEI unit, if they
\* can be parsed
MessagesFrom(d, p) ==
  LET from[q \in Nat] ==
        IF q > Len(d) THEN << >>
        ELSE LET b == sei_parser_next(d, q)
                 rest == from[b.last + 1]
             IN IF b = Malformed \/ rest = None THEN None
                ELSE << [ type |-> b.type, data |-> SubSeq(d, b.first, b.last) ] >> \o rest
  IN from[p]
Messages(nalu) == MessagesFrom(copy_ebsp_to_sodb(nalu), 2)

\* those elements of a sequence that pass a test
Only(Test(_), s) ==
  FlattenSeq([ i \in DOMAIN s |-> IF Test(s[i]) THEN << s[i] >> ELSE << >> ])

NotCC(sei) == sei.type # USER_DATA_REGISTERED
strip_cc(nalu) == Only(NotCC, Messages(nalu))

Collect ==
  /\ Working("inject") /\ cursor <= Len(packet)
  /\ LET b == next_avcc_bounds(packet, cursor)
         nalu == SubSeq(packet, b.first, b.last)
     IN IF b = Malformed
        THEN End("parse error") /\ UNCHANGED packet
        ELSE /\ cursor' = b.last + 1 /\ rounds' = rounds + 1
             /\ units' = IF is_valid(nalu) THEN Append(units, nalu) ELSE units
             /\ UNCHANGED << build, task, sent, found, packet, unit, pushed, outcome >>

\* how many units are expected before the SEI
Lead(us) ==
  CHOOSE k \in 0 .. Len(us) :
    /\ \A i \in 1 .. k : NaluType(us[i]) \in {AUD, SPS, PPS}
    /\ k < Len(us) => NaluType(us[k + 1]) \notin {AUD, SPS, PPS}

\* the first unit after those, if it is SEI, and what follows it
Old(us) == IF Lead(us) < Len(us) /\ NaluType(us[Lead(us) + 1]) = SEI THEN 1 ELSE 0
First(us) == us[Lead(us) + 1]
Rest(us) == SubSeq(us, Lead(us) + Old(us) + 1, Len(us))

Rewritten(us, seis) ==
  Each(emit_avcc_nalu, SubSeq(us, 1, Lead(us)))
    \o emit_sei_payloads_to_avcc_nalu(seis)
    \o Each(emit_avcc_nalu, Rest(us))

Collected == Working("inject") /\ cursor > Len(packet)
Injected == (IF Old(units) = 1 THEN strip_cc(First(units)) ELSE << >>) \o found

\* grow_packet, shrink_packet and the copy
Rewrite ==
  /\ Collected
  /\ Old(units) = 1 => HasStopBit(First(units)) /\ Messages(First(units)) # None
  /\ packet' = Rewritten(units, Injected)
  /\ End("ok")

\* the packet stays as it was
StripFails ==
  /\ Collected /\ Old(units) = 1
  /\ End(IF HasStopBit(First(units)) THEN "parse error" ELSE "thrown")
  /\ ~ HasStopBit(First(units)) \/ Messages(First(units)) = None
  /\ UNCHANGED packet

-----------------------------------------------------------------------------
(* SeiExtractor::process *)

InUnit == unit.cursor <= Len(unit.sodb)

ReadUnit ==
  /\ Working("extract") /\ ~ InUnit /\ cursor <= Len(packet)
  /\ UNCHANGED packet
  /\ LET b == next_avcc_bounds(packet, cursor)
         nalu == SubSeq(packet, b.first, b.last)
         isSei == is_valid(nalu) /\ NaluType(nalu) = SEI
     IN IF b = Malformed THEN End("parse error")
        ELSE IF isSei /\ ~ HasStopBit(nalu) THEN End("thrown")
        ELSE /\ cursor' = b.last + 1 /\ rounds' = rounds + 1
             /\ unit' = IF isSei THEN [ sodb |-> copy_ebsp_to_sodb(nalu), cursor |-> 2 ]
                                 ELSE NoUnit
             /\ UNCHANGED << build, task, sent, found, units, pushed, outcome >>

ReadMessage ==
  /\ Working("extract") /\ InUnit
  /\ UNCHANGED packet
  /\ LET b == sei_parser_next(unit.sodb, unit.cursor)
         sei == [ type |-> b.type, data |-> SubSeq(unit.sodb, b.first, b.last) ]
     IN IF b = Malformed THEN End("parse error")
        ELSE /\ rounds' = rounds + 1
             /\ unit' = [ unit EXCEPT !.cursor = b.last + 1 ]
             /\ pushed' = IF NotCC(sei) THEN pushed
                          ELSE Append(pushed, [ order |-> Len(pushed), val |-> sei ])
             /\ UNCHANGED << build, task, sent, found, cursor, units, outcome >>

-----------------------------------------------------------------------------
(* ScteExtractor::process; a packet holds whole sections *)

\* mutant of ReadSection: m_data is moved to the section, and not past it
ReadSectionAgain ==
  /\ Working("splice") /\ cursor <= Len(packet)
  /\ UNCHANGED packet
  /\ LET b == scte35_parser_next(packet, cursor)
         section == scte35_parser_pack(packet, b.start, b.last, build)
     IN IF b = None \/ section = None
        THEN End(IF b # None /\ section_throws(packet, b.start, b.last, build)
                 THEN "thrown" ELSE "parse error")
        ELSE /\ cursor' = b.start /\ rounds' = rounds + 1
             /\ pushed' = Append(pushed, section)
             /\ UNCHANGED << build, task, sent, found, units, unit, outcome >>

ReadSection ==
  /\ Working("splice") /\ cursor <= Len(packet)
  /\ UNCHANGED packet
  /\ LET b == scte35_parser_next(packet, cursor)
         section == scte35_parser_pack(packet, b.start, b.last, build)
     IN IF b = None \/ section = None
        THEN End(IF b # None /\ section_throws(packet, b.start, b.last, build)
                 THEN "thrown" ELSE "parse error")
        ELSE /\ cursor' = b.last + 1 /\ rounds' = rounds + 1
             /\ pushed' = Append(pushed, section)
             /\ UNCHANGED << build, task, sent, found, units, unit, outcome >>

\* both of them
AllRead ==
  /\ Working("extract") \/ Working("splice")
  /\ cursor > Len(packet) /\ ~ InUnit
  /\ End("ok") /\ UNCHANGED packet

-----------------------------------------------------------------------------
Process ==
  Collect \/ Rewrite \/ StripFails \/ ReadUnit \/ ReadMessage \/ ReadSection \/ AllRead

Next ==
  \/ \E v \in VideoPacket, m \in Metadata : Receive("inject", v, VideoBytes(v), m)
  \/ \E v \in VideoPacket : Receive("extract", v, VideoBytes(v), << >>)
  \/ \E s \in SplicePacket : Receive("splice", s, SpliceBytes(s), << >>)
  \/ Process
  \/ Pass

Spec == Init /\ [][Next]_vars

-----------------------------------------------------------------------------
(* what the packet says when it is read *)

\* the NAL units of a packet, by the code's own parser
UnitsIn(d) ==
  LET from[p \in Nat] ==
        IF p > Len(d) THEN << >>
        ELSE LET b == next_avcc_bounds(d, p)
                 rest == from[b.last + 1]
             IN IF b = Malformed \/ rest = None THEN None
                ELSE << SubSeq(d, b.first, b.last) >> \o rest
  IN from[1]

IsSei(nalu) == NaluType(nalu) = SEI
NotSei(nalu) == ~ IsSei(nalu)
BeforePicture(nalu) == NaluType(nalu) \in {AUD, SPS, PPS, SEI}
Rewrites == task = "inject" /\ outcome = "ok"

\* "Fixed broken NALUs in output" (CHANGELOG.md, line 11): in a rewritten
\* packet every unit that is not SEI is found whole and in its place, and
\* there is a SEI unit before the picture.  The length that the injector
\* declares for that unit is a sum of hints, not what it writes.
PicturesKept ==
  Rewrites =>
    LET new == UnitsIn(packet)
    IN /\ new # None
       /\ Only(NotSei, new) = Only(NotSei, Only(is_valid, sent.units))
       /\ \E k \in DOMAIN new :
            IsSei(new[k]) /\ \A i \in 1 .. k : BeforePicture(new[i])

FirstSei(us) == CHOOSE nalu \in Range(us) :
                  \E k \in DOMAIN us :
                    us[k] = nalu /\ IsSei(nalu) /\ \A i \in 1 .. k - 1 : NotSei(us[i])
HasMessage(nalu) == HasStopBit(nalu) /\ sei_parser_next(copy_ebsp_to_sodb(nalu), 2) # Malformed

\* the first message of a SEI unit
FirstMessage(nalu) ==
  LET d == copy_ebsp_to_sodb(nalu)
      b == sei_parser_next(d, 2)
  IN [ type |-> b.type, data |-> SubSeq(d, b.first, b.last) ]

\* README.md, line 42: the injector "pops matching metadata from queue,
\* injects closed captions and metadata".  Whoever reads the first SEI unit
\* of the rewritten packet finds the first of the messages that were to be
\* there, whole, and finds all of them if it is the only one.  (That all of
\* them are found is more than the code achieves: every message is followed
\* by a stop bit, after which a reader sees nothing but trailing bytes.)
FirstArrives ==
  Rewrites /\ Injected # << >> =>
    LET sei == FirstSei(UnitsIn(packet))
    IN /\ UnitsIn(packet) # None
       /\ HasMessage(sei) /\ FirstMessage(sei) = Injected[1]
       /\ Len(Injected) = 1 => Messages(sei) = Injected

\* What the sentence of the README says.  It does not hold: a second message
\* comes after the stop bit of the first.
CaptionsArrive ==
  Rewrites /\ found # << >> => Messages(FirstSei(UnitsIn(packet))) = Injected

-----------------------------------------------------------------------------
(* what has been pushed *)

\* how many elements of a sequence come before the first that is Bad
Before(Bad(_), s) == CHOOSE n \in 0 .. Len(s) :
                       /\ \A i \in 1 .. n : ~ Bad(i)
                       /\ n < Len(s) => Bad(n + 1)

IsCC(sei) == ~ NotCC(sei)
LostUnit(i) ==
  \/ i = Len(sent.units) /\ sent.lost > 0
  \/ is_valid(sent.units[i]) /\ IsSei(sent.units[i]) /\ ~ HasStopBit(sent.units[i])

\* Of a packet that can be read in part, SeiExtractor::process has pushed the
\* captions of that part: all of them, in their order, and nothing else.
CaptionsExtracted ==
  task = "extract" /\ outcome # "none" =>
    LET whole == FlattenSeq(SubSeq(sent.sei, 1, Before(LostUnit, sent.units)))
    IN /\ [ i \in DOMAIN pushed |-> pushed[i].val ] = Only(IsCC, whole)
       /\ \A i, j \in DOMAIN pushed : i < j => pushed[i].order < pushed[j].order

\* H.264, 7.3.2.3: what sent.sei has to do with sent.units.  In a SEI unit
\* that can be read, the messages follow one another, each after its type and
\* its size, which are bytes of 255 and a smaller one.
NumberBytes(n) == Append([ i \in 1 .. n \div 255 |-> 255 ], n % 255)
MessageBytes(sei) == NumberBytes(sei.type) \o NumberBytes(Len(sei.data)) \o sei.data
Carries(nalu, seis) ==
  IF is_valid(nalu) /\ IsSei(nalu) /\ HasStopBit(nalu)
  THEN copy_ebsp_to_sodb(nalu) = << nalu[1] >> \o Each(MessageBytes, seis)
  ELSE seis = << >>
AsStandardised ==
  \A v \in VideoPacket :
    /\ v.sei \in Seq(Seq(SeiPayload)) /\ Len(v.sei) = Len(v.units)
    /\ \A i \in DOMAIN v.units : Carries(v.units[i], v.sei[i])

\* What the parser refuses although it is well-formed: encrypted sections,
\* private commands (4 bytes are skipped twice), DTMF descriptors (the parser
\* expects a length that is one less), and, from the emitter of Metamix,
\* schedules with events that are not cancelled (it declares their length
\* wrongly).  And one that is not well-formed: with a segmentation descriptor
\* that is too short to have any data.
Refused(section, bytes) ==
  LET c == section.command IN
  \/ section.encrypted_packet
  \/ c.type = 255
  \/ \E d \in Range(section.descriptors) : d.tag = 1 \/ (d.tag = 2 /\ d.data = None)
  \/ /\ c.type = 4 /\ \E e \in Range(c.events) : e.more # None
     /\ bytes = EmitSection(section)

LostSection(i) ==
  \/ Refused(sent.sections[i], sent.bytes[i])
  \/ i = Len(sent.sections) /\ sent.lost > 0

\* in some builds the fields of a time descriptor are read in another order
Misread(section) ==
  /\ build # [ args |-> "left", sums |-> "left" ]
  /\ \E d \in Range(section.descriptors) : d.tag = 3

\* "parsed == splice" (test/scte35/parser_emitter_test.cpp, line 173): the
\* sections that are pushed are those that were sent, in their order, up to
\* the first that is damaged or refused.
SectionsExtracted ==
  task = "splice" /\ outcome # "none" =>
    LET n == Before(LostSection, sent.sections)
    IN /\ Len(pushed) = n
       /\ \A i \in 1 .. n :
            pushed[i] = sent.sections[i] \/ Misread(sent.sections[i])

\* Every packet is done with: each round of the loops of the parsers takes
\* at least one byte of it, whatever its lengths say.
LoopsAdvance == outcome = "none" => rounds <= Len(packet)
=============================================================================

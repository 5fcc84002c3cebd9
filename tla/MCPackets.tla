------------------------------ MODULE MCPackets ------------------------------
(***************************************************************************)
(* Packets for TLC, and the encoders on the other side: what arrives was   *)
(* written by somebody who follows the standards.                          *)
(***************************************************************************)
EXTENDS Packets

-----------------------------------------------------------------------------
(* video *)

\* H.264, 7.4.1: 00 00 is not followed by anything below 04 but 03
Escaped(s) ==
  FoldLeft(LAMBDA out, b :
             LET n == Len(out)
             IN IF n >= 2 /\ b <= 3 /\ out[n] = 0 /\ out[n - 1] = 0
                THEN out \o << 3, b >> ELSE Append(out, b), << >>, s)

\* H.264, 7.3.2.3: the messages one after the other, then the trailing bits
SeiNalu(seis) ==
  Escaped(<< SEI >> \o FlattenSeq([ i \in DOMAIN seis |->
                          << seis[i].type, Len(seis[i].data) >> \o seis[i].data ]) \o << 128 >>)

Caption(n) == [ type |-> 4, data |-> << 181, 0, n >> ]
Reset == [ type |-> 4, data |-> << 181, 0, 49, 255 >> ]
Zeros == [ type |-> 1, data |-> << 0, 0, 3, 0, 4 >> ]
Timing == [ type |-> 6, data |-> << 128 >> ]

Plain(nalu) == [ nalu |-> nalu, sei |-> << >> ]
Of(seis) == [ nalu |-> SeiNalu(seis), sei |-> seis ]

Leading == { << >>, << Plain(<< 9, 240 >>) >>,
          << Plain(<< 103, 1 >>), Plain(<< 104, 2 >>) >> }
Seis == { << >>,
          << Of(<< Timing >>) >>,
          << Of(<< Caption(1) >>) >>,
          << Of(<< Zeros, Caption(1), Caption(2) >>) >>,
          << Of(<< Caption(1) >>), Of(<< Zeros, Caption(2) >>) >>,
          << Plain(<< 134, 1 >>), Of(<< Caption(1) >>) >>,       \* not valid
          << Plain(<< SEI >>) >> }                               \* no stop bit
Pictures == { << Plain(<< 101, 136, 0, 0, 3, 1 >>) >>,
              << Plain(<< 65, 7 >>), Plain(<< 65, 8 >>) >>,
              << Plain(<< 65, 7 >>), Of(<< Caption(3) >>) >> }

MCVideoPacket ==
  { LET all == h \o s \o t
    IN [ units |-> [ i \in DOMAIN all |-> all[i].nalu ],
         sei |-> [ i \in DOMAIN all |-> all[i].sei ], lost |-> lost ] :
    h \in Leading, s \in Seis, t \in Pictures, lost \in {0, 1} }

\* they are what the extractor may expect
ASSUME Standardised == AsStandardised

\* the answer of an input without captions
Empty == [ type |-> 4, data |-> << 181, 0, 49, 0 >> ]

MCMetadata == { << Empty >>, << Caption(9) >>, << Reset, Caption(9) >> }

-----------------------------------------------------------------------------
(* splice information *)

Time == << 1, 225, 106, 26, 184 >>
Ids == << 0, 0, 2, 150 >>
Times == { [ pts_time |-> None ], [ pts_time |-> Time ] }
Durations == { None, [ auto_return |-> TRUE, duration |-> Time ] }

\* a splice_insert has the parts that its flags say it has
InsertMore ==
  { [ out_of_network |-> TRUE, program_splice |-> program, splice_immediate |-> immediate,
      splice_time |-> IF program /\ ~ immediate THEN time ELSE None,
      components |->
        IF program THEN None
        ELSE [ i \in 1 .. 2 |-> [ component_tag |-> i,
                                  splice_time |-> IF immediate THEN None ELSE time ] ],
      break_duration |-> duration,
      unique_program_id |-> 300, avail_num |-> 1, avails_expected |-> 2 ] :
    program, immediate \in BOOLEAN, time \in Times, duration \in Durations }

ScheduleMore ==
  { [ out_of_network |-> FALSE, splice |-> splice, break_duration |-> duration,
      unique_program_id |-> 1, avail_num |-> 0, avails_expected |-> 3 ] :
    duration \in Durations,
    splice \in { [ utc_splice_time |-> Ids ],
                [ components |-> [ i \in 1 .. 2 |-> [ component_tag |-> i,
                                                     utc_splice_time |-> Ids ] ] ] } }

Schedules ==
  { [ type |-> 4, events |-> << [ id |-> Ids, more |-> None ],
                                [ id |-> Ids, more |-> more ] >> ] : more \in ScheduleMore }
Readable ==
  { [ type |-> 0 ], [ type |-> 7 ],
    [ type |-> 4, events |-> << [ id |-> Ids, more |-> None ] >> ],
    [ type |-> 5, id |-> Ids, more |-> None ] }
  \cup { [ type |-> 5, id |-> Ids, more |-> more ] : more \in InsertMore }
  \cup { [ type |-> 6, splice_time |-> time ] : time \in Times }

Private == [ type |-> 255, identifier |-> Ids, bytes |-> << 1, 2, 3 >> ]

Avail == [ tag |-> 0, provider_avail_id |-> Ids ]
Segmentation == [ tag |-> 2, data |-> << 1, 2, 3 >> ]
UtcTime == [ tag |-> 3, tai_seconds |-> << 0, 1, 2, 3, 4, 5 >>,
             tai_nanoseconds |-> << 6, 7, 8, 9 >>, utc_offset |-> 37 ]
\* of which only the identifier is there, and not all of it declared
Short == [ tag |-> 2, data |-> None ]
Dtmf == [ tag |-> 1, preroll |-> 5, dtmf_chars |-> << 49, 50 >> ]

\* tier 0xfff, as it is when tiers are not used
Section(command, descriptors) ==
  [ encrypted_packet |-> FALSE, encryption_algorithm |-> 0, pts_adjustment |-> Time,
    cw_index |-> 255, tier |-> 4095, command |-> command, descriptors |-> descriptors ]

Sections ==
  { Section(c, ds) : c \in Readable,
      ds \in { << >>, << Avail >>, << Segmentation, Avail >>, << UtcTime, Avail >> } }
  \cup { Section(c, << >>) : c \in Schedules \cup {Private} }
  \cup { Section([ type |-> 7 ], << Avail, Dtmf >>),
         [ Section([ type |-> 0 ], << >>) EXCEPT !.encrypted_packet = TRUE ] }

Signal == Section([ type |-> 6, splice_time |-> [ pts_time |-> Time ] ], << Avail >>)

\* SCTE 35, 9.6, with lengths that are right, but for the short descriptor;
\* the commands and descriptors are written as emit does it
DescriptorBytes(d) == IF d = Short THEN << 2, 3 >> \o CUEI ELSE EmitDescriptor(d)

StandardSection(s) ==
  LET command == EmitCommand(s.command)
      descriptors == Each(DescriptorBytes, s.descriptors)
      body == << 252 >> \o write_12_prefix(3, 17 + Len(command) + Len(descriptors)) \o << 0 >>
                \o write_33_prefix(128 * Bit(s.encrypted_packet) + 2 * s.encryption_algorithm,
                                   s.pts_adjustment)
                \o << s.cw_index, s.tier \div 16,
                      16 * (s.tier % 16) + Len(command) \div 256, Len(command) % 256,
                      s.command.type >>
                \o command \o write_16(Len(descriptors)) \o descriptors
  IN body \o Checksum(body)

Packet(pointer, sections, Encode(_), lost) ==
  [ pointer |-> pointer, sections |-> sections, lost |-> lost,
    bytes |-> [ i \in DOMAIN sections |-> Encode(sections[i]) ] ]

\* from the emitter of Metamix, as in its tests, and from others
MCSplicePacket ==
  { Packet(TRUE, << s >>, EmitSection, 0) : s \in Sections }
  \cup { Packet(FALSE, << Signal, s, Signal >>, EmitSection, lost) :
           s \in Sections, lost \in {0, 1} }
  \cup { Packet(pointer, << [ s EXCEPT !.tier = 291 ], Signal >>, StandardSection, 0) :
           s \in Sections, pointer \in BOOLEAN }
  \cup { Packet(FALSE, << Signal, Section([ type |-> 7 ], ds), Signal >>, StandardSection, 0) :
           ds \in { << Short >>, << Avail, Short >> } }
=============================================================================

------------------------------- MODULE Scte35 -------------------------------
(***************************************************************************)
(* Splice information, as src/scte35/scte35.h declares it: the values that *)
(* the parser builds and the emitter takes.  A std::optional that holds    *)
(* nothing is None; of a std::variant, the type or tag tells which one it  *)
(* holds.                                                                  *)
(***************************************************************************)
EXTENDS Bytes

CONSTANT None

Optional(S) == S \cup {None}

SpliceTime == [ pts_time : Optional(U33) ]
BreakDuration == [ auto_return : BOOLEAN, duration : U33 ]

-----------------------------------------------------------------------------
(* commands *)
SpliceNull == [ type : {0} ]

ProgramSpliceOn == [ utc_splice_time : U32 ]
ProgramSpliceOff ==
  [ components : Seq([ component_tag : Byte, utc_splice_time : U32 ]) ]

ScheduleCancelOff ==
  [ out_of_network : BOOLEAN,
    splice : ProgramSpliceOn \cup ProgramSpliceOff,
    break_duration : Optional(BreakDuration),
    unique_program_id : U16, avail_num : Byte, avails_expected : Byte ]

SpliceSchedule ==
  [ type : {4}, events : Seq([ id : U32, more : Optional(ScheduleCancelOff) ]) ]

InsertCancelOff ==
  [ out_of_network : BOOLEAN, program_splice : BOOLEAN, splice_immediate : BOOLEAN,
    splice_time : Optional(SpliceTime),
    components :
      Optional(Seq([ component_tag : Byte, splice_time : Optional(SpliceTime) ])),
    break_duration : Optional(BreakDuration),
    unique_program_id : U16, avail_num : Byte, avails_expected : Byte ]

SpliceInsert == [ type : {5}, id : U32, more : Optional(InsertCancelOff) ]
TimeSignal == [ type : {6}, splice_time : SpliceTime ]
BandwidthReservation == [ type : {7} ]
PrivateCommand == [ type : {255}, identifier : U32, bytes : Seq(Byte) ]

Command ==
  SpliceNull \cup SpliceSchedule \cup SpliceInsert \cup TimeSignal
    \cup BandwidthReservation \cup PrivateCommand

\* CancelOff::program_splice of a schedule: which alternative is held
program_splice(more) == "utc_splice_time" \in DOMAIN more.splice

-----------------------------------------------------------------------------
(* descriptors *)
CUEI == << 67, 85, 69, 73 >>      \* the identifier of all of them

AvailDescriptor == [ tag : {0}, provider_avail_id : U32 ]
DtmfDescriptor == [ tag : {1}, preroll : Byte, dtmf_chars : Seq(Byte) ]
SegmentationDescriptor == [ tag : {2}, data : Seq(Byte) ]
TimeDescriptor ==
  [ tag : {3}, tai_seconds : U48, tai_nanoseconds : U32, utc_offset : U16 ]

Descriptor ==
  AvailDescriptor \cup DtmfDescriptor \cup SegmentationDescriptor \cup TimeDescriptor

-----------------------------------------------------------------------------
SpliceInfoSection ==
  [ encrypted_packet : BOOLEAN, encryption_algorithm : U6,
    pts_adjustment : U33, cw_index : Byte, tier : U12,
    command : Command, descriptors : Seq(Descriptor) ]

\* CRC32 (src/scte35/crc32.h).  All that parser and emitter rely on is that a
\* section followed by its own checksum is told from a damaged one; a sum of
\* the bytes and their places does the same.
Checksum(s) ==
  LET sum[i \in 0 .. Len(s)] ==
        IF i = 0 THEN 0 ELSE (sum[i - 1] + (s[i] + 1) * (i + 1)) % 65536
  IN << 0, 0 >> \o write_16(sum[Len(s)])
=============================================================================

---------------------------- MODULE Scte35Emitter ----------------------------
(***************************************************************************)
(* src/scte35/emitter.h: how long a splice info section is going to be     *)
(* (the overloads of emit_size_hint) and its bytes (those of emit).  The   *)
(* lengths that a section declares of itself are the hints.                *)
(***************************************************************************)
EXTENDS Scte35, SequencesExt

\* what an optional member adds: Of(x) if there is an x
IfAny(x, Of(_), nothing) == IF x = None THEN nothing ELSE Of(x)

Total(Of(_), s) == FoldLeft(LAMBDA sum, x : sum + Of(x), 0, s)
Each(Of(_), s) == FlattenSeq([ i \in DOMAIN s |-> Of(s[i]) ])

-----------------------------------------------------------------------------
(* size hints *)
HintSpliceTime(t) == IF t.pts_time = None THEN 1 ELSE 5
HintBreakDuration(b) == 5

\* the size of the splice time or of the components is computed, and not added
HintScheduleCancelOff(more) == 1 + 4 + IfAny(more.break_duration, HintBreakDuration, 0)
HintEvent(event) == 5 + IfAny(event.more, HintScheduleCancelOff, 0)

HintComponent(c) == 1 + IfAny(c.splice_time, HintSpliceTime, 0)
HintComponents(cs) == 1 + Total(HintComponent, cs)
HintInsertCancelOff(more) ==
  1 + 4 + IfAny(more.splice_time, HintSpliceTime, 0)
        + IfAny(more.components, HintComponents, 0)
        + IfAny(more.break_duration, HintBreakDuration, 0)

HintCommand(c) ==
  CASE c.type \in {0, 7} -> 0
    [] c.type = 4        -> 1 + Total(HintEvent, c.events)
    [] c.type = 5        -> 5 + IfAny(c.more, HintInsertCancelOff, 0)
    [] c.type = 6        -> HintSpliceTime(c.splice_time)
    [] c.type = 255      -> 4 + Len(c.bytes)

HintDescriptor(d) ==
  CASE d.tag = 0 -> 2 + 8
    [] d.tag = 1 -> 8 + Len(d.dtmf_chars)
    [] d.tag = 2 -> 6 + Len(d.data)
    [] d.tag = 3 -> 2 + 16

HintDescriptors(ds) == Total(HintDescriptor, ds)

compute_section_length(s) == 17 + HintCommand(s.command) + HintDescriptors(s.descriptors)
HintSection(s) == 3 + compute_section_length(s)

-----------------------------------------------------------------------------
(* bytes *)
EmitSpliceTime(t) ==
  IF t.pts_time = None THEN << 127 >> ELSE write_33_prefix(255, t.pts_time)

EmitBreakDuration(b) == write_33_prefix(128 * Bit(b.auto_return), b.duration)

EmitTimedComponent(c) == << c.component_tag >> \o c.utc_splice_time

EmitProgramSplice(splice) ==
  IF "utc_splice_time" \in DOMAIN splice
  THEN splice.utc_splice_time
  ELSE << Len(splice.components) % 256 >> \o Each(EmitTimedComponent, splice.components)

EmitProgram(more) ==
  write_16(more.unique_program_id) \o << more.avail_num, more.avails_expected >>

EmitScheduleCancelOff(more) ==
  << 128 * Bit(more.out_of_network) + 64 * Bit(program_splice(more))
       + 32 * Bit(more.break_duration # None) + 31 >>
    \o EmitProgramSplice(more.splice)
    \o IfAny(more.break_duration, EmitBreakDuration, << >>)
    \o EmitProgram(more)

\* an event of a schedule, or a whole splice_insert
EmitEvent(event, EmitMore(_)) ==
  event.id \o IF event.more = None THEN << 255 >> ELSE << 127 >> \o EmitMore(event.more)

EmitScheduleEvent(event) == EmitEvent(event, EmitScheduleCancelOff)

EmitComponent(c) == << c.component_tag >> \o IfAny(c.splice_time, EmitSpliceTime, << >>)
EmitComponents(cs) == << Len(cs) % 256 >> \o Each(EmitComponent, cs)

EmitInsertCancelOff(more) ==
  << 128 * Bit(more.out_of_network) + 64 * Bit(more.program_splice)
       + 32 * Bit(more.break_duration # None) + 16 * Bit(more.splice_immediate) + 15 >>
    \o IfAny(more.splice_time, EmitSpliceTime, << >>)
    \o IfAny(more.components, EmitComponents, << >>)
    \o IfAny(more.break_duration, EmitBreakDuration, << >>)
    \o EmitProgram(more)

EmitCommand(c) ==
  CASE c.type \in {0, 7} -> << >>
    [] c.type = 4        -> << Len(c.events) % 256 >> \o Each(EmitScheduleEvent, c.events)
    [] c.type = 5        -> EmitEvent(c, EmitInsertCancelOff)
    [] c.type = 6        -> EmitSpliceTime(c.splice_time)
    [] c.type = 255      -> c.identifier \o c.bytes

EmitDescriptor(d) ==
  << d.tag, (HintDescriptor(d) - 2) % 256 >> \o CUEI \o
  CASE d.tag = 0 -> d.provider_avail_id
    [] d.tag = 1 -> << d.preroll, (32 * Len(d.dtmf_chars)) % 256 >> \o d.dtmf_chars
    [] d.tag = 2 -> d.data
    [] d.tag = 3 -> d.tai_seconds \o d.tai_nanoseconds \o write_16(d.utc_offset)

\* emit(SpliceInfoSection): table id, length, protocol version, encryption
\* and adjustment, key, tier and length of the command, the command, the
\* descriptors, the checksum
EmitSection(s) ==
  LET body ==
        << 252 >>
          \o write_12_prefix(3, compute_section_length(s))
          \o << 0 >>
          \o write_33_prefix(128 * Bit(s.encrypted_packet) + 2 * s.encryption_algorithm,
                             s.pts_adjustment)
          \o << s.cw_index >>
          \o write_12_pair(s.tier, HintCommand(s.command))
          \o << s.command.type >> \o EmitCommand(s.command)
          \o write_16(HintDescriptors(s.descriptors))
          \o Each(EmitDescriptor, s.descriptors)
  IN body \o Checksum(body)
=============================================================================

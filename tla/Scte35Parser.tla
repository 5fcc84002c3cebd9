---------------------------- MODULE Scte35Parser ----------------------------
(***************************************************************************)
(* src/scte35/parser.cpp: splice info sections from bytes.                 *)
(*                                                                         *)
(* What parses an item of the data d at position p returns its value and   *)
(* the position after it.  All failures look alike to the callers: a test  *)
(* that fails (TEST_CONST) and a read past the end both throw              *)
(* BinaryParseError.  Here both lead to a position past the end, from      *)
(* which no item comes back and the section is refused.  One failure is    *)
(* another exception, see section_throws.                                  *)
(***************************************************************************)
EXTENDS Scte35, FiniteSets

MIN_SIS_LENGTH == 20

At(val, end) == [ val |-> val, end |-> end ]
Failed(d) == At(None, Len(d) + 2)
IfHolds(test, d, item) == IF test THEN item ELSE Failed(d)

\* an item, if a flag says that it is there
ItemIf(flag, item, p) == IF flag THEN item ELSE At(None, p)

\* the items that a byte counts, given what is parsed at every position
ParseCounted(items, d, p) ==
  LET from[n \in Byte] ==
        [ q \in Nat |->
            IF n = 0 THEN At(<< >>, q)
            ELSE LET rest == from[n - 1][items[q].end]
                 IN At(<< items[q].val >> \o rest.val, rest.end) ]
  IN from[scan_8(d, p)][p + 1]

-----------------------------------------------------------------------------
\* mutant of parse_splice_time: a time that is not specified takes 5 bytes too
TimeAlwaysThere(d, p) ==
  At([ pts_time |-> IF scan_flag(d, p, 128) THEN scan_33(d, p) ELSE None ], p + 5)

parse_splice_time(d, p) ==
  IF scan_flag(d, p, 128)
  THEN At([ pts_time |-> scan_33(d, p) ], p + 5)
  ELSE At([ pts_time |-> None ], p + 1)

parse_break_duration(d, p) ==
  At([ auto_return |-> scan_flag(d, p, 128), duration |-> scan_33(d, p) ], p + 5)

parse_timed_component(d, p) ==
  At([ component_tag |-> scan_8(d, p), utc_splice_time |-> scan_32(d, p + 1) ], p + 5)

parse_program_splice(d, p, program) ==
  LET components == ParseCounted([ q \in Nat |-> parse_timed_component(d, q) ], d, p)
  IN IF program
     THEN At([ utc_splice_time |-> scan_32(d, p) ], p + 4)
     ELSE IfHolds(scan_8(d, p) >= 1, d,
                  At([ components |-> components.val ], components.end))

\* what follows the id of an event of a schedule, unless the cancel indicator
\* is set
parse_schedule_more(d, p) ==
  LET splice == parse_program_splice(d, p + 1, scan_flag(d, p, 64))
      duration == ItemIf(scan_flag(d, p, 32), parse_break_duration(d, splice.end), splice.end)
  IN At([ out_of_network |-> scan_flag(d, p, 128),
          splice |-> splice.val,
          break_duration |-> duration.val,
          unique_program_id |-> scan_16(d, duration.end),
          avail_num |-> scan_8(d, duration.end + 2),
          avails_expected |-> scan_8(d, duration.end + 3) ], duration.end + 4)

parse_component(d, p, immediate) ==
  LET time == ItemIf(~ immediate, parse_splice_time(d, p + 1), p + 1)
  IN At([ component_tag |-> scan_8(d, p), splice_time |-> time.val ], time.end)

\* the same of a splice_insert
parse_insert_more(d, p) ==
  LET program == scan_flag(d, p, 64)
      immediate == scan_flag(d, p, 16)
      time == ItemIf(program /\ ~ immediate, parse_splice_time(d, p + 1), p + 1)
      listed == ParseCounted([ q \in Nat |-> parse_component(d, q, immediate) ], d, p + 1)
      components == IF program THEN At(None, time.end)
                    ELSE IfHolds(scan_8(d, p + 1) >= 1, d, listed)
      duration ==
        ItemIf(scan_flag(d, p, 32), parse_break_duration(d, components.end), components.end)
  IN At([ out_of_network |-> scan_flag(d, p, 128),
          program_splice |-> program,
          splice_immediate |-> immediate,
          splice_time |-> time.val,
          components |-> components.val,
          break_duration |-> duration.val,
          unique_program_id |-> scan_16(d, duration.end),
          avail_num |-> scan_8(d, duration.end + 2),
          avails_expected |-> scan_8(d, duration.end + 3) ], duration.end + 4)

parse_schedule_event(d, p) ==
  LET more == ItemIf(~ scan_flag(d, p + 4, 128), parse_schedule_more(d, p + 5), p + 5)
  IN At([ id |-> scan_32(d, p), more |-> more.val ], more.end)

parse_splice_schedule(d, p) ==
  LET events == ParseCounted([ q \in Nat |-> parse_schedule_event(d, q) ], d, p)
  IN At([ type |-> 4, events |-> events.val ], events.end)

parse_splice_insert(d, p) ==
  LET more == ItemIf(~ scan_flag(d, p + 4, 128), parse_insert_more(d, p + 5), p + 5)
  IN At([ type |-> 5, id |-> scan_32(d, p), more |-> more.val ], more.end)

parse_time_signal(d, p) ==
  LET t == parse_splice_time(d, p)
  IN At([ type |-> 6, splice_time |-> t.val ], t.end)

\* read_32 has moved the pointer when the 4 bytes are left out once more.  The
\* bytes are not looked for: up to 4 of them lie past the end of the section,
\* where scan finds zeros.  Such a section is refused in any case, as more
\* bytes are used up than its command is declared to have.
parse_private_command(d, p, length) ==
  IfHolds(length > 4 /\ length < 4095, d,
          At([ type |-> 255, identifier |-> scan_32(d, p),
               bytes |-> scan(d, p + 8, length - 4) ], p + 4 + length))

parse_command(d, p, type, length) ==
  CASE type \in {0, 7} -> At([ type |-> type ], p)
    [] type = 4        -> parse_splice_schedule(d, p)
    [] type = 5        -> parse_splice_insert(d, p)
    [] type = 6        -> parse_time_signal(d, p)
    [] type = 255      -> parse_private_command(d, p, length)
    [] OTHER           -> Failed(d)

-----------------------------------------------------------------------------
(***************************************************************************)
(* Descriptors.  The reads of a TimeDescriptor are the arguments of one    *)
(* call: a compiler may evaluate them from the left or from the right.     *)
(* build says what this one does, and which operand of a sum comes first.  *)
(***************************************************************************)
Build == [ args : {"left", "right"}, sums : {"left", "right"} ]

parse_time_descriptor(d, q, build) ==
  LET fromLeft == build.args = "left"
      inOrder == build.sums = "left"
  IN At([ tag |-> 3,
          tai_seconds |-> scan_48(d, IF fromLeft THEN q ELSE q + 6, inOrder),
          tai_nanoseconds |-> scan_32(d, IF fromLeft THEN q + 6 ELSE q + 2),
          utc_offset |-> scan_16(d, IF fromLeft THEN q + 10 ELSE q) ], q + 12)

parse_descriptor(d, p, last, build) ==
  LET tag == scan_8(d, p)
      length == scan_8(d, p + 1)
      q == p + 6
      dtmf_count == scan_8(d, q + 1) \div 32
  IN IfHolds(p + 1 + length <= last /\ scan(d, p + 2, 4) = CUEI, d,
       CASE tag = 0 /\ length = 8 ->
              At([ tag |-> 0, provider_avail_id |-> scan_32(d, q) ], q + 4)
         [] tag = 1 /\ length = 4 + 1 + dtmf_count ->
              At([ tag |-> 1, preroll |-> scan_8(d, q),
                   dtmf_chars |-> scan(d, q + 2, dtmf_count) ], q + 2 + dtmf_count)
         [] tag = 2 /\ length >= 4 ->
              At([ tag |-> 2, data |-> scan(d, q, length - 4) ], q + length - 4)
         [] tag = 3 /\ length = 16 -> parse_time_descriptor(d, q, build)
         [] OTHER -> Failed(d))

parse_descriptors(d, p, last, build) ==
  LET from[q \in Nat] ==
        IF q > last THEN At(<< >>, q)
        ELSE LET item == parse_descriptor(d, q, last, build)
                 rest == from[item.end]
             IN At(<< item.val >> \o rest.val, rest.end)
  IN IfHolds(from[p].end = last + 1, d, from[p])

\* A segmentation descriptor that is declared shorter than the identifier it
\* has makes a vector of a range that ends before it begins: a
\* std::length_error, at once, whatever else is wrong with the section.
ShortSegmentation(d, p, last) ==
  /\ scan_8(d, p) = 2 /\ scan_8(d, p + 1) < 4
  /\ p + 5 <= last /\ scan(d, p + 2, 4) = CUEI

descriptors_throw(d, p, last, build) ==
  LET from[q \in Nat] ==
        /\ q <= last
        /\ ShortSegmentation(d, q, last) \/ from[parse_descriptor(d, q, last, build).end]
  IN from[p]

-----------------------------------------------------------------------------
\* read_splice_info_section_until_length: where the section at p starts (a
\* pointer field of zero is skipped), goes on after its length, and ends
UntilLength(d, p, last) ==
  LET start == IF scan_8(d, p) = 0 THEN p + 1 ELSE p
      section_length == scan_12_low(d, start + 1)
      rest == start + 3
  IN IF /\ last + 1 - p >= MIN_SIS_LENGTH
        /\ scan_8(d, start) = 252
        /\ ~ scan_flag(d, start + 1, 128) /\ ~ scan_flag(d, start + 1, 64)
        /\ section_length >= MIN_SIS_LENGTH - (rest - p)
        /\ section_length <= 4093
        /\ rest + section_length <= last + 1
     THEN [ start |-> start, rest |-> rest, last |-> rest + section_length - 1 ]
     ELSE None

\* scte35_parser_next; fewer bytes than the smallest section are no packet
scte35_parser_next(d, p) == UntilLength(d, p, Len(d))

\* the length of the descriptors, and then they
parse_descriptor_loop(d, p, last, build) ==
  LET length == scan_16(d, p)
  IN IF length = 0
     THEN At(<< >>, p + 2)
     ELSE IfHolds(p + 2 + length <= last, d, parse_descriptors(d, p + 2, p + 1 + length, build))

\* what scte35_parser_pack asks of a section before its descriptors: the
\* protocol version, that it is not encrypted, and that its command, from c
\* on, is as long as declared, if it is declared
CommandHolds(d, r, c, command, last) ==
  LET length == scan_12_low(d, r + 8)
  IN /\ scan_8(d, r) = 0
     /\ ~ scan_flag(d, r + 1, 128)
     /\ length = 4095 \/ (length < last + 1 - c /\ command.end - c = length)
     /\ Within(command.end + 2, last)

\* scte35_parser_pack: the section with these bounds, or None for an error
scte35_parser_pack(d, first, last, build) ==
  LET head == UntilLength(d, first, last)
      r == head.rest
      c == r + 11
      length == scan_12_low(d, r + 8)
      command == parse_command(d, c, scan_8(d, r + 10), length)
      descriptors == parse_descriptor_loop(d, command.end, last, build)
  IN IF /\ head # None
        /\ CommandHolds(d, r, c, command, last)
        /\ Within(descriptors.end + 4, last)
        /\ Checksum(SubSeq(d, head.start, last - 4)) = scan(d, last - 3, 4)
     THEN [ encrypted_packet |-> FALSE,
            encryption_algorithm |-> (scan_8(d, r + 1) \div 2) % 64,
            pts_adjustment |-> scan_33(d, r + 1),
            cw_index |-> scan_8(d, r + 6),
            tier |-> scan_12_high(d, r + 7),
            command |-> command.val,
            descriptors |-> descriptors.val ]
     ELSE None

\* whether its error is not a BinaryParseError
section_throws(d, first, last, build) ==
  LET head == UntilLength(d, first, last)
      r == head.rest
      c == r + 11
      command == parse_command(d, c, scan_8(d, r + 10), scan_12_low(d, r + 8))
      p == command.end + 2
      length == scan_16(d, command.end)
  IN /\ head # None
     /\ CommandHolds(d, r, c, command, last)
     /\ p + length <= last
     /\ descriptors_throw(d, p, p + length - 1, build)
=============================================================================

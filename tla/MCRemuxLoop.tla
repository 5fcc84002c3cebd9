----------------------------- MODULE MCRemuxLoop -----------------------------
(***************************************************************************)
(* StreamRun and RemuxLoop for TLC.                                        *)
(***************************************************************************)
EXTENDS StreamRun, TLC

CONSTANTS
  film, other,         \* two H.264 streams
  mpeg2,               \* a video without captions
  ads, more,           \* two streams of data packets
  sound,
  Earliest, Latest     \* bounds of the timestamps of the source

MCCodecOf ==
  [ s \in {film, other} |-> "h264" ] @@ [ s \in {ads, more} |-> "scte" ]
    @@ mpeg2 :> "mpeg2video" @@ sound :> "aac"

\* Sources with one time source, with two candidates, and with none, with two
\* streams of a kind, and the same in a container without captions.  No more
\* than two streams are ever written.
MCSource ==
  { [ streams |-> S, mpegts |-> FALSE ] :
      S \in { {film, ads}, {film, mpeg2}, {film, other}, {ads, more}, {sound}, {} } }
    \cup { [ streams |-> S, mpegts |-> TRUE ] : S \in { {film, ads}, {film, other}, {sound, ads} } }

MCDts == - Earliest .. Latest
=============================================================================

SPECIFICATION RunSpec
CONSTANTS
  Stream = {film, other, mpeg2, ads, more, sound}
  Strict = {film, other, mpeg2, sound}
  film = film
  other = other
  mpeg2 = mpeg2
  ads = ads
  more = more
  sound = sound
  CodecOf <- MCCodecOf
  Source <- MCSource
  None = None
  Num = 1
  Den = 2
  MaxRetry = 2
  Dts <- MCDts
  Earliest = 2
  Latest = 2
  WritesFail = TRUE
  NoTS = NoTS
  NoStream = NoStream
INVARIANTS
  TypeOK
  GivesUpInTime
  AlarmsExplained
  CaptionsKeepTime
  HeadersHaveTrailers

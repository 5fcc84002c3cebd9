SPECIFICATION Spec
CONSTANTS
  None = None
  VideoPacket <- MCVideoPacket
  Metadata <- MCMetadata
  SplicePacket <- MCSplicePacket
INVARIANTS
  CaptionsArrive

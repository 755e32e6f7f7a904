SPECIFICATION FairDrive
CONSTANTS
  SourceTimeout = 1
  CandidateTimeout = 1
  BlendLength = 3
  MaxArc = 4
  InputTimeout = 1
  ValidityHold = 2
  MaxInputAge = 1
  MaxFaults = 1
  Lossy = {"select"}
  Moves = {1}
  LocalArcs = {1, 4}
INVARIANTS VouchedRecently StopObeyed
PROPERTIES BlendsEntry RidesFlicker DrivesOn

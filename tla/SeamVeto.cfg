\* Expected violation: the gate locks, and the corridors refuse the seam.
CONSTANTS
  Factor = 10
  Reach = 12
  Dilate = 6
  CoarseMin = 350
  FineMin = 450
  Notch = 100
  OrangeWeight = 1
  Gate = {0, 60}
  Blues = {20, 100}
  Yellows = {140, 180, 220, 260}
  Late = {1000, 1030, 1050}
  Margin = 300
  Lap = 4
  ReturnTravel = 3
  StartArea = 1
  MinPoints = 3
  Span = 1
  Dedup = 12
  DedupOrange = 5
  LoopWindow = 80
  TrackWindow = 40
  MinOrangeSpan = 30
  OrangeResponse = 800
  LoopResponse = 600
  PeakMargin = 100
  Cooldown = 1
  Slips = {0, 13}
  Missed = 1
  MaxTravel = 4
INIT SeamInit
NEXT SeamNext
PROPERTY LockedGateCounts
CHECK_DEADLOCK FALSE

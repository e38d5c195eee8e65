SPECIFICATION MCSpec
CONSTANTS
  MaxInput = 3
  MaxFed = 6
  MaxDecoders = 2
  MaxText = 6
CHECK_DEADLOCK FALSE
INVARIANTS
  OwnsDecoder
  StreamedLikeWhole
  SentIsWhole

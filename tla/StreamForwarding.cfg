SPECIFICATION FairSpec
CONSTANTS
  MaxUp = 2
  MaxDown = 2
  Window = 1
  MayReject = TRUE
INVARIANT NeverReachesEnd
INVARIANT OkMeansComplete
INVARIANT HalfCloseTruncatesNothing
INVARIANT InternalOnlyForCaller
PROPERTY NothingSentAfterReturn
PROPERTY CancelEndsHandler
PROPERTY ForwardersEnd
CHECK_DEADLOCK FALSE

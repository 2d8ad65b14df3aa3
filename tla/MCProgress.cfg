SPECIFICATION ProgressSpec
CONSTANTS
  None = None
  GateSections = {"title"}
  PageSections = {"hero", "briefing"}
  LateSections = {"briefing"}
  Screen <- ScreenOf
  LastScreen = 1
  MaxActs = 6
PROPERTIES
  NothingStaysHidden
  FeedSettles
  RetryShowsTheRecords
  FragmentIsReached
CHECK_DEADLOCK FALSE

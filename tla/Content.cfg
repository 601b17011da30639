CONSTANTS
  Entries = 2
  Urls = {u1, u2}
  Versions = 2
  MaxItems = 2
  Kinds = {"rss", "atom", "page", "sitemap"}
  Conditional = {TRUE, FALSE}
  None = None
  MaxPublished = 2
  MaxLosses = 1
  MaxPatches = 1
SPECIFICATION FairSpec
CHECK_DEADLOCK FALSE
INVARIANTS EntryAnnouncedOnce FinishedCheckIsComplete
PROPERTIES WatermarkFollowsFanout UpdatesSurvive

CONSTANTS
  Entries = 2
  Urls = {u1, u2}
  Versions = 2
  MaxItems = 2
  Kinds = {"page", "sitemap"}
  Conditional = {FALSE}
  None = None
  MaxPublished = 1
  MaxLosses = 1
  MaxPatches = 1
SPECIFICATION FairSpec
CHECK_DEADLOCK FALSE
PROPERTY TextIsAnnounced

CONSTANTS
  Omitted = Omitted
  NotANumber = NotANumber
  NoPart = NoPart
  Posts <- MCPosts
  Bounds <- MCBounds
  MaxSlices = 2
  Gets <- MCGets
SPECIFICATION Spec
INVARIANTS ReadIsExact SliceIsLocal AnnouncedIsFetched
CHECK_DEADLOCK FALSE

SPECIFICATION FairSpec
CONSTANTS
  Sessions = {1, 2}
  Quota <- TwoThenOne
  Asks <- AnythingThenFile
  FileLength = 1
  Faults = 1
INVARIANTS NothingDangles RepliesInOrder
PROPERTIES Served

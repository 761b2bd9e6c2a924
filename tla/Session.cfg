SPECIFICATION FairSpec
CONSTANTS
  Last = 3
  MainFrames = {0, 1, 3}
  Targets = {1, 2}
  MaxPlays = 1
  MaxCommands = 3
  MaxQueue = 2
INVARIANTS StreamFollowsAnswer PausedIsQuiet
PROPERTIES ResumedIsSent

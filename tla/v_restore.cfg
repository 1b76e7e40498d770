SPECIFICATION FullSpec
CONSTANTS
  N = 2
  Directories <- MCDirectories
  MaxFaults = 2
INVARIANT NothingLost

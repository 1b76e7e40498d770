SPECIFICATION FairSpec
CONSTANTS
  N = 3
  Directories <- MCDirectories
  MaxFaults = 3
INVARIANT TypeOK
INVARIANT NothingLost
INVARIANT OpensOnWholeHome
PROPERTY SwitchesAtomically
PROPERTY RestoreCompletes

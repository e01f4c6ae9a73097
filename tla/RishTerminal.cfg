\* The client in three modes, with output, readers that leave and a change of the window.
SPECIFICATION FairSpec
CONSTANTS
  Modes <- MCModes
  MaxOutput = 2
  MaxSizes = 2
INVARIANTS TerminalRestored NoChangeIsLost
PROPERTIES RelaysOutput FollowsWindow ExitFollowsRemote
\* The program exits.
CHECK_DEADLOCK FALSE

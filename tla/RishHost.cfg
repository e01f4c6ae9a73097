\* One session in four modes; one chunk each way.
SPECIFICATION FairSpec
CONSTANTS
  Modes <- MCModes
  MaxOutput = 1
  MaxInput = 1
INVARIANTS ThreadsKeepTheirFiles NothingIsLeft
PROPERTIES KillSparesTheLive RelaysOutput ClientIsReleased SessionIsReleased

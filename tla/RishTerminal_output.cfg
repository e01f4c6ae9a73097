\* rish -c command 2> file
SPECIFICATION Spec
CONSTANTS
  Modes <- MCRedirected
  MaxOutput = 2
  MaxSizes = 1
INVARIANT ReplacesSh
CHECK_DEADLOCK FALSE

SPECIFICATION LiveSpec
CONSTANTS
  Checks = {h1, h2, h3}
  Graceful = TRUE
  MaxChecks = 4
  MaxOutages = 2
  Lasting = FALSE
INVARIANT DownHasACause
INVARIANT NothingLeaks
INVARIANT CurrentIsConnected
PROPERTY ChecksAreAnswered
CHECK_DEADLOCK FALSE

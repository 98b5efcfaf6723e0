SPECIFICATION LiveSpec
CONSTANTS
  asWritten = asWritten
  lowerCase = lowerCase
  api1 = api1
  Processes = {api1, api2}
  Emails = {asWritten, lowerCase}
  Address <- MCAddress
  Unset = Unset
  Deployments <- MCDeployments
  Tabs = {t1, t2}
  Nobody = Nobody
INVARIANT OneFirstAdmin
INVARIANT SessionsEndForACause
PROPERTY SignedOutIsRefused
PROPERTY ValidationEnds
CHECK_DEADLOCK FALSE

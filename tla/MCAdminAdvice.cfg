SPECIFICATION Spec
CONSTANTS
  asWritten = asWritten
  lowerCase = lowerCase
  api1 = api
  Processes = {api}
  Emails = {asWritten, lowerCase}
  Address <- MCAddress
  Unset = Unset
  Deployments <- MCAdvised
  Tabs = {}
  Nobody = Nobody
INVARIANT AdviceKeepsApiStarting
CHECK_DEADLOCK FALSE

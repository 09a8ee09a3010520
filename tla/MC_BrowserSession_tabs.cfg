SPECIFICATION FairSpec
CONSTANTS
  staff = staff
  site = site
  s1 = s1
  s2 = s2
  w1 = w1
  Tabs = {staff, site}
  Web = {site}
  Requests = {s1, s2, w1}
  Tab <- MCTab
  MaxStarts = 3
  MaxFaults = 1
INVARIANTS
  HeldTokenIsGood
  RefusedForCause
PROPERTIES
  RequestsSettle
CHECK_DEADLOCK FALSE

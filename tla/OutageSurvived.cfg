\* One publisher, one row, and an outage when its process first connects.
SPECIFICATION FairSpec
CONSTANTS
  a = a
  b = b
  Rows = {1}
  Publishers = {a}
  Limit = 2
  Refused = {}
  Disruptions = {"outage"}
  MaxDisruptions = 1
CHECK_DEADLOCK FALSE
PROPERTIES
  OutageSurvived

SPECIFICATION FairSpec
CONSTANTS
  NumIds = 2
  NumSessions = 2
  Hacks = {{}}
  ManyEvents = FALSE
  MaxGeneration = 1
PROPERTIES
  RequestsEnd

SPECIFICATION FairSpec
CONSTANTS
  a = a
  b = b
  Requests = {a, b}
  Reading = 1
  Writing = 1
  Deleting = 1
  Capacity = 2
  Patience = 2
  LastRequestTime = 1
  MaxTime = 4
  Nobody = nobody
PROPERTIES EveryoneAnswered

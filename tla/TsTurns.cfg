SPECIFICATION FairSpec
CONSTANTS
  Requests = {r1, r2, r3}
  Sessions = {s1, s2}
  NoSession = none
  MaxToolIterations = 2
  MaxRetries = 1
  Budget = 1
  Sizes = {1}
  MaxMessages = 2
INVARIANTS HistorySound StateTold
PROPERTY ImplementsTurns

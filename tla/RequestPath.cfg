SPECIFICATION FairSpec
CONSTANTS
  Sessions = {s1}
  Tasks = {c1, h1, h2}
  Conns = {c1}
  Hooks = {h1, h2}
  NoTask = NoTask
  NoSession = NoSession
  IdleTimeout = 1
  RateLimit = 1
  MaxFrames = 1
INVARIANTS OneTurnPerSession LockAccounting
PROPERTIES EvictionSafe RequestsEnd AbandonedSessionsExpire ImplementsTurns

SPECIFICATION FairConnectionSpec
CONSTANTS
  None = None
  MaxOrphans = 2
  MaxPings = 1
  Sockets = {s1, s2}
INVARIANTS ReconnectGoesOn ConnectedIsWatched
PROPERTY DeadConnectionsDropped

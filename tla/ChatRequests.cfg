SPECIFICATION FairSpec
CONSTANTS
  Sockets = {c1, c2}
  None = None
  MaxOrphans = 1
  Requests = {r1, r2}
  Chats = {a}
  NoChat = NoChat
  Sessions = {s1}
  New = New
  NoRequest = NoRequest
  Nobody = Nobody
  MaxAttempts = 2
  MaxReplies = 1
  MaxLoad = 3
INVARIANTS EntriesOwned
PROPERTIES KeysBecomeFree HandlersEnd

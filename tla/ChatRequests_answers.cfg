SPECIFICATION Spec
CONSTANTS
  Sockets = {c1}
  None = None
  MaxOrphans = 0
  Requests = {r1, r2}
  Chats = {a, b}
  NoChat = NoChat
  Sessions = {s1, s2}
  New = New
  NoRequest = NoRequest
  Nobody = Nobody
  MaxAttempts = 2
  MaxReplies = 1
  MaxLoad = 3
PROPERTY AnswersMatch

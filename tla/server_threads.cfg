SPECIFICATION FairStorySpec
CONSTANTS
  c1 = c1 c2 = c2 c3 = c3 NoClient = NoClient Null = Null Freed = Freed
  Clients = {c1, c2}
  MaxOnlineUsers = 2
  MaxFd = 2
  Stories <- ThreadStories
PROPERTIES LoginAnswered PresenceSpreads SessionsEnd
\* The server waits for connections for ever once every client is gone.
CHECK_DEADLOCK FALSE

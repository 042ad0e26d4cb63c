SPECIFICATION StorySpec
CONSTANTS
  p1 = p1 p2 = p2 p3 = p3 n1 = n1 nb = nb Nobody = Nobody
  Peers = {p1, p2, p3}
  Names = {n1, nb}
  BadNames = {nb}
  MaxOnlineUsers = 2
  LastMessage = 1
  MaxFd = 3
  Stories <- MessageStories
INVARIANTS MessagesInOrder OwnMessage 
PROPERTY ImplementsDirectory
\* The process waits for connections for ever once every peer has sent.
CHECK_DEADLOCK FALSE

SPECIFICATION StorySpec
CONSTANTS
  c1 = c1 c2 = c2 c3 = c3 m1 = m1 m3 = m3 ana = ana bia = bia None = None
  Clients = {c1, c2, c3}
  Messages = {m1, m3}
  Names = {ana, bia}
  NameOf <- MCNames
  MaxMsgs = 2 MaxFd = 2 Mortal = {c1} MaxCommands = 3
\* The server waits for requests for ever once the clients have sent theirs.
CHECK_DEADLOCK FALSE
INVARIANTS DuplicateOnlyAfterHangup DiesOnlyOfHangup
PROPERTIES ImplementsBoard RequestAnswered

SPECIFICATION MailSpec
CONSTANTS
  u1 = u1 u2 = u2 u3 = u3 here = here there = there
  NoOne = NoOne Nowhere = Nowhere Nobody = Nobody
  User = {u1, u2, u3}
  Address = {here, there}
  MaxOnlineUsers = 3
  MaxSends = 2
  Stories <- MessengerStories
  Peers = {u1, u2, u3}
  Names = {here}
  BadNames = {}
  InboxSize = 2
  LastMessage = 1
  MaxFd = 2
INVARIANT RecipientWaits
\* The users may do nothing more.
CHECK_DEADLOCK FALSE

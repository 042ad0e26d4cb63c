SPECIFICATION FairPartsSpec
CONSTANTS
  Followed = {"book", "bytes"}
  Users = {u1, u2}
  MaxOnlineUsers = 2
  MaxGroupContact = 2
  MaxPushes = 2
  MaxSends = 1
  Null = Null
  Freed = Freed
  Junk = Junk
  Kinds = {"TEXT_MESSAGE", "IMAGE_MESSAGE"}
  Departing = {u2}
  Resets = TRUE
  People = {a, b}
  MaxGroups = 3
  Garbage = Garbage
  handler = handler updater = updater
  Writer = {handler, updater}
  Plan <- MCPlan
  IntBytes = 2 ShortBytes = 1 ShortRange = 16 Margin = 1 Window = 5
INVARIANTS SavedSurvives RoundTrip MessagesIntact
PROPERTY MessageArrives

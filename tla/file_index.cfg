SPECIFICATION StorySpec
CONSTANTS
  a = a
  b = b
  Client <- MCClient
  Cred <- MCCred
  Word <- MCWord
  MaxSent = 3
  IndexCap = 2
  MaxStarts = 2
  None = None
INVARIANTS
  
  
  ShownMatch
PROPERTY
  Answered
CHECK_DEADLOCK FALSE

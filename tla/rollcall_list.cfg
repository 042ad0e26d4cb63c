SPECIFICATION BothSpec
CONSTANTS
  s1 = s1 s2 = s2 ra1 = ra1 long = long JunkRa = JunkRa NoOne = NoOne
  Students = {s1, s2}
  Ra <- MCOneLong
  LongRas = {long}
  MaxRas = 2 ForkFails = TRUE MaxConns = 3 MaxTaps = 1
  Sensor = Sensor Alunos = {s1} MaxLinks = 3 MaxFd = 2 MaxMsgs = 2
CHECK_DEADLOCK FALSE
INVARIANTS MemoryRight ConfirmedIsListed DoorListTrue
PROPERTIES AnswerListed MessageRead

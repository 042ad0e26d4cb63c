SPECIFICATION BoardsSpec
CONSTANTS
  a = a b = b None = None ana = ana bia = bia t1 = t1 t2 = t2 t3 = t3
  Root = Root Empty = Empty Junk = Junk
  Clients = {a, b}
  MCSize = 2
  Posts <- MCPost
  Nameless <- MCNameless
  ExitText <- MCExit
  Size = 2
  Lines = {Empty, ana, bia}
  ForkFails = TRUE
  MaxCommands <- MCCommands
  MaxLists = 2
  MaxFaults = 1
  Texto = {t1, t2, t3}
  Usuario = {ana, bia}
  De <- MCDe
  MaxPedidos = 4
  MaxDups = 1
INVARIANTS NothingHidden WholeBoards
PROPERTIES  NevesImplementsBoard
\* The clients may all leave.
CHECK_DEADLOCK FALSE

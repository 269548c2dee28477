SPECIFICATION Spec
CONSTANTS
  s1 = s1
  s2 = s2
  Sockets = {s1, s2}
  MaxMessages <- MCMaxMessages
INVARIANTS
  InOrder
  NothingLeftBehind
PROPERTIES
  SocketSettles
CHECK_DEADLOCK FALSE

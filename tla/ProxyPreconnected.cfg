SPECIFICATION Spec
CONSTANTS
  s1 = s1
  s2 = s2
  Sockets = {s1}
  MaxMessages <- MCMaxMessages
PROPERTIES
  PeerServes
CHECK_DEADLOCK FALSE

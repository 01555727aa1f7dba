CONSTANTS
  Callers = {c1}
  Objects = {o1}
  Sockets = {1, 2, 3}
  MaxAttempts = 2
  TxIDs = 4
  MaxAbandoned = 1
  NoConn = NoConn
  Nobody = Nobody
  Nothing = Nothing
SPECIFICATION Spec
PROPERTIES DrainedWhileOpen

CONSTANTS
  Callers = {c1, c2}
  Objects = {o1}
  Sockets = {1, 2}
  MaxAttempts = 2
  TxIDs = 3
  MaxAbandoned = 1
  NoConn = NoConn
  Nobody = Nobody
  Nothing = Nothing
SPECIFICATION FairSpec
INVARIANTS TypeOK OwnData SuccessInSync SocketsOwned
PROPERTIES EveryCallReturns Recovers

SPECIFICATION FairTabSpec
CONSTANTS
  c1 = c1  c2 = c2  ann = ann
  NoRoom = NoRoom  NoConn = NoConn  NoView = NoView
  Conns = {c1, c2}
  Users = {ann}
  Owner <- Tabs
  SendBuffer = 1
  MaxPerUser = 1
  MaxEvents = 1
  FaultKinds = {"subscribe", "stream", "gap"}
  TabFaultKinds = {"dial", "refresh", "fetch"}
  MaxFaults = 1
INVARIANTS
  PageMissesNothing
PROPERTIES
  Converges
  Reconnects
  LeftBehind
CHECK_DEADLOCK FALSE

SPECIFICATION FairSpec
CONSTANTS
  c1 = c1  c2 = c2  c3 = c3  ann = ann  bob = bob
  NoRoom = NoRoom
  Conns = {c1, c2, c3}
  Users = {ann, bob}
  Owner <- Tabs
  SendBuffer = 1
  MaxPerUser = 1
  MaxEvents = 2
  FaultKinds = {"subscribe", "stream"}
  MaxFaults = 1
INVARIANTS
  MembersAreOpen
  RoomIsFed
  SlotsAreHeld
  FedWithoutGaps
PROPERTIES
  DroppedAreTold
  ShutdownEnds
CHECK_DEADLOCK FALSE

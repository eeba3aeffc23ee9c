SPECIFICATION Spec
CONSTANTS
  Kinds <- TwoKinds
  MaxSends <- Sends
  QueueCounts = {1, 2}
  Units = {"packets", "bytes"}
  Limited = {TRUE, FALSE}
  DiscSize = 2
  DeviceSize <- Rooms
  MinLimit = 0
  MaxLimit = 4
  Mtu = 2
  PppHeader = 1
  Quotas = {1, 2}
INVARIANTS
  Conserved
  InOrder
  NothingDiscarded
  LimitsAgree
PROPERTIES
  Drains
CHECK_DEADLOCK FALSE

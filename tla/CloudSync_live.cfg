SPECIFICATION FairSpec
CONSTANTS
  a = a
  b = b
  note = note
  Devices <- SoleEngine
  Engines <- SoleEngine
  Handlers <- SoleEngine
  DeviceOf <- SoleDeviceOf
  EngineOf <- SoleEngineOf
  Entities = {note}
  IdAbove <- RisingIds
  Ops = {"journal", "sync"}
  PageLimit = 1
  BatchLimit = 9
  DiskFails = FALSE
  MaxWrites = 2
  MaxFaults = 1
  NoEnvelope = NoEnvelope
PROPERTY JournaledIsDelivered

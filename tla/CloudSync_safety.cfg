SPECIFICATION Spec
CONSTANTS
  a = a
  b = b
  Devices <- SoleEngine
  Engines <- SoleEngine
  Handlers <- SoleEngine
  DeviceOf <- SoleDeviceOf
  EngineOf <- SoleEngineOf
  note = note
  Entities = {note}
  IdAbove <- FallingIds
  Ops = {"journal", "sync"}
  PageLimit = 2
  BatchLimit = 2
  DiskFails = FALSE
  MaxWrites = 3
  MaxFaults = 1
  NoEnvelope = NoEnvelope
INVARIANTS
  TypeOK
  NothingDiscarded
  SentIsStored
  LogIsCausal
  CurrentIsMaximal
  RestartRebuilds

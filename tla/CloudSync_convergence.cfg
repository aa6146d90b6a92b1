SPECIFICATION Spec
CONSTANTS
  a = a
  b = b
  note = note
  Devices <- SoleEngine
  Engines <- SoleEngine
  Handlers <- SoleEngine
  DeviceOf <- SoleDeviceOf
  EngineOf <- SoleEngineOf
  Entities = {note}
  IdAbove <- FallingIds
  Ops = {"journal", "sync"}
  PageLimit = 2
  BatchLimit = 9
  DiskFails = FALSE
  MaxWrites = 3
  MaxFaults = 0
  NoEnvelope = NoEnvelope
INVARIANT Convergence

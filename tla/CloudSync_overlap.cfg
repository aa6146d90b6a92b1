SPECIFICATION Spec
CONSTRAINT InScenario
CONSTANTS
  a = a
  b = b
  note = note
  Devices <- SoleEngine
  Engines <- SoleEngine
  Handlers <- DesktopHandlers
  DeviceOf <- SoleDeviceOf
  EngineOf <- DesktopEngineOf
  Entities = {note}
  IdAbove <- RisingIds
  Ops = {"journal", "sync", "reset", "backup", "pause"}
  PageLimit = 1
  BatchLimit = 9
  DiskFails = FALSE
  MaxWrites = 2
  MaxFaults = 1
  NoEnvelope = NoEnvelope
INVARIANTS
  CursorSound
  JournalIsDurable
  RecordIdsAreUnique
  InSyncSameRecords
PROPERTIES
  ShownNeverRegresses

CONSTANTS
  Consumers = {c1}
  Metas = {"required"}
  Classes = {"Cpu"}
  CurrentRevision = "r1"
  Setups <- MCSetups
  Subcommands <- MCSubcommands
  Runnable = {"check", "ripr", "test", "tokmd"}
  LateSensors = {"check", "ripr", "test"}
  CargoSensors = {"check", "test"}
  DetailSensors = {"ripr"}
  SensorJobs = 2
SPECIFICATION FairSpec
INVARIANTS
  LedgerNeverRefused
  CargoExclusive
  RunningIsAccounted
  ReceiptsAgree
  NothingLostSilently
  WrittenIsSettled
PROPERTIES
  EvidenceFrozen
  RunEnds
CHECK_DEADLOCK FALSE

CONSTANTS
  Tasks = {t1}
  Consumers = {c1}
  Metas = {"required", "optional"}
  Classes = {"Cpu", "Disk"}
  Revisions = {"r0", "r1"}
  CurrentRevision = "r1"
  Instants <- MCInstants
  Reservations <- MCReservations
SPECIFICATION Spec
INVARIANTS
  TasksAccounted
  TableProvesStarts
  DurationsPartitionLifetime
  AcceptedStreamIsClosed
PROPERTIES
  FactsAreFinal
  ImplementsAccount
CHECK_DEADLOCK FALSE

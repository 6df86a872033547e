------------------------------ MODULE TaskReducer ------------------------------
(***************************************************************************)
(* The pure, fail-closed reducer of src/task_ledger.rs: a snapshot of one  *)
(* task, the events that may be folded into it, the transition table, the  *)
(* payload checks and the timing and accounting fields an event derives.   *)
(*                                                                         *)
(* Every operator is a function of its arguments; the modules that append  *)
(* events to a ledger (the replay of a sealed stream, the sensor pool, the *)
(* proof runner) fold them with Accepts and Reduce.                        *)
(***************************************************************************)
EXTENDS Integers, Sequences

CONSTANTS
  Consumers,        \* identifiers of the parties interested in a task
  Metas,            \* (requirement, value) metadata of a consumer
  Classes,          \* TaskResourceClass
  CurrentRevision   \* digest of the revision the run admitted

NoTime == -1        \* None of an Option<MonotonicInstant> or Option<u64>

(***************************************************************************)
(* TaskTerminalDisposition and TaskNonExecutionDisposition.                *)
(***************************************************************************)
Terminal == {"Succeeded", "DeterministicFailure", "TimedOut", "Cancelled",
             "SetupFailed"}

NonExecution == {"Unsupported", "Refused", "BudgetDeferred",
                 "LatestSafeStartDeferred", "Superseded",
                 "SatisfiedByExistingReceipt"}

(***************************************************************************)
(* TaskState.  "Absent" is the reducer before a proposal (snapshot: None). *)
(* The disposition that Cleanup(d) ... TerminallyDeclined(d) carry is the  *)
(* field d of the snapshot.                                                *)
(***************************************************************************)
Unadmitted == {"Proposed", "Selected", "Queued", "ResourceWait"}
PreRun     == {"Admitted", "Setup"}
Settling   == {"Cleanup", "ReceiptPending", "ReleasePending", "ResourcesReleased"}
TaskState  == Unadmitted \cup PreRun \cup {"Running"} \cup Settling
                \cup {"TerminallyDeclined"}

TimingPoints == {"queued_at", "resource_wait_started_at", "admitted_at",
                 "setup_started_at", "process_started_at", "process_finished_at",
                 "cleanup_finished_at", "receipt_recorded_at",
                 "resources_released_at"}
Durations    == {"queue_ms", "resource_wait_ms", "setup_ms", "process_ms",
                 "cleanup_ms"}

NoSnapshot ==
  [state              |-> "Absent",
   d                  |-> "none",
   consumers          |-> [c \in Consumers |-> "none"],
   reservations       |-> << >>,
   resources_released |-> FALSE,
   at                 |-> [p \in TimingPoints |-> NoTime],
   ms                 |-> [p \in Durations |-> NoTime],
   execution          |-> "none",
   non_execution      |-> "none",
   receipt            |-> "none",
   existing_receipt   |-> FALSE,
   last_event_at      |-> NoTime]

--------------------------------------------------------------------------------
(***************************************************************************)
(* transition(): the states each event is legal in, and the state it       *)
(* leads to.  ConsumerAttached keeps the state it finds.                   *)
(***************************************************************************)
From(kind) ==
  CASE kind = "Selected"              -> {"Proposed"}
    [] kind = "Queued"                -> {"Selected"}
    [] kind = "EnteredResourceWait"   -> {"Queued"}
    [] kind = "Admitted"              -> {"Queued", "ResourceWait"}
    [] kind = "SetupStarted"          -> {"Admitted"}
    [] kind = "RunStarted"            -> {"Setup"}
    [] kind = "ProcessFinished"       -> {"Running"}
    [] kind = "SetupFailed"           -> PreRun
    [] kind = "PreRunTerminated"      -> PreRun
    [] kind = "CleanupFinished"       -> {"Cleanup"}
    [] kind = "ReceiptCreated"        -> {"ReceiptPending"}
    [] kind = "ReceiptCreationFailed" -> {"ReceiptPending"}
    [] kind = "ResourcesReleased"     -> {"ReleasePending"}
    [] kind = "TerminallyDeclined"    -> Unadmitted
    [] kind = "ConsumerAttached"      -> TaskState

To(s, kind) ==
  CASE kind = "Selected"              -> "Selected"
    [] kind = "Queued"                -> "Queued"
    [] kind = "EnteredResourceWait"   -> "ResourceWait"
    [] kind = "Admitted"              -> "Admitted"
    [] kind = "SetupStarted"          -> "Setup"
    [] kind = "RunStarted"            -> "Running"
    [] kind = "ProcessFinished"       -> "Cleanup"
    [] kind = "SetupFailed"           -> "ReceiptPending"
    [] kind = "PreRunTerminated"      -> "ReceiptPending"
    [] kind = "CleanupFinished"       -> "ReceiptPending"
    [] kind = "ReceiptCreated"        -> "ReleasePending"
    [] kind = "ReceiptCreationFailed" -> "ReleasePending"
    [] kind = "ResourcesReleased"     -> "ResourcesReleased"
    [] kind = "TerminallyDeclined"    -> "TerminallyDeclined"
    [] kind = "ConsumerAttached"      -> s.state

\* Faulty variant: resources may be released before a receipt is attempted.
LegalButReleasesEarly(s, e) ==
  \/ s.state \in From(e.kind)
  \/ e.kind = "ResourcesReleased" /\ s.state = "ReceiptPending"

Legal(s, e) ==
  /\ s.state \in From(e.kind)
  /\ e.kind = "ProcessFinished"  => e.disposition # "SetupFailed"
  /\ e.kind = "PreRunTerminated" => e.disposition \in {"TimedOut", "Cancelled"}

\* Faulty variant: SetupFailed leaves the disposition it finds.
CarriedButForgetsSetup(s, e) ==
  IF e.kind \in {"ProcessFinished", "PreRunTerminated", "TerminallyDeclined"}
  THEN e.disposition ELSE s.d

\* The disposition the next state carries: an event's own, or the one the
\* present state already carries.
Carried(s, e) ==
  CASE e.kind \in {"ProcessFinished", "PreRunTerminated", "TerminallyDeclined"}
                                  -> e.disposition
    [] e.kind = "SetupFailed"     -> "SetupFailed"
    [] OTHER                      -> s.d

--------------------------------------------------------------------------------
(***************************************************************************)
(* reduce_existing(): events carry injected time that never runs backwards.*)
(***************************************************************************)
Timed(e) == e.kind \notin {"Proposed", "ConsumerAttached", "Selected"}

Monotone(s, e) ==
  (Timed(e) /\ s.last_event_at # NoTime) => e.at >= s.last_event_at

(***************************************************************************)
(* TaskTiming.  The point an accounting event stamps, if any; the          *)
(* durations it closes; and the point each duration is measured from.      *)
(***************************************************************************)
\* Faulty variant: the end of the process is not stamped.
StampsButProcessEnd(kind) ==
  CASE kind = "Queued"              -> {"queued_at"}
    [] kind = "EnteredResourceWait" -> {"resource_wait_started_at"}
    [] kind = "Admitted"            -> {"admitted_at"}
    [] kind = "SetupStarted"        -> {"setup_started_at"}
    [] kind = "RunStarted"          -> {"process_started_at"}
    [] OTHER                        -> {}

Stamps(kind) ==
  CASE kind = "Queued"              -> {"queued_at"}
    [] kind = "EnteredResourceWait" -> {"resource_wait_started_at"}
    [] kind = "Admitted"            -> {"admitted_at"}
    [] kind = "SetupStarted"        -> {"setup_started_at"}
    [] kind = "RunStarted"          -> {"process_started_at"}
    [] kind = "ProcessFinished"     -> {"process_finished_at"}
    [] kind = "CleanupFinished"     -> {"cleanup_finished_at"}
    [] kind = "ReceiptCreated"        -> {"receipt_recorded_at"}
    [] kind = "ReceiptCreationFailed" -> {"receipt_recorded_at"}
    [] kind = "ResourcesReleased"   -> {"resources_released_at"}
    [] OTHER                        -> {}

StartOf(p) ==
  CASE p = "queue_ms"         -> "queued_at"
    [] p = "resource_wait_ms" -> "resource_wait_started_at"
    [] p = "setup_ms"         -> "setup_started_at"
    [] p = "process_ms"       -> "process_started_at"
    [] p = "cleanup_ms"       -> "process_finished_at"

\* Faulty variant: an admission straight from the queue does not close it.
ClosesButQueue(s, kind) ==
  CASE kind = "EnteredResourceWait" -> {"queue_ms"}
    [] kind = "Admitted"            -> {"resource_wait_ms"}
    [] kind \in {"RunStarted", "SetupFailed", "PreRunTerminated"} -> {"setup_ms"}
    [] kind = "ProcessFinished"     -> {"process_ms"}
    [] kind = "CleanupFinished"     -> {"cleanup_ms"}
    [] OTHER                        -> {}

Closes(s, kind) ==
  CASE kind = "EnteredResourceWait" -> {"queue_ms"}
    [] kind = "Admitted" ->
         {"resource_wait_ms"} \cup (IF s.state = "Queued" THEN {"queue_ms"} ELSE {})
    [] kind \in {"RunStarted", "SetupFailed", "PreRunTerminated"} -> {"setup_ms"}
    [] kind = "ProcessFinished" -> {"process_ms"}
    [] kind = "CleanupFinished" -> {"cleanup_ms"}
    [] kind = "TerminallyDeclined" ->
         CASE s.state = "Queued"       -> {"queue_ms"}
           [] s.state = "ResourceWait" -> {"resource_wait_ms"}
           [] OTHER                    -> {}
    [] OTHER -> {}

\* The intervals apply_payload() measures only if they were started.
MayLackStart(kind, p) ==
  \/ kind = "Admitted" /\ p = "resource_wait_ms"
  \/ kind \in {"SetupFailed", "PreRunTerminated"}

\* duration() rejects the event whose interval has no start, or starts after
\* it ends.
IntervalsClose(s, e) ==
  \A p \in Closes(s, e.kind) :
    LET start == s.at[StartOf(p)]
    IN IF start = NoTime THEN MayLackStart(e.kind, p) ELSE start <= e.at

Elapsed(start, finish) == IF start = NoTime THEN NoTime ELSE finish - start

(***************************************************************************)
(* The other checks of apply_payload().                                    *)
(***************************************************************************)
\* validate_reservations(): positive units, one reservation per class.
ValidReservations(rs) ==
  /\ \A i \in DOMAIN rs : rs[i].units > 0
  /\ \A i, j \in DOMAIN rs : rs[i].class = rs[j].class => i = j

\* Faulty variant: a consumer may be attached again with other metadata.
PayloadValidButReattaches(s, e) ==
  /\ e.kind = "Admitted" => ValidReservations(e.reservations)
  /\ e.kind = "TerminallyDeclined" =>
       (e.existing_receipt <=> e.disposition = "SatisfiedByExistingReceipt")

PayloadValid(s, e) ==
  /\ e.kind = "ConsumerAttached" => s.consumers[e.consumer] \in {"none", e.meta}
  /\ e.kind = "Admitted" => ValidReservations(e.reservations)
  /\ e.kind = "TerminallyDeclined" =>
       (e.existing_receipt <=> e.disposition = "SatisfiedByExistingReceipt")

--------------------------------------------------------------------------------
(***************************************************************************)
(* TaskReducer::apply(): whether an event is accepted, and the snapshot    *)
(* it leaves, field by field.                                              *)
(***************************************************************************)
Accepts(s, e) ==
  IF e.kind = "Proposed"
  THEN e.revision = CurrentRevision /\ s.state = "Absent"
  ELSE /\ s.state # "Absent"
       /\ Monotone(s, e)
       /\ Legal(s, e)
       /\ IntervalsClose(s, e)
       /\ PayloadValid(s, e)

ExecutionAfter(s, e) ==
  CASE e.kind \in {"ProcessFinished", "PreRunTerminated"} -> e.disposition
    [] e.kind = "SetupFailed" -> "SetupFailed"
    [] OTHER -> s.execution

ReceiptAfter(s, e) ==
  CASE e.kind = "ReceiptCreated"        -> "Created"
    [] e.kind = "ReceiptCreationFailed" -> "CreationFailed"
    [] OTHER -> s.receipt

Proposal == [NoSnapshot EXCEPT !.state = "Proposed"]

Reduced(s, e) ==
  [state              |-> To(s, e.kind),
   d                  |-> Carried(s, e),
   consumers          |-> IF e.kind = "ConsumerAttached"
                          THEN [s.consumers EXCEPT ![e.consumer] = e.meta]
                          ELSE s.consumers,
   reservations       |-> IF e.kind = "Admitted" THEN e.reservations
                          ELSE s.reservations,
   resources_released |-> s.resources_released \/ e.kind = "ResourcesReleased",
   at                 |-> [p \in TimingPoints |->
                             IF p \in Stamps(e.kind) THEN e.at ELSE s.at[p]],
   ms                 |-> [p \in Durations |->
                             IF p \in Closes(s, e.kind)
                             THEN Elapsed(s.at[StartOf(p)], e.at) ELSE s.ms[p]],
   execution          |-> ExecutionAfter(s, e),
   non_execution      |-> IF e.kind = "TerminallyDeclined" THEN e.disposition
                          ELSE s.non_execution,
   receipt            |-> ReceiptAfter(s, e),
   existing_receipt   |-> IF e.kind = "TerminallyDeclined" THEN e.existing_receipt
                          ELSE s.existing_receipt,
   last_event_at      |-> IF Timed(e) THEN e.at ELSE s.last_event_at]

Reduce(s, e) == IF e.kind = "Proposed" THEN Proposal ELSE Reduced(s, e)
================================================================================

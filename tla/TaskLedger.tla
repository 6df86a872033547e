------------------------------- MODULE TaskLedger -------------------------------
(***************************************************************************)
(* The replay of a task-ledger event stream                                *)
(* (src/task_ledger_artifact.rs, replay_event_stream): one reducer per     *)
(* task id, fed the records of the stream in order.  The first refused     *)
(* record refuses the stream; at its end every task must have settled.     *)
(***************************************************************************)
EXTENDS TaskReducer

CONSTANTS
  Tasks,          \* task ids
  Revisions,      \* revision digests a proposal may bind
  Instants,       \* the caller's monotonic milliseconds
  Reservations    \* the reservation lists an admission may record

ASSUME LedgerConstants ==
  /\ CurrentRevision \in Revisions
  /\ Instants \subseteq Nat
  /\ "none" \notin Metas
  /\ \A rs \in Reservations :
       rs \in Seq([class : Classes, units : Nat])

VARIABLES
  reducers,   \* reducers[t]: the snapshot TaskReducer holds for task t
  verdict     \* what replay has concluded: "reading" until it concludes

vars == <<reducers, verdict>>

Init ==
  /\ reducers = [t \in Tasks |-> NoSnapshot]
  /\ verdict = "reading"

\* reducers.entry(task_id).or_default().apply(...)?
Replay(t, e) ==
  /\ verdict = "reading"
  /\ \/ /\ Accepts(reducers[t], e)
        /\ reducers' = [reducers EXCEPT ![t] = Reduce(reducers[t], e)]
        /\ UNCHANGED verdict
     \/ /\ ~Accepts(reducers[t], e)
        /\ verdict' = "refused"
        /\ UNCHANGED reducers

Event(k, at) == [kind |-> k, at |-> at]

Propose(t, r)       == Replay(t, [kind |-> "Proposed", revision |-> r])
AttachConsumer(t, c, m) ==
  Replay(t, [kind |-> "ConsumerAttached", consumer |-> c, meta |-> m])
Select(t)           == Replay(t, [kind |-> "Selected"])
Queue(t, at)        == Replay(t, Event("Queued", at))
EnterWait(t, at)    == Replay(t, Event("EnteredResourceWait", at))
Admit(t, at, rs) ==
  Replay(t, [kind |-> "Admitted", at |-> at, reservations |-> rs])
StartSetup(t, at)   == Replay(t, Event("SetupStarted", at))
StartRun(t, at)     == Replay(t, Event("RunStarted", at))
FinishProcess(t, at, d) ==
  Replay(t, [kind |-> "ProcessFinished", at |-> at, disposition |-> d])
FailSetup(t, at)    == Replay(t, Event("SetupFailed", at))
TerminatePreRun(t, at, d) ==
  Replay(t, [kind |-> "PreRunTerminated", at |-> at, disposition |-> d])
FinishCleanup(t, at) == Replay(t, Event("CleanupFinished", at))
CreateReceipt(t, at) == Replay(t, Event("ReceiptCreated", at))
FailReceipt(t, at)  == Replay(t, Event("ReceiptCreationFailed", at))
Release(t, at)      == Replay(t, Event("ResourcesReleased", at))
Decline(t, at, d, x) ==
  Replay(t, [kind |-> "TerminallyDeclined", at |-> at, disposition |-> d,
             existing_receipt |-> x])

\* A record that breaks the sealed envelope (schema, sequence, revision,
\* digest chain, canonical bytes, reference shape) refuses the stream.
RefuseRecord ==
  /\ verdict = "reading"
  /\ verdict' = "refused"
  /\ UNCHANGED reducers

Settled == {"ResourcesReleased", "TerminallyDeclined"}

\* Faulty variant: a stream may end with resources still held.
EndOfStreamButHolding ==
  LET states == {reducers[t].state : t \in Tasks} \ {"Absent"}
  IN /\ verdict = "reading"
     /\ states # {} /\ states \subseteq Settled \cup {"ReleasePending"}
     /\ verdict' = "complete"
     /\ UNCHANGED reducers

\* The check after the last record.  An empty stream is refused.
EndOfStream ==
  LET states == {reducers[t].state : t \in Tasks} \ {"Absent"}
  IN /\ verdict = "reading"
     /\ \/ states # {} /\ states \subseteq Settled /\ verdict' = "complete"
        \/ "ReleasePending" \in states /\ verdict' = "unreleased_resources"
        \/ /\ states = {} \/ ~ (states \subseteq Settled \cup {"ReleasePending"})
           /\ verdict' = "truncated"
     /\ UNCHANGED reducers

Next ==
  \/ \E t \in Tasks :
       \/ \E r \in Revisions : Propose(t, r)
       \/ \E c \in Consumers, m \in Metas : AttachConsumer(t, c, m)
       \/ Select(t)
       \/ \E at \in Instants :
            \/ Queue(t, at) \/ EnterWait(t, at)
            \/ \E rs \in Reservations : Admit(t, at, rs)
            \/ StartSetup(t, at) \/ StartRun(t, at)
            \/ \E d \in Terminal : FinishProcess(t, at, d) \/ TerminatePreRun(t, at, d)
            \/ FailSetup(t, at) \/ FinishCleanup(t, at)
            \/ CreateReceipt(t, at) \/ FailReceipt(t, at) \/ Release(t, at)
            \/ \E d \in NonExecution, x \in BOOLEAN : Decline(t, at, d, x)
  \/ RefuseRecord
  \/ EndOfStream

Spec == Init /\ [][Next]_vars

--------------------------------------------------------------------------------
Time == Instants \cup {NoTime}

Snapshot ==
  [state : TaskState \cup {"Absent"},
   d : Terminal \cup NonExecution \cup {"none"},
   consumers : [Consumers -> Metas \cup {"none"}],
   reservations : Reservations \cup {<< >>},
   resources_released : BOOLEAN,
   at : [TimingPoints -> Time],
   ms : [Durations -> Nat \cup {NoTime}],
   execution : Terminal \cup {"none"},
   non_execution : NonExecution \cup {"none"},
   receipt : {"none", "Created", "CreationFailed"},
   existing_receipt : BOOLEAN,
   last_event_at : Time]

Verdicts == {"reading", "refused", "complete", "unreleased_resources", "truncated"}

\* Every snapshot has the shape of TaskSnapshot; every recorded instant is one
\* the caller injected and every derived duration is non-negative (a u64).
TypeOK ==
  /\ reducers \in [Tasks -> Snapshot]
  /\ verdict \in Verdicts

Executing == PreRun \cup {"Running"}

\* The accounting of one snapshot, by the state it is in: resources are
\* reserved exactly from admission on, the outcome in the state agrees with the
\* recorded one, a receipt was attempted before release, and a declined task
\* never held anything.
Accounted(s) ==
  /\ s.state \in {"Absent"} \cup Unadmitted =>
       /\ s.reservations = << >> /\ s.receipt = "none" /\ ~s.resources_released
       /\ s.execution = "none" /\ s.non_execution = "none" /\ s.d = "none"
       /\ s.at["admitted_at"] = NoTime
  /\ s.state \in Executing =>
       /\ s.execution = "none" /\ s.receipt = "none" /\ ~s.resources_released
       /\ s.non_execution = "none" /\ s.d = "none"
       /\ s.at["admitted_at"] # NoTime
  /\ s.state \in Settling =>
       /\ s.d \in Terminal /\ s.d = s.execution /\ s.non_execution = "none"
       /\ s.at["admitted_at"] # NoTime
       /\ s.receipt = "none" <=> s.state \in {"Cleanup", "ReceiptPending"}
       /\ s.resources_released <=> s.state = "ResourcesReleased"
  /\ s.state = "TerminallyDeclined" =>
       /\ s.d \in NonExecution /\ s.d = s.non_execution /\ s.execution = "none"
       /\ s.reservations = << >> /\ s.receipt = "none" /\ ~s.resources_released
       /\ s.at["admitted_at"] = NoTime
       /\ s.existing_receipt <=> s.d = "SatisfiedByExistingReceipt"

TasksAccounted == \A t \in Tasks : Accounted(reducers[t])

\* The comment on duration(): "the transition table proves the start exists".
\* An event the table allows at a monotone time never fails for want of the
\* start of the interval it closes.
StartsExist(s) ==
  /\ s.state \in {"Queued", "ResourceWait"} => s.at["queued_at"] # NoTime
  /\ s.state = "ResourceWait" => s.at["resource_wait_started_at"] # NoTime
  /\ s.state \in {"Setup", "Running"} => s.at["setup_started_at"] # NoTime
  /\ s.state = "Running" => s.at["process_started_at"] # NoTime
  /\ s.state = "Cleanup" => s.at["process_finished_at"] # NoTime
  /\ \A p \in TimingPoints : s.at[p] <= s.last_event_at

TimedEvents ==
  LET Plain == {"Queued", "EnteredResourceWait", "SetupStarted", "RunStarted",
                "SetupFailed", "CleanupFinished", "ReceiptCreated",
                "ReceiptCreationFailed", "ResourcesReleased"}
  IN [kind : Plain, at : Instants]
       \cup [kind : {"Admitted"}, at : Instants, reservations : Reservations]
       \cup [kind : {"ProcessFinished", "PreRunTerminated"}, at : Instants,
             disposition : Terminal]
       \cup [kind : {"TerminallyDeclined"}, at : Instants,
             disposition : NonExecution, existing_receipt : BOOLEAN]

TableProvesStarts ==
  \A t \in Tasks : \A e \in TimedEvents :
    LET s == reducers[t]
    IN s.state # "Absent" /\ Legal(s, e) /\ Monotone(s, e) => IntervalsClose(s, e)

\* Every recorded duration is the length of its own interval, so the recorded
\* intervals of a task that ran to cleanup partition the time from queueing to
\* the end of cleanup: nothing is counted twice and nothing is lost but the
\* step from admission to setup.
Spent(s, p) == IF s.ms[p] = NoTime THEN 0 ELSE s.ms[p]

DurationsPartitionLifetime ==
  \A t \in Tasks :
    LET s == reducers[t]
    IN s.at["cleanup_finished_at"] # NoTime =>
         Spent(s, "queue_ms") + Spent(s, "resource_wait_ms")
           + (s.at["setup_started_at"] - s.at["admitted_at"])
           + Spent(s, "setup_ms") + Spent(s, "process_ms") + Spent(s, "cleanup_ms")
         = s.at["cleanup_finished_at"] - s.at["queued_at"]

\* A fact once recorded is never rewritten: not an outcome, a receipt, a
\* release, a timing point or a consumer's metadata, and a settled task stays
\* in the state it settled in.
FactsAreFinal ==
  [][\A t \in Tasks :
       LET s == reducers[t]
           n == reducers'[t]
       IN /\ s.execution # "none" => n.execution = s.execution
          /\ s.receipt # "none" => n.receipt = s.receipt
          /\ s.resources_released => n.resources_released
          /\ s.state \in Settled => n.state = s.state /\ n.d = s.d
          /\ \A p \in TimingPoints : s.at[p] # NoTime => n.at[p] = s.at[p]
          /\ \A c \in Consumers :
               s.consumers[c] # "none" => n.consumers[c] = s.consumers[c]]_vars

\* A stream that replays to the end holds nothing back: every task it proposes
\* either never held a resource or has a receipt attempt and released what it
\* reserved, each resource class once.
AcceptedStreamIsClosed ==
  verdict = "complete" =>
    \A t \in Tasks :
      LET s == reducers[t]
      IN s.state # "Absent" =>
           \/ s.non_execution # "none" /\ s.reservations = << >>
           \/ /\ s.execution # "none" /\ s.receipt # "none" /\ s.resources_released
              /\ ValidReservations(s.reservations)

--------------------------------------------------------------------------------
\* The ledger implements the resource account: a task's lifecycle states are
\* the detail of where its resources stand.
accountOf(s) ==
  CASE s.state = "Absent"                -> "unknown"
    [] s.state \in Unadmitted            -> "offered"
    [] s.state \in Executing             -> "holding"
    [] s.state \in {"Cleanup", "ReceiptPending"} -> "holding"
    [] s.state = "ReleasePending"        -> "attested"
    [] s.state = "ResourcesReleased"     -> "released"
    [] s.state = "TerminallyDeclined"    -> "declined"

Account == INSTANCE TaskAccount WITH
  Outcomes <- Terminal,
  account  <- [t \in Tasks |-> accountOf(reducers[t])],
  outcome  <- [t \in Tasks |-> reducers[t].execution]

ImplementsAccount == Account!Spec
================================================================================

---------------------------- MODULE TaskLedgerProofs ----------------------------
(***************************************************************************)
(* Proofs about the reducer and the replay of TaskLedger, for every set of *)
(* tasks, consumers, resource classes, instants and reservation lists.     *)
(*                                                                         *)
(* The argument is per snapshot.  An accepted event keeps a snapshot well  *)
(* typed, accounted for, and with the start of every open interval         *)
(* recorded (ReduceType, ReduceAccounted, ReduceStarted); these three are  *)
(* the inductive invariant of the replay.                                  *)
(***************************************************************************)
EXTENDS TaskLedger, LedgerPublication, TLAPS

UntimedEvents ==
  [kind : {"Proposed"}, revision : Revisions]
    \cup [kind : {"ConsumerAttached"}, consumer : Consumers, meta : Metas]
    \cup [kind : {"Selected"}]

Events == TimedEvents \cup UntimedEvents

\* The fields an event carries, by kind.
LEMMA EventFields ==
  ASSUME NEW e \in Events
  PROVE  /\ Timed(e) => e.at \in Instants /\ e.at \in Nat
         /\ e.kind = "Admitted" => e.reservations \in Reservations
         /\ e.kind \in {"ProcessFinished", "PreRunTerminated"}
              => e.disposition \in Terminal
         /\ e.kind = "TerminallyDeclined"
              => e.disposition \in NonExecution /\ e.existing_receipt \in BOOLEAN
         /\ e.kind = "ConsumerAttached"
              => e.consumer \in Consumers /\ e.meta \in Metas
         /\ e.kind \in {"Proposed", "ConsumerAttached", "Selected", "Queued", "EnteredResourceWait",
                         "Admitted", "SetupStarted", "RunStarted", "ProcessFinished",
                         "SetupFailed", "PreRunTerminated", "CleanupFinished", "ReceiptCreated",
                         "ReceiptCreationFailed", "ResourcesReleased", "TerminallyDeclined"}
<1>1. CASE e \in TimedEvents
  BY <1>1, LedgerConstants DEF TimedEvents, Timed
<1>2. CASE e \in UntimedEvents
  BY <1>2 DEF UntimedEvents, Timed
<1> QED BY <1>1, <1>2 DEF Events

\* A recorded instant is a natural number; None is not.
LEMMA InstantOrNone ==
  ASSUME NEW x \in Time
  PROVE  /\ x \in Int
         /\ x = NoTime \/ x \in Nat
         /\ x # NoTime => x >= 0 /\ x > NoTime
<1>1. NoTime \in Int /\ NoTime = -1
  BY DEF NoTime
<1>2. x = NoTime \/ x \in Nat
  BY LedgerConstants DEF Time
<1>3. CASE x = NoTime
  BY <1>1, <1>3
<1>4. CASE x \in Nat
  BY <1>1, <1>4
<1> QED BY <1>2, <1>3, <1>4

LEMMA TimePoints ==
  ASSUME NEW s \in Snapshot, NEW p \in Durations
  PROVE  StartOf(p) \in TimingPoints /\ s.at[StartOf(p)] \in Time
<1>1. StartOf(p) \in TimingPoints
  BY DEF StartOf, Durations, TimingPoints
<1>2. s.at \in [TimingPoints -> Time]
  BY DEF Snapshot
<1> QED BY <1>1, <1>2

--------------------------------------------------------------------------------
\* An accepted event leaves a snapshot of the right type; in particular a
\* measured interval has a natural length.
LEMMA ReduceType ==
  ASSUME NEW s \in Snapshot, NEW e \in Events, e.kind # "Proposed", Accepts(s, e)
  PROVE  Reduced(s, e) \in Snapshot
<1> DEFINE n == Reduced(s, e)
<1>1. /\ s.state \in TaskState \cup {"Absent"}
      /\ s.d \in Terminal \cup NonExecution \cup {"none"}
      /\ s.consumers \in [Consumers -> Metas \cup {"none"}]
      /\ s.reservations \in Reservations \cup {<< >>}
      /\ s.at \in [TimingPoints -> Time]
      /\ s.ms \in [Durations -> Nat \cup {NoTime}]
      /\ s.execution \in Terminal \cup {"none"}
      /\ s.non_execution \in NonExecution \cup {"none"}
      /\ s.receipt \in {"none", "Created", "CreationFailed"}
      /\ s.existing_receipt \in BOOLEAN
      /\ s.last_event_at \in Time
  BY DEF Snapshot
<1>2. Legal(s, e) /\ IntervalsClose(s, e)
  BY DEF Accepts
<1>3. To(s, e.kind) \in TaskState \cup {"Absent"}
  BY <1>1, EventFields DEF To, TaskState, Unadmitted, PreRun, Settling
<1>4. Carried(s, e) \in Terminal \cup NonExecution \cup {"none"}
  BY <1>1, EventFields DEF Carried, Terminal
<1>5. (IF e.kind = "ConsumerAttached" THEN [s.consumers EXCEPT ![e.consumer] = e.meta]
       ELSE s.consumers) \in [Consumers -> Metas \cup {"none"}]
  BY <1>1, EventFields
<1>6. (IF e.kind = "Admitted" THEN e.reservations ELSE s.reservations)
        \in Reservations \cup {<< >>}
  BY <1>1, EventFields
<1>7. ASSUME NEW p \in TimingPoints
      PROVE  (IF p \in Stamps(e.kind) THEN e.at ELSE s.at[p]) \in Time
  <2>1. Stamps(e.kind) # {} => Timed(e)
    BY DEF Stamps, Timed
  <2> QED BY <1>1, <2>1, EventFields DEF Time
<1>8. ASSUME NEW p \in Durations
      PROVE  (IF p \in Closes(s, e.kind) THEN Elapsed(s.at[StartOf(p)], e.at)
              ELSE s.ms[p]) \in Nat \cup {NoTime}
  <2>1. CASE p \in Closes(s, e.kind)
    <3> DEFINE start == s.at[StartOf(p)]
    <3>1. Timed(e) /\ e.at \in Nat
      BY <2>1, EventFields DEF Closes, Timed
    <3>2. start = NoTime \/ (start \in Nat /\ start <= e.at)
      BY <1>2, <2>1, TimePoints, InstantOrNone DEF IntervalsClose
    <3> HIDE DEF start
    <3>3. Elapsed(start, e.at) \in Nat \cup {NoTime}
      BY <3>1, <3>2 DEF Elapsed
    <3> QED BY <2>1, <3>3 DEF start
  <2>2. CASE p \notin Closes(s, e.kind)
    BY <1>1, <2>2
  <2> QED BY <2>1, <2>2
<1>9. ExecutionAfter(s, e) \in Terminal \cup {"none"}
  BY <1>1, EventFields DEF ExecutionAfter, Terminal
<1>10. ReceiptAfter(s, e) \in {"none", "Created", "CreationFailed"}
  BY <1>1 DEF ReceiptAfter
<1>11. (IF e.kind = "TerminallyDeclined" THEN e.disposition ELSE s.non_execution)
         \in NonExecution \cup {"none"}
  BY <1>1, EventFields
<1>12. (IF e.kind = "TerminallyDeclined" THEN e.existing_receipt ELSE s.existing_receipt)
         \in BOOLEAN
  BY <1>1, EventFields
<1>13. (IF Timed(e) THEN e.at ELSE s.last_event_at) \in Time
  BY <1>1, EventFields DEF Time
<1>14. (s.resources_released \/ e.kind = "ResourcesReleased") \in BOOLEAN
  OBVIOUS
<1> QED
  BY <1>3, <1>4, <1>5, <1>6, <1>7, <1>8, <1>9, <1>10, <1>11, <1>12, <1>13, <1>14
  DEF Reduced, Snapshot

\* An accepted event keeps the accounting of a snapshot.
LEMMA ReduceAccounted ==
  ASSUME NEW s \in Snapshot, NEW e \in Events, e.kind # "Proposed",
         Accounted(s), Accepts(s, e)
  PROVE  Accounted(Reduced(s, e))
<1> DEFINE n == Reduced(s, e)
<1>1. Legal(s, e) /\ PayloadValid(s, e)
  BY DEF Accepts
<1>2. /\ n.state = To(s, e.kind)
      /\ n.d = Carried(s, e)
      /\ n.execution = ExecutionAfter(s, e)
      /\ n.receipt = ReceiptAfter(s, e)
      /\ n.reservations = IF e.kind = "Admitted" THEN e.reservations
                          ELSE s.reservations
      /\ n.resources_released <=>
           (s.resources_released \/ e.kind = "ResourcesReleased")
      /\ n.non_execution = IF e.kind = "TerminallyDeclined" THEN e.disposition
                           ELSE s.non_execution
      /\ n.existing_receipt <=> IF e.kind = "TerminallyDeclined"
                                THEN e.existing_receipt ELSE s.existing_receipt
  BY DEF Reduced
<1>3. n.at["admitted_at"] = IF e.kind = "Admitted" THEN e.at ELSE s.at["admitted_at"]
  BY EventFields DEF Reduced, TimingPoints, Stamps
<1>4. e.kind = "Admitted" => e.at # NoTime
  BY EventFields DEF NoTime, Timed
<1>5. /\ e.kind \in {"ProcessFinished", "PreRunTerminated"} => e.disposition \in Terminal
      /\ e.kind = "TerminallyDeclined" => e.disposition \in NonExecution
  BY EventFields
<1> HIDE DEF n
<1> USE <1>1, <1>2, <1>3, <1>4, <1>5
    DEF Accounted, To, Carried, ExecutionAfter, ReceiptAfter, From, Legal,
        PayloadValid, TaskState, Unadmitted, PreRun, Executing, Settling,
        Terminal, NonExecution
<1>6. ASSUME e.kind = "ConsumerAttached" PROVE Accounted(n)
  BY <1>6
<1>7. ASSUME e.kind = "Selected" PROVE Accounted(n)
  BY <1>7
<1>8. ASSUME e.kind = "Queued" PROVE Accounted(n)
  BY <1>8
<1>9. ASSUME e.kind = "EnteredResourceWait" PROVE Accounted(n)
  BY <1>9
<1>10. ASSUME e.kind = "Admitted" PROVE Accounted(n)
  BY <1>10
<1>11. ASSUME e.kind = "SetupStarted" PROVE Accounted(n)
  BY <1>11
<1>12. ASSUME e.kind = "RunStarted" PROVE Accounted(n)
  BY <1>12
<1>13. ASSUME e.kind = "ProcessFinished" PROVE Accounted(n)
  BY <1>13
<1>14. ASSUME e.kind = "SetupFailed" PROVE Accounted(n)
  BY <1>14
<1>15. ASSUME e.kind = "PreRunTerminated" PROVE Accounted(n)
  BY <1>15
<1>16. ASSUME e.kind = "CleanupFinished" PROVE Accounted(n)
  BY <1>16
<1>17. ASSUME e.kind = "ReceiptCreated" PROVE Accounted(n)
  BY <1>17
<1>18. ASSUME e.kind = "ReceiptCreationFailed" PROVE Accounted(n)
  BY <1>18
<1>19. ASSUME e.kind = "ResourcesReleased" PROVE Accounted(n)
  BY <1>19
<1>20. ASSUME e.kind = "TerminallyDeclined" PROVE Accounted(n)
  BY <1>20
<1> QED BY <1>6, <1>7, <1>8, <1>9, <1>10, <1>11, <1>12, <1>13, <1>14, <1>15, <1>16, <1>17, <1>18, <1>19, <1>20, EventFields DEF n

--------------------------------------------------------------------------------
\* An accepted event keeps the start of every open interval recorded, and the
\* last event no earlier than any recorded point.
LEMMA ReduceStarted ==
  ASSUME NEW s \in Snapshot, NEW e \in Events, e.kind # "Proposed",
         StartsExist(s), Accepts(s, e)
  PROVE  StartsExist(Reduced(s, e))
<1> DEFINE n == Reduced(s, e)
<1>1. /\ Legal(s, e) /\ Monotone(s, e)
  BY DEF Accepts
<1>2. /\ n.state = To(s, e.kind)
      /\ n.last_event_at = IF Timed(e) THEN e.at ELSE s.last_event_at
      /\ \A p \in TimingPoints :
           n.at[p] = IF p \in Stamps(e.kind) THEN e.at ELSE s.at[p]
  BY DEF Reduced
<1>3. Timed(e) => e.at \in Nat /\ e.at # NoTime
  BY EventFields DEF NoTime
<1>4. ASSUME NEW p \in TimingPoints PROVE n.at[p] <= n.last_event_at
  <2>1. s.at[p] \in Time /\ s.last_event_at \in Time /\ s.at[p] <= s.last_event_at
    BY DEF Snapshot, StartsExist
  <2>2. s.at[p] \in Int /\ s.last_event_at \in Int
    BY <2>1, InstantOrNone
  <2>3. CASE ~Timed(e)
    <3>1. Stamps(e.kind) = {}
      BY <2>3 DEF Stamps, Timed
    <3> QED BY <1>2, <2>1, <2>3, <3>1
  <2>4. CASE Timed(e)
    <3>1. s.last_event_at <= e.at
      <4>1. s.last_event_at = NoTime => s.last_event_at <= e.at
        BY <1>3, <2>4 DEF NoTime
      <4> QED BY <1>1, <1>3, <2>2, <2>4, <4>1 DEF Monotone
    <3> QED BY <1>2, <1>3, <2>1, <2>2, <2>4, <3>1
  <2> QED BY <2>3, <2>4
<1>5. \A p \in TimingPoints : s.at[p] # NoTime => n.at[p] # NoTime
  <2>1. Stamps(e.kind) # {} => Timed(e)
    BY DEF Stamps, Timed
  <2> QED BY <1>2, <1>3, <2>1
<1>6. \A p \in Stamps(e.kind) : p \in TimingPoints => n.at[p] # NoTime
  <2>1. Stamps(e.kind) # {} => Timed(e)
    BY DEF Stamps, Timed
  <2> QED BY <1>2, <1>3, <2>1
<1> HIDE DEF n
<1>7. /\ n.state \in {"Queued", "ResourceWait"} => n.at["queued_at"] # NoTime
      /\ n.state = "ResourceWait" => n.at["resource_wait_started_at"] # NoTime
      /\ n.state \in {"Setup", "Running"} => n.at["setup_started_at"] # NoTime
      /\ n.state = "Running" => n.at["process_started_at"] # NoTime
      /\ n.state = "Cleanup" => n.at["process_finished_at"] # NoTime
  <2>1. CASE e.kind = "ConsumerAttached"
    BY <1>2, <1>5, <2>1 DEF To, StartsExist, TimingPoints
  <2>2. CASE e.kind = "EnteredResourceWait"
    BY <1>1, <1>2, <1>5, <1>6, <2>2
    DEF To, From, Legal, Stamps, StartsExist, TimingPoints
  <2>3. CASE e.kind = "RunStarted"
    BY <1>1, <1>2, <1>5, <1>6, <2>3
    DEF To, From, Legal, Stamps, StartsExist, TimingPoints
  <2>4. CASE e.kind \in {"Queued", "SetupStarted", "ProcessFinished"}
    BY <1>2, <1>6, <2>4 DEF To, Stamps, TimingPoints
  <2>5. CASE e.kind \notin {"ConsumerAttached", "EnteredResourceWait", "RunStarted",
                            "Queued", "SetupStarted", "ProcessFinished"}
    BY <1>2, <2>5, EventFields DEF To
  <2> QED BY <2>1, <2>2, <2>3, <2>4, <2>5
<1>8. StartsExist(n)
  BY <1>4, <1>7 DEF StartsExist
<1> QED BY <1>8 DEF n

--------------------------------------------------------------------------------
\* The empty reducer and a fresh proposal satisfy all three.
LEMMA FreshSnapshots ==
  /\ NoSnapshot \in Snapshot /\ Accounted(NoSnapshot) /\ StartsExist(NoSnapshot)
  /\ Proposal \in Snapshot /\ Accounted(Proposal) /\ StartsExist(Proposal)
<1>1. NoSnapshot \in Snapshot
  BY DEF NoSnapshot, Snapshot, Time
<1>2. Proposal \in Snapshot
  BY DEF Proposal, NoSnapshot, Snapshot, Time, TaskState, Unadmitted
<1>3. Accounted(NoSnapshot) /\ Accounted(Proposal)
  BY DEF Accounted, Proposal, NoSnapshot, TimingPoints, Unadmitted, Executing,
         PreRun, Settling
<1>4. NoTime <= NoTime
  BY DEF NoTime
<1>5. StartsExist(NoSnapshot) /\ StartsExist(Proposal)
  BY <1>4 DEF StartsExist, Proposal, NoSnapshot
<1> QED BY <1>1, <1>2, <1>3, <1>5

\* The snapshot reservation list is always valid: admission alone writes it.
Reserved(s) == ValidReservations(s.reservations)

\* The inductive invariant of the replay.
IInv ==
  /\ TypeOK
  /\ \A t \in Tasks : Accounted(reducers[t])
  /\ \A t \in Tasks : StartsExist(reducers[t])
  /\ \A t \in Tasks : Reserved(reducers[t])
  /\ verdict = "complete" =>
       \A t \in Tasks : reducers[t].state \in Settled \cup {"Absent"}

\* Every step that reads a record folds one event into one reducer.
LEMMA NextIsReplay ==
  ASSUME Next
  PROVE  \/ \E t \in Tasks, e \in Events : Replay(t, e)
         \/ RefuseRecord
         \/ EndOfStream
<1> SUFFICES ASSUME ~RefuseRecord, ~EndOfStream
             PROVE  \E t \in Tasks, e \in Events : Replay(t, e)
  OBVIOUS
<1>1. PICK t \in Tasks :
       \/ \E r \in Revisions : Propose(t, r)
       \/ \E c \in Consumers, m \in Metas : AttachConsumer(t, c, m)
       \/ Select(t)
       \/ \E at \in Instants :
            \/ Queue(t, at) \/ EnterWait(t, at)
            \/ \E rs \in Reservations : Admit(t, at, rs)
            \/ StartSetup(t, at) \/ StartRun(t, at)
            \/ \E d \in Terminal : FinishProcess(t, at, d) \/ TerminatePreRun(t, at, d)
            \/ FailSetup(t, at) \/ FinishCleanup(t, at)
            \/ CreateReceipt(t, at) \/ FailReceipt(t, at) \/ Release(t, at)
            \/ \E d \in NonExecution, x \in BOOLEAN : Decline(t, at, d, x)
  BY DEF Next
<1>2. SUFFICES \E e \in Events : Replay(t, e)
  OBVIOUS
<1>3. CASE \E r \in Revisions : Propose(t, r)
  BY <1>3 DEF Propose, Events, UntimedEvents
<1>4. CASE \E c \in Consumers, m \in Metas : AttachConsumer(t, c, m)
  BY <1>4 DEF AttachConsumer, Events, UntimedEvents
<1>5. CASE Select(t)
  BY <1>5 DEF Select, Events, UntimedEvents
<1>6. ASSUME NEW at \in Instants,
             \/ Queue(t, at) \/ EnterWait(t, at) \/ StartSetup(t, at)
             \/ StartRun(t, at) \/ FailSetup(t, at) \/ FinishCleanup(t, at)
             \/ CreateReceipt(t, at) \/ FailReceipt(t, at) \/ Release(t, at)
      PROVE  \E e \in Events : Replay(t, e)
  <2> DEFINE Plain == {"Queued", "EnteredResourceWait", "SetupStarted", "RunStarted",
                       "SetupFailed", "CleanupFinished", "ReceiptCreated",
                       "ReceiptCreationFailed", "ResourcesReleased"}
  <2>1. \A k \in Plain : Event(k, at) \in Events
    BY DEF Event, Events, TimedEvents
  <2>2. \E k \in Plain : Replay(t, Event(k, at))
    BY <1>6 DEF Queue, EnterWait, StartSetup, StartRun, FailSetup, FinishCleanup,
                CreateReceipt, FailReceipt, Release
  <2> QED BY <2>1, <2>2
<1>7. ASSUME NEW at \in Instants, NEW rs \in Reservations, Admit(t, at, rs)
      PROVE  \E e \in Events : Replay(t, e)
  BY <1>7 DEF Admit, Events, TimedEvents
<1>8. ASSUME NEW at \in Instants, NEW d \in Terminal,
             FinishProcess(t, at, d) \/ TerminatePreRun(t, at, d)
      PROVE  \E e \in Events : Replay(t, e)
  BY <1>8 DEF FinishProcess, TerminatePreRun, Events, TimedEvents
<1>9. ASSUME NEW at \in Instants, NEW d \in NonExecution, NEW x \in BOOLEAN,
             Decline(t, at, d, x)
      PROVE  \E e \in Events : Replay(t, e)
  BY <1>9 DEF Decline, Events, TimedEvents
<1> QED BY <1>1, <1>3, <1>4, <1>5, <1>6, <1>7, <1>8, <1>9

\* What one accepted event does to one snapshot of the invariant.
LEMMA ReducePreserves ==
  ASSUME NEW s \in Snapshot, NEW e \in Events,
         Accounted(s), StartsExist(s), Reserved(s), Accepts(s, e)
  PROVE  /\ Reduce(s, e) \in Snapshot /\ Accounted(Reduce(s, e))
         /\ StartsExist(Reduce(s, e)) /\ Reserved(Reduce(s, e))
<1>1. CASE e.kind = "Proposed"
  <2>1. Reduce(s, e) = Proposal
    BY <1>1 DEF Reduce
  <2>2. Reserved(Proposal)
    BY DEF Reserved, ValidReservations, Proposal, NoSnapshot
  <2> QED BY <2>1, <2>2, FreshSnapshots
<1>2. CASE e.kind # "Proposed"
  <2>1. Reduce(s, e) = Reduced(s, e)
    BY <1>2 DEF Reduce
  <2>2. Reserved(Reduced(s, e))
    BY <1>2 DEF Reserved, Reduced, Accepts, PayloadValid
  <2> QED BY <1>2, <2>1, <2>2, ReduceType, ReduceAccounted, ReduceStarted
<1> QED BY <1>1, <1>2

LEMMA Initially == Init => IInv
<1> SUFFICES ASSUME Init PROVE IInv
  OBVIOUS
<1>1. \A t \in Tasks : reducers[t] = NoSnapshot
  BY DEF Init
<1>2. Reserved(NoSnapshot)
  BY DEF Reserved, ValidReservations, NoSnapshot
<1> QED BY <1>1, <1>2, FreshSnapshots DEF Init, IInv, TypeOK, Verdicts

LEMMA Inductive == IInv /\ [Next]_vars => IInv'
<1> SUFFICES ASSUME IInv, [Next]_vars PROVE IInv'
  OBVIOUS
<1>1. ASSUME NEW t \in Tasks, NEW e \in Events, Replay(t, e) PROVE IInv'
  <2>1. CASE Accepts(reducers[t], e) /\ reducers' = [reducers EXCEPT ![t] = Reduce(reducers[t], e)]
             /\ UNCHANGED verdict
    <3> DEFINE n == Reduce(reducers[t], e)
    <3>1. n \in Snapshot /\ Accounted(n) /\ StartsExist(n) /\ Reserved(n)
      BY <2>1, ReducePreserves DEF IInv, TypeOK
    <3>2. verdict = "reading"
      BY <1>1 DEF Replay
    <3> HIDE DEF n
    <3>3. \A u \in Tasks : reducers'[u] = IF u = t THEN n ELSE reducers[u]
      BY <2>1 DEF IInv, TypeOK, n
    <3>4. reducers' \in [Tasks -> Snapshot]
      BY <2>1, <3>1 DEF IInv, TypeOK, n
    <3>5. \A u \in Tasks : Accounted(reducers'[u]) /\ StartsExist(reducers'[u])
                             /\ Reserved(reducers'[u])
      BY <3>1, <3>3 DEF IInv
    <3> QED BY <2>1, <3>2, <3>4, <3>5 DEF IInv, TypeOK
  <2>2. CASE verdict' = "refused" /\ UNCHANGED reducers
    BY <2>2 DEF IInv, TypeOK, Verdicts
  <2> QED BY <1>1, <2>1, <2>2 DEF Replay
<1>2. CASE RefuseRecord
  BY <1>2 DEF RefuseRecord, IInv, TypeOK, Verdicts
<1>3. CASE EndOfStream
  <2>1. UNCHANGED reducers /\ verdict' \in Verdicts
    BY <1>3 DEF EndOfStream, Verdicts
  <2>2. verdict' = "complete" =>
          \A t \in Tasks : reducers[t].state \in Settled \cup {"Absent"}
    BY <1>3 DEF EndOfStream
  <2> QED BY <2>1, <2>2 DEF IInv, TypeOK
<1>4. CASE UNCHANGED vars
  BY <1>4 DEF vars, IInv, TypeOK
<1> QED BY <1>1, <1>2, <1>3, <1>4, NextIsReplay

LEMMA ReplayInvariant == Spec => []IInv
BY Initially, Inductive, PTL DEF Spec

(***************************************************************************)
(* The theorems.                                                           *)
(***************************************************************************)

\* The snapshots of a replay are always well formed: every duration that
\* apply_payload() derives is a natural number of milliseconds.
THEOREM TypeCorrect == Spec => []TypeOK
<1>1. IInv => TypeOK
  BY DEF IInv
<1> QED BY <1>1, ReplayInvariant, PTL

\* No stream brings a task to a state whose accounting is wrong.
THEOREM AccountingCorrect == Spec => []TasksAccounted
<1>1. IInv => TasksAccounted
  BY DEF IInv, TasksAccounted
<1> QED BY <1>1, ReplayInvariant, PTL

\* duration() never fails for want of a start on an event the transition
\* table allows: the comment above it is right.
THEOREM StartsProved == Spec => []TableProvesStarts
<1>1. IInv => TableProvesStarts
  <2> SUFFICES ASSUME IInv, NEW t \in Tasks, NEW e \in TimedEvents,
                      reducers[t].state # "Absent",
                      Legal(reducers[t], e), Monotone(reducers[t], e),
                      NEW p \in Closes(reducers[t], e.kind)
               PROVE  LET start == reducers[t].at[StartOf(p)]
                      IN IF start = NoTime THEN MayLackStart(e.kind, p)
                         ELSE start <= e.at
    BY DEF TableProvesStarts, IntervalsClose
  <2> DEFINE s == reducers[t]
             start == s.at[StartOf(p)]
  <2>1. s \in Snapshot /\ StartsExist(s) /\ e \in Events
    BY DEF IInv, TypeOK, Events
  <2>2. p \in Durations /\ Timed(e)
    BY <2>1, EventFields DEF Closes, Durations, Timed
  <2>3. start \in Time /\ StartOf(p) \in TimingPoints
    BY <2>1, <2>2, TimePoints
  <2>4. ASSUME start # NoTime PROVE start <= e.at
    <3>1. start <= s.last_event_at /\ s.last_event_at \in Time
      BY <2>1, <2>3 DEF StartsExist, Snapshot
    <3>2. start \in Int /\ s.last_event_at \in Int /\ e.at \in Nat /\ start > NoTime
      BY <2>1, <2>2, <2>3, <2>4, <3>1, InstantOrNone, EventFields
    <3>3. s.last_event_at # NoTime
      BY <3>1, <3>2 DEF NoTime
    <3>4. e.at >= s.last_event_at
      BY <2>2, <3>3 DEF Monotone
    <3> QED BY <3>1, <3>2, <3>4
  <2>5. ASSUME start = NoTime PROVE MayLackStart(e.kind, p)
    <3>1. s.state \in From(e.kind)
      BY DEF Legal
    <3> QED BY <2>1, <2>5, <3>1
        DEF StartsExist, From, Closes, StartOf, MayLackStart, PreRun, Unadmitted
  <2> QED BY <2>4, <2>5
<1> QED BY <1>1, ReplayInvariant, PTL

\* A stream that replays to the end leaves no resource unaccounted for.
THEOREM ClosedWhenAccepted == Spec => []AcceptedStreamIsClosed
<1>1. IInv => AcceptedStreamIsClosed
  <2> SUFFICES ASSUME IInv, verdict = "complete", NEW t \in Tasks,
                      reducers[t].state # "Absent"
               PROVE  LET s == reducers[t]
                      IN \/ s.non_execution # "none" /\ s.reservations = << >>
                         \/ /\ s.execution # "none" /\ s.receipt # "none"
                            /\ s.resources_released
                            /\ ValidReservations(s.reservations)
    BY DEF AcceptedStreamIsClosed
  <2>1. reducers[t].state \in Settled /\ Accounted(reducers[t]) /\ Reserved(reducers[t])
    BY DEF IInv
  <2> QED BY <2>1 DEF Settled, Accounted, Reserved, Settling, Terminal, NonExecution
<1> QED BY <1>1, ReplayInvariant, PTL

\* What an accepted event may do to the resource account of one snapshot.
LEMMA AccountStep ==
  ASSUME NEW s \in Snapshot, NEW e \in Events, Accounted(s), Accepts(s, e)
  PROVE  LET n == Reduce(s, e)
             a == accountOf(s)
             b == accountOf(n)
         IN \/ a = b /\ n.execution = s.execution
            \/ /\ <<a, b>> \in {<<"unknown", "offered">>, <<"offered", "declined">>,
                                <<"offered", "holding">>, <<"attested", "released">>}
               /\ n.execution = s.execution
            \/ /\ a = "holding" /\ b = "attested" /\ s.execution # "none"
               /\ n.execution = s.execution
            \/ /\ a = "holding" /\ b = "holding" /\ s.execution = "none"
               /\ n.execution \in Terminal
<1> DEFINE n == Reduce(s, e)
<1>1. CASE e.kind = "Proposed"
  <2>1. s.state = "Absent" /\ s.execution = "none" /\ n = Proposal
    BY <1>1 DEF Accepts, Reduce, Accounted
  <2>2. accountOf(s) = "unknown"
    BY <2>1 DEF accountOf, Unadmitted, Executing, PreRun
  <2>3. accountOf(Proposal) = "offered" /\ Proposal.execution = "none"
    BY DEF accountOf, Proposal, NoSnapshot, Unadmitted, Executing, PreRun
  <2> QED BY <2>1, <2>2, <2>3
<1>2. CASE e.kind # "Proposed"
  <2>1. Legal(s, e) /\ n.state = To(s, e.kind) /\ n.execution = ExecutionAfter(s, e)
    BY <1>2 DEF Accepts, Reduce, Reduced
  <2>2. e.kind \in {"ProcessFinished", "PreRunTerminated"} => e.disposition \in Terminal
    BY EventFields
  <2>3. s.state \in TaskState
    BY <1>2 DEF Accepts, Snapshot
  <2> HIDE DEF n
  <2> USE <2>1, <2>2 DEF Legal, From, To, ExecutionAfter, accountOf, Unadmitted,
      PreRun, Executing, Settling, Accounted, Terminal
  <2>4. ASSUME e.kind = "ConsumerAttached"
        PROVE  accountOf(n) = accountOf(s) /\ n.execution = s.execution
    BY <2>4
  <2>5. ASSUME e.kind \in {"Selected", "Queued", "EnteredResourceWait", "SetupStarted",
                           "RunStarted", "CleanupFinished"}
        PROVE  accountOf(n) = accountOf(s) /\ n.execution = s.execution
    BY <2>5, ZenonT(60)
  <2>6. ASSUME e.kind = "TerminallyDeclined"
        PROVE  /\ accountOf(s) = "offered" /\ accountOf(n) = "declined"
               /\ n.execution = s.execution
    BY <2>6
  <2>7. ASSUME e.kind = "Admitted"
        PROVE  /\ accountOf(s) = "offered" /\ accountOf(n) = "holding"
               /\ n.execution = s.execution
    BY <2>7
  <2>8. ASSUME e.kind = "ResourcesReleased"
        PROVE  /\ accountOf(s) = "attested" /\ accountOf(n) = "released"
               /\ n.execution = s.execution
    BY <2>8
  <2>9. ASSUME e.kind \in {"ReceiptCreated", "ReceiptCreationFailed"}
        PROVE  /\ accountOf(s) = "holding" /\ accountOf(n) = "attested"
               /\ s.execution # "none" /\ n.execution = s.execution
    BY <2>9
  <2>10. ASSUME e.kind \in {"ProcessFinished", "SetupFailed", "PreRunTerminated"}
         PROVE  /\ accountOf(s) = "holding" /\ accountOf(n) = "holding"
                /\ s.execution = "none" /\ n.execution \in Terminal
    BY <2>10
  <2>11. \/ e.kind = "ConsumerAttached"
         \/ e.kind \in {"Selected", "Queued", "EnteredResourceWait", "SetupStarted",
                        "RunStarted", "CleanupFinished"}
         \/ e.kind \in {"TerminallyDeclined", "Admitted", "ResourcesReleased"}
         \/ e.kind \in {"ReceiptCreated", "ReceiptCreationFailed"}
         \/ e.kind \in {"ProcessFinished", "SetupFailed", "PreRunTerminated"}
    BY <1>2, EventFields
  <2> QED BY <2>4, <2>5, <2>6, <2>7, <2>8, <2>9, <2>10, <2>11 DEF n
<1> QED BY <1>1, <1>2

\* The ledger implements the resource account: whatever the stream, a task's
\* resources are acquired at most once, only after an offer, and released only
\* after an outcome and a receipt attempt.
THEOREM LedgerImplementsAccount == Spec => ImplementsAccount
<1>1. Init => Account!Init
  <2>1. accountOf(NoSnapshot) = "unknown" /\ NoSnapshot.execution = "none"
    BY DEF accountOf, NoSnapshot, Unadmitted, Executing, PreRun
  <2> QED BY <2>1 DEF Init, Account!Init
<1>2. IInv /\ [Next]_vars => [Account!Next]_(Account!vars)
  <2> SUFFICES ASSUME IInv, [Next]_vars PROVE [Account!Next]_(Account!vars)
    OBVIOUS
  <2>1. ASSUME UNCHANGED reducers PROVE UNCHANGED Account!vars
    BY <2>1 DEF Account!vars
  <2>2. ASSUME NEW t \in Tasks, NEW e \in Events, Accepts(reducers[t], e),
               reducers' = [reducers EXCEPT ![t] = Reduce(reducers[t], e)]
        PROVE  [Account!Next]_(Account!vars)
    <3> DEFINE s == reducers[t]
               n == Reduce(s, e)
               acc == [u \in Tasks |-> accountOf(reducers[u])]
               out == [u \in Tasks |-> reducers[u].execution]
               accn == [u \in Tasks |-> accountOf(reducers'[u])]
               outn == [u \in Tasks |-> reducers'[u].execution]
    <3>1. s \in Snapshot /\ Accounted(s)
      BY DEF IInv, TypeOK
    <3>2. /\ acc[t] = accountOf(s) /\ out[t] = s.execution
          /\ accn = [acc EXCEPT ![t] = accountOf(n)]
          /\ outn = [out EXCEPT ![t] = n.execution]
      BY <2>2 DEF IInv, TypeOK
    <3>3. (n.execution = s.execution => outn = out)
          /\ (accountOf(n) = accountOf(s) => accn = acc)
      BY <3>2
    <3> HIDE DEF n, s, acc, out, accn, outn
    <3>4. CASE accountOf(s) = accountOf(n) /\ n.execution = s.execution
      <4>1. accn = acc /\ outn = out
        BY <3>3, <3>4
      <4> QED BY <4>1 DEF Account!vars, acc, accn, out, outn
    <3>5. CASE /\ <<accountOf(s), accountOf(n)>> \in
                    {<<"unknown", "offered">>, <<"offered", "declined">>,
                     <<"offered", "holding">>, <<"attested", "released">>}
               /\ n.execution = s.execution
      <4>1. outn = out /\ acc[t] = accountOf(s) /\ accn = [acc EXCEPT ![t] = accountOf(n)]
        BY <3>2, <3>3, <3>5
      <4>2. \/ accountOf(s) = "unknown" /\ accountOf(n) = "offered"
            \/ accountOf(s) = "offered" /\ accountOf(n) = "declined"
            \/ accountOf(s) = "offered" /\ accountOf(n) = "holding"
            \/ accountOf(s) = "attested" /\ accountOf(n) = "released"
        BY <3>5
      <4>3. Account!Offer(t) \/ Account!Decline(t) \/ Account!Acquire(t)
              \/ Account!Release(t)
        BY <4>1, <4>2 DEF Account!Offer, Account!Decline, Account!Acquire,
           Account!Release, Account!Move, acc, accn, out, outn
      <4> QED BY <4>3 DEF Account!Next
    <3>6. CASE /\ accountOf(s) = "holding" /\ accountOf(n) = "attested"
               /\ s.execution # "none" /\ n.execution = s.execution
      <4>1. /\ outn = out /\ acc[t] = "holding" /\ accn = [acc EXCEPT ![t] = "attested"]
            /\ out[t] # "none"
        BY <3>2, <3>3, <3>6
      <4>2. Account!Attest(t)
        BY <4>1 DEF Account!Attest, Account!Move, acc, accn, out, outn
      <4> QED BY <4>2 DEF Account!Next
    <3>7. CASE /\ accountOf(s) = "holding" /\ accountOf(n) = "holding"
               /\ s.execution = "none" /\ n.execution \in Terminal
      <4>1. /\ accn = acc /\ acc[t] = "holding" /\ out[t] = "none"
            /\ outn = [out EXCEPT ![t] = n.execution]
        BY <3>2, <3>3, <3>7
      <4>2. PICK o \in Terminal : o = n.execution
        BY <3>7
      <4>3. Account!Conclude(t, o)
        BY <4>1, <4>2 DEF Account!Conclude, acc, accn, out, outn
      <4> QED BY <4>3 DEF Account!Next
    <3>8. \/ accountOf(s) = accountOf(n) /\ n.execution = s.execution
          \/ /\ <<accountOf(s), accountOf(n)>> \in
                  {<<"unknown", "offered">>, <<"offered", "declined">>,
                   <<"offered", "holding">>, <<"attested", "released">>}
             /\ n.execution = s.execution
          \/ /\ accountOf(s) = "holding" /\ accountOf(n) = "attested"
             /\ s.execution # "none" /\ n.execution = s.execution
          \/ /\ accountOf(s) = "holding" /\ accountOf(n) = "holding"
             /\ s.execution = "none" /\ n.execution \in Terminal
      BY <2>2, <3>1, AccountStep DEF s, n
    <3> QED BY <3>4, <3>5, <3>6, <3>7, <3>8
  <2>3. ASSUME NEW t \in Tasks, NEW e \in Events, Replay(t, e)
        PROVE  [Account!Next]_(Account!vars)
    BY <2>1, <2>2, <2>3 DEF Replay
  <2>4. CASE RefuseRecord \/ EndOfStream \/ UNCHANGED vars
    BY <2>1, <2>4 DEF RefuseRecord, EndOfStream, vars
  <2> QED BY <2>3, <2>4, NextIsReplay
<1> QED BY <1>1, <1>2, ReplayInvariant, PTL DEF Spec, ImplementsAccount, Account!Spec

--------------------------------------------------------------------------------
(***************************************************************************)
(* The facts and the timing of one snapshot: a fact is never rewritten,    *)
(* and the recorded durations partition the life of the task.  Both need,  *)
(* on top of the invariant above, that a point is stamped only once.       *)
(***************************************************************************)
\* The states in which a timing point is still to come.
Before(p) ==
  CASE p = "queued_at"                -> {"Absent", "Proposed", "Selected"}
    [] p = "resource_wait_started_at" -> {"Absent", "Proposed", "Selected", "Queued"}
    [] p = "admitted_at"              -> {"Absent"} \cup Unadmitted
    [] p = "setup_started_at"         -> {"Absent", "Admitted"} \cup Unadmitted
    [] p = "process_started_at"       -> {"Absent", "Admitted", "Setup"} \cup Unadmitted
    [] p = "process_finished_at"      -> {"Absent"} \cup Executing \cup Unadmitted
    [] p = "cleanup_finished_at"      -> {"Absent", "Cleanup"} \cup Executing \cup Unadmitted
    [] p = "receipt_recorded_at"      ->
         {"Absent", "Cleanup", "ReceiptPending"} \cup Executing \cup Unadmitted
    [] p = "resources_released_at"    ->
         {"Absent", "Cleanup", "ReceiptPending", "ReleasePending"} \cup Executing \cup Unadmitted

\* A point that is still to come is not recorded.
Fresh(s) == \A p \in TimingPoints : s.state \in Before(p) => s.at[p] = NoTime

\* What is known of the durations in each state.
Waited(s) == Spent(s, "queue_ms") + Spent(s, "resource_wait_ms")

Measured(s) ==
  /\ s.state \in {"Absent", "Proposed", "Selected", "Queued"} => Spent(s, "queue_ms") = 0
  /\ s.state = "ResourceWait" =>
       Spent(s, "queue_ms") = s.at["resource_wait_started_at"] - s.at["queued_at"]
  /\ s.state \in {"Absent"} \cup Unadmitted => Spent(s, "resource_wait_ms") = 0
  /\ s.state \in Executing \cup {"Cleanup"} =>
       Waited(s) = s.at["admitted_at"] - s.at["queued_at"]
  /\ s.state \in {"Running", "Cleanup"} =>
       Spent(s, "setup_ms") = s.at["process_started_at"] - s.at["setup_started_at"]
  /\ s.state = "Cleanup" =>
       Spent(s, "process_ms") = s.at["process_finished_at"] - s.at["process_started_at"]

Partitioned(s) ==
  s.at["cleanup_finished_at"] # NoTime =>
    Waited(s) + (s.at["setup_started_at"] - s.at["admitted_at"])
      + Spent(s, "setup_ms") + Spent(s, "process_ms") + Spent(s, "cleanup_ms")
    = s.at["cleanup_finished_at"] - s.at["queued_at"]

--------------------------------------------------------------------------------
\* An event stamps a point only in a state before it, and never leads back.
LEMMA StampsOnce ==
  ASSUME NEW s \in Snapshot, NEW e \in Events, e.kind # "Proposed", Legal(s, e),
         NEW p \in TimingPoints
  PROVE  /\ p \in Stamps(e.kind) => s.state \in Before(p)
         /\ To(s, e.kind) \in Before(p) => s.state \in Before(p) /\ p \notin Stamps(e.kind)
<1>1. s.state \in From(e.kind)
  BY DEF Legal
<1> USE DEF From, To, Stamps, Before, TimingPoints, Unadmitted, Executing, PreRun, TaskState,
        Settling
<1>2. CASE p \in {"queued_at", "resource_wait_started_at", "admitted_at"}
  BY <1>1, <1>2, EventFields
<1>3. CASE p \in {"setup_started_at", "process_started_at", "process_finished_at"}
  BY <1>1, <1>3, EventFields
<1>4. CASE p \in {"cleanup_finished_at", "receipt_recorded_at", "resources_released_at"}
  BY <1>1, <1>4, EventFields
<1> QED BY <1>2, <1>3, <1>4

LEMMA ReduceFresh ==
  ASSUME NEW s \in Snapshot, NEW e \in Events, e.kind # "Proposed", Fresh(s), Accepts(s, e)
  PROVE  Fresh(Reduced(s, e))
<1>1. Legal(s, e)
  BY DEF Accepts
<1> QED BY <1>1, StampsOnce DEF Fresh, Reduced

\* A recorded point stays as it is.
LEMMA PointsStay ==
  ASSUME NEW s \in Snapshot, NEW e \in Events, e.kind # "Proposed", Fresh(s), Accepts(s, e),
         NEW p \in TimingPoints, s.at[p] # NoTime
  PROVE  Reduced(s, e).at[p] = s.at[p]
<1>1. p \notin Stamps(e.kind)
  BY StampsOnce DEF Accepts, Fresh
<1> QED BY <1>1 DEF Reduced

--------------------------------------------------------------------------------
\* Every point and every duration is an integer.
LEMMA TimingIntegers ==
  ASSUME NEW s \in Snapshot
  PROVE  /\ \A p \in TimingPoints : s.at[p] \in Int
         /\ \A p \in Durations : s.ms[p] \in Int /\ Spent(s, p) \in Int
<1>1. s.at \in [TimingPoints -> Time] /\ s.ms \in [Durations -> Nat \cup {NoTime}]
  BY DEF Snapshot
<1>2. NoTime \in Int
  BY DEF NoTime
<1> QED BY <1>1, <1>2, InstantOrNone DEF Spent

\* What an accepted event makes of one duration: measured from its start, not
\* measured for want of one, or left alone.
LEMMA SpentAfter ==
  ASSUME NEW s \in Snapshot, NEW e \in Events, e.kind # "Proposed", Accepts(s, e),
         NEW p \in Durations
  PROVE  LET start == s.at[StartOf(p)]
             n     == Reduced(s, e)
         IN /\ p \in Closes(s, e.kind) /\ start # NoTime =>
                 Spent(n, p) = e.at - start
            /\ p \in Closes(s, e.kind) /\ start = NoTime => Spent(n, p) = 0
            /\ p \notin Closes(s, e.kind) => Spent(n, p) = Spent(s, p)
<1> DEFINE start == s.at[StartOf(p)]
           n     == Reduced(s, e)
<1>1. n.ms[p] = IF p \in Closes(s, e.kind) THEN Elapsed(start, e.at) ELSE s.ms[p]
  BY DEF Reduced
<1>2. start \in Time
  BY TimePoints
<1>3. ASSUME p \in Closes(s, e.kind), start # NoTime
      PROVE  Elapsed(start, e.at) = e.at - start /\ e.at - start # NoTime
  <2>1. start <= e.at
    BY <1>3 DEF Accepts, IntervalsClose
  <2>2. e.at \in Nat
    BY <1>3, EventFields DEF Closes, Timed
  <2>3. start \in Int
    BY <1>2, InstantOrNone
  <2> HIDE DEF start
  <2> QED BY <1>3, <2>1, <2>2, <2>3 DEF Elapsed, NoTime
<1> HIDE DEF n, start
<1>4. p \in Closes(s, e.kind) /\ start # NoTime => Spent(n, p) = e.at - start
  BY <1>1, <1>3 DEF Spent
<1>5. p \in Closes(s, e.kind) /\ start = NoTime => Spent(n, p) = 0
  BY <1>1 DEF Spent, Elapsed
<1>6. p \notin Closes(s, e.kind) => Spent(n, p) = Spent(s, p)
  BY <1>1 DEF Spent
<1> QED BY <1>4, <1>5, <1>6 DEF n, start

\* An accepted event keeps what is known of the durations.
LEMMA ReduceMeasured ==
  ASSUME NEW s \in Snapshot, NEW e \in Events, e.kind # "Proposed",
         Fresh(s), StartsExist(s), Measured(s), Accepts(s, e)
  PROVE  Measured(Reduced(s, e))
<1> DEFINE n == Reduced(s, e)
<1>1. /\ s.state \in From(e.kind) /\ n.state = To(s, e.kind)
      /\ \A p \in TimingPoints : n.at[p] = IF p \in Stamps(e.kind) THEN e.at ELSE s.at[p]
  BY DEF Accepts, Legal, Reduced
<1>2. /\ \A p \in TimingPoints : s.at[p] \in Int
      /\ \A p \in Durations : Spent(s, p) \in Int
      /\ Timed(e) => e.at \in Nat
  BY TimingIntegers, EventFields
<1>3. \A p \in Durations :
        /\ p \in Closes(s, e.kind) /\ s.at[StartOf(p)] # NoTime =>
             Spent(n, p) = e.at - s.at[StartOf(p)]
        /\ p \in Closes(s, e.kind) /\ s.at[StartOf(p)] = NoTime => Spent(n, p) = 0
        /\ p \notin Closes(s, e.kind) => Spent(n, p) = Spent(s, p)
  BY SpentAfter
<1>4. {"queued_at", "resource_wait_started_at", "admitted_at", "setup_started_at",
       "process_started_at", "process_finished_at"} \subseteq TimingPoints
      /\ {"queue_ms", "resource_wait_ms", "setup_ms", "process_ms"} \subseteq Durations
  BY DEF TimingPoints, Durations
<1> SUFFICES Measured(n)
  OBVIOUS
<1> HIDE DEF n
<1> USE <1>1, <1>2, <1>3, <1>4
    DEF Measured, Waited, From, To, Closes, Stamps, StartOf, Unadmitted, Executing, PreRun
<1>5. CASE e.kind = "ConsumerAttached"
  BY <1>5
<1>6. CASE e.kind \in {"Selected", "Queued"}
  BY <1>6
<1>7. CASE e.kind = "EnteredResourceWait"
  BY <1>7 DEF StartsExist, Timed
<1>8. CASE e.kind = "Admitted"
  <2>1. CASE s.state = "Queued"
    <3>1. s.at["resource_wait_started_at"] = NoTime /\ s.at["queued_at"] # NoTime
      BY <2>1 DEF Fresh, Before, StartsExist
    <3>2. Spent(n, "queue_ms") = e.at - s.at["queued_at"] /\ Spent(n, "resource_wait_ms") = 0
      BY <1>8, <2>1, <3>1
    <3>3. Waited(n) = n.at["admitted_at"] - n.at["queued_at"]
      BY <1>8, <3>2 DEF Timed
    <3> QED BY <1>8, <3>3
  <2>2. CASE s.state = "ResourceWait"
    <3>1. s.at["resource_wait_started_at"] # NoTime
      BY <2>2 DEF StartsExist
    <3>2. /\ Spent(n, "queue_ms") = s.at["resource_wait_started_at"] - s.at["queued_at"]
          /\ Spent(n, "resource_wait_ms") = e.at - s.at["resource_wait_started_at"]
      BY <1>8, <2>2, <3>1
    <3>3. Waited(n) = n.at["admitted_at"] - n.at["queued_at"]
      BY <1>8, <3>2 DEF Timed
    <3> QED BY <1>8, <3>3
  <2> QED BY <1>8, <2>1, <2>2
<1>9. CASE e.kind = "SetupStarted"
  BY <1>9
<1>10. CASE e.kind = "RunStarted"
  BY <1>10 DEF StartsExist, Timed
<1>11. CASE e.kind = "ProcessFinished"
  BY <1>11 DEF StartsExist, Timed
<1>12. CASE e.kind \in {"SetupFailed", "PreRunTerminated", "CleanupFinished", "ReceiptCreated",
                        "ReceiptCreationFailed", "ResourcesReleased", "TerminallyDeclined"}
  BY <1>12
<1> QED
  BY <1>5, <1>6, <1>7, <1>8, <1>9, <1>10, <1>11, <1>12, EventFields DEF n

\* Once the end of cleanup is recorded the partition is complete, and nothing
\* that follows measures or stamps what it is made of.
LEMMA ReducePartitioned ==
  ASSUME NEW s \in Snapshot, NEW e \in Events, e.kind # "Proposed",
         Fresh(s), StartsExist(s), Measured(s), Partitioned(s), Accepts(s, e)
  PROVE  Partitioned(Reduced(s, e))
<1> DEFINE n == Reduced(s, e)
<1>1. /\ s.state \in From(e.kind)
      /\ \A p \in TimingPoints : n.at[p] = IF p \in Stamps(e.kind) THEN e.at ELSE s.at[p]
  BY DEF Accepts, Legal, Reduced
<1>2. /\ \A p \in TimingPoints : s.at[p] \in Int
      /\ \A p \in Durations : Spent(s, p) \in Int
      /\ Timed(e) => e.at \in Nat
  BY TimingIntegers, EventFields
<1>3. \A p \in Durations :
        /\ p \in Closes(s, e.kind) /\ s.at[StartOf(p)] # NoTime =>
             Spent(n, p) = e.at - s.at[StartOf(p)]
        /\ p \notin Closes(s, e.kind) => Spent(n, p) = Spent(s, p)
  BY SpentAfter
<1>4. {"queued_at", "admitted_at", "setup_started_at", "process_started_at",
       "process_finished_at", "cleanup_finished_at"} \subseteq TimingPoints
      /\ {"queue_ms", "resource_wait_ms", "setup_ms", "process_ms", "cleanup_ms"}
           \subseteq Durations
  BY DEF TimingPoints, Durations
<1> HIDE DEF n
<1>5. ASSUME e.kind = "CleanupFinished" PROVE Partitioned(n)
  <2>1. s.state = "Cleanup" /\ s.at["process_finished_at"] # NoTime
    BY <1>1, <1>5 DEF From, StartsExist
  <2>2. /\ Spent(n, "cleanup_ms") = e.at - s.at["process_finished_at"]
        /\ Waited(n) = s.at["admitted_at"] - s.at["queued_at"]
        /\ Spent(n, "setup_ms") = s.at["process_started_at"] - s.at["setup_started_at"]
        /\ Spent(n, "process_ms") = s.at["process_finished_at"] - s.at["process_started_at"]
    BY <1>3, <1>4, <1>5, <2>1 DEF Closes, StartOf, Measured, Waited
  <2>3. /\ n.at["cleanup_finished_at"] = e.at /\ e.at \in Nat
        /\ n.at["queued_at"] = s.at["queued_at"] /\ n.at["admitted_at"] = s.at["admitted_at"]
        /\ n.at["setup_started_at"] = s.at["setup_started_at"]
    BY <1>1, <1>2, <1>4, <1>5 DEF Stamps, Timed
  <2> QED BY <1>2, <1>4, <2>2, <2>3 DEF Partitioned
<1>6. ASSUME e.kind # "CleanupFinished" PROVE Partitioned(n)
  <2>1. SUFFICES ASSUME n.at["cleanup_finished_at"] # NoTime PROVE Partitioned(n)
    BY DEF Partitioned
  <2>2. "cleanup_finished_at" \notin Stamps(e.kind)
    BY <1>6 DEF Stamps
  <2>3. s.at["cleanup_finished_at"] # NoTime
    BY <1>1, <1>4, <2>1, <2>2
  <2>4. s.state \notin Before("cleanup_finished_at")
    BY <1>4, <2>3 DEF Fresh
  <2>5. e.kind \in {"ConsumerAttached", "ReceiptCreated", "ReceiptCreationFailed",
                    "ResourcesReleased"}
    BY <1>1, <1>6, <2>4, EventFields DEF From, Before, Unadmitted, Executing, PreRun
  <2>6. Closes(s, e.kind) = {}
    BY <2>5 DEF Closes
  <2>7. /\ n.at["queued_at"] = s.at["queued_at"] /\ n.at["admitted_at"] = s.at["admitted_at"]
        /\ n.at["setup_started_at"] = s.at["setup_started_at"]
        /\ n.at["cleanup_finished_at"] = s.at["cleanup_finished_at"]
    BY <1>1, <1>4, <2>5 DEF Stamps
  <2>8. \A p \in Durations : Spent(n, p) = Spent(s, p)
    BY <1>3, <2>6
  <2>9. Waited(n) = Waited(s)
    BY <1>4, <2>8 DEF Waited
  <2> QED BY <1>4, <2>3, <2>7, <2>8, <2>9 DEF Partitioned
<1> QED BY <1>5, <1>6 DEF n

--------------------------------------------------------------------------------
\* Before a task is proposed nobody is interested in it.
Unattached(s) == s.state = "Absent" => \A c \in Consumers : s.consumers[c] = "none"

\* The invariant of the timing, beside that of the accounting.
TimingOK(s) == Fresh(s) /\ Measured(s) /\ Partitioned(s) /\ Unattached(s)

TimingInv == \A t \in Tasks : TimingOK(reducers[t])

LEMMA FreshTiming == TimingOK(NoSnapshot) /\ TimingOK(Proposal)
<1>1. \A p \in TimingPoints : NoSnapshot.at[p] = NoTime /\ Proposal.at[p] = NoTime
  BY DEF Proposal, NoSnapshot
<1>2. \A p \in Durations : Spent(NoSnapshot, p) = 0 /\ Spent(Proposal, p) = 0
  BY DEF Spent, Proposal, NoSnapshot
<1>3. NoSnapshot.state = "Absent" /\ Proposal.state = "Proposed"
  BY DEF Proposal, NoSnapshot
<1>4. {"queue_ms", "resource_wait_ms"} \subseteq Durations
      /\ "cleanup_finished_at" \in TimingPoints
  BY DEF Durations, TimingPoints
<1> QED
  BY <1>1, <1>2, <1>3, <1>4
  DEF TimingOK, Fresh, Measured, Partitioned, Unattached, NoSnapshot, Executing, PreRun,
      Unadmitted

LEMMA ReduceTiming ==
  ASSUME NEW s \in Snapshot, NEW e \in Events, StartsExist(s), TimingOK(s), Accepts(s, e)
  PROVE  TimingOK(Reduce(s, e))
<1>1. CASE e.kind = "Proposed"
  BY <1>1, FreshTiming DEF Reduce
<1>2. CASE e.kind # "Proposed"
  <2>1. Reduced(s, e).state # "Absent"
    BY <1>2, EventFields DEF Accepts, Legal, Reduced, From, To, TaskState, Unadmitted, PreRun,
       Settling
  <2> QED
    BY <1>2, <2>1, ReduceFresh, ReduceMeasured, ReducePartitioned DEF Reduce, TimingOK, Unattached
<1> QED BY <1>1, <1>2

\* A step either leaves the snapshots alone or folds one event into one.
LEMMA StepOfOne ==
  ASSUME IInv, [Next]_vars, reducers' # reducers
  PROVE  \E t \in Tasks, e \in Events :
           /\ Accepts(reducers[t], e)
           /\ reducers' = [reducers EXCEPT ![t] = Reduce(reducers[t], e)]
<1>1. CASE Next
  BY <1>1, NextIsReplay DEF Replay, RefuseRecord, EndOfStream
<1> QED BY <1>1 DEF vars

LEMMA TimingInductive ==
  ASSUME IInv, TimingInv, [Next]_vars
  PROVE  TimingInv'
<1>1. CASE reducers' = reducers
  BY <1>1 DEF TimingInv
<1>2. CASE reducers' # reducers
  <2>1. PICK t \in Tasks, e \in Events :
          /\ Accepts(reducers[t], e)
          /\ reducers' = [reducers EXCEPT ![t] = Reduce(reducers[t], e)]
    BY <1>2, StepOfOne
  <2>2. TimingOK(Reduce(reducers[t], e))
    BY <2>1, ReduceTiming DEF IInv, TypeOK, TimingInv
  <2>3. \A u \in Tasks : reducers'[u] = IF u = t THEN Reduce(reducers[t], e) ELSE reducers[u]
    BY <2>1 DEF IInv, TypeOK
  <2> QED BY <2>2, <2>3 DEF TimingInv
<1> QED BY <1>1, <1>2

LEMMA TimingInvariant == Spec => [](IInv /\ TimingInv)
<1>1. Init => TimingInv
  BY FreshTiming DEF Init, TimingInv
<1> QED BY <1>1, Initially, Inductive, TimingInductive, PTL DEF Spec

\* The recorded intervals of a task that ran to cleanup partition its time from
\* queueing to the end of cleanup, whatever the stream.
THEOREM LifetimePartitioned == Spec => []DurationsPartitionLifetime
<1>1. TimingInv => DurationsPartitionLifetime
  BY DEF TimingInv, TimingOK, Partitioned, Waited, DurationsPartitionLifetime
<1> QED BY <1>1, TimingInvariant, PTL

--------------------------------------------------------------------------------
\* What an accepted event leaves as it finds it.
Kept(s, n) ==
  /\ s.execution # "none" => n.execution = s.execution
  /\ s.receipt # "none" => n.receipt = s.receipt
  /\ s.resources_released => n.resources_released
  /\ s.state \in Settled => n.state = s.state /\ n.d = s.d
  /\ \A p \in TimingPoints : s.at[p] # NoTime => n.at[p] = s.at[p]
  /\ \A c \in Consumers : s.consumers[c] # "none" => n.consumers[c] = s.consumers[c]

LEMMA ReduceKeeps ==
  ASSUME NEW s \in Snapshot, NEW e \in Events, Accounted(s), TimingOK(s), Accepts(s, e)
  PROVE  Kept(s, Reduce(s, e))
<1>1. CASE e.kind = "Proposed"
  BY <1>1 DEF Accepts, Accounted, Kept, TimingOK, Fresh, Unattached, Before, Settled,
     TimingPoints, Unadmitted
<1>2. CASE e.kind # "Proposed"
  <2> DEFINE n == Reduced(s, e)
  <2>1. /\ s.state \in From(e.kind) /\ PayloadValid(s, e)
        /\ n.state = To(s, e.kind) /\ n.d = Carried(s, e)
        /\ n.execution = ExecutionAfter(s, e) /\ n.receipt = ReceiptAfter(s, e)
        /\ s.resources_released => n.resources_released
    BY <1>2 DEF Accepts, Legal, Reduced
  <2>2. \A p \in TimingPoints : s.at[p] # NoTime => n.at[p] = s.at[p]
    BY <1>2, PointsStay DEF TimingOK
  <2>3. \A c \in Consumers : s.consumers[c] # "none" => n.consumers[c] = s.consumers[c]
    <3>1. s.consumers \in [Consumers -> Metas \cup {"none"}]
      BY DEF Snapshot
    <3>2. n.consumers = IF e.kind = "ConsumerAttached"
                        THEN [s.consumers EXCEPT ![e.consumer] = e.meta] ELSE s.consumers
      BY DEF Reduced
    <3> QED BY <2>1, <3>1, <3>2, EventFields DEF PayloadValid
  <2> HIDE DEF n
  <2>4. /\ s.execution # "none" => n.execution = s.execution
        /\ s.receipt # "none" => n.receipt = s.receipt
    BY <2>1 DEF From, ExecutionAfter, ReceiptAfter, Accounted, Executing, PreRun, Settling,
       Unadmitted
  <2>5. s.state \in Settled => n.state = s.state /\ n.d = s.d
    BY <1>2, <2>1, EventFields DEF From, To, Carried, Settled, PreRun, Unadmitted
  <2> QED BY <1>2, <2>1, <2>2, <2>3, <2>4, <2>5 DEF Kept, Reduce, n
<1> QED BY <1>1, <1>2

\* Whatever the stream, no step rewrites a recorded outcome, receipt, release,
\* instant or consumer, and a settled task stays settled.
THEOREM FactsStayFinal == Spec => FactsAreFinal
<1> DEFINE A == \A t \in Tasks : Kept(reducers[t], reducers'[t])
<1>1. IInv /\ TimingInv /\ [Next]_vars => [A]_vars
  <2> SUFFICES ASSUME IInv, TimingInv, [Next]_vars PROVE A
    OBVIOUS
  <2>1. CASE reducers' = reducers
    BY <2>1 DEF Kept
  <2>2. CASE reducers' # reducers
    <3>1. PICK t \in Tasks, e \in Events :
            /\ Accepts(reducers[t], e)
            /\ reducers' = [reducers EXCEPT ![t] = Reduce(reducers[t], e)]
      BY <2>2, StepOfOne
    <3>2. Kept(reducers[t], Reduce(reducers[t], e))
      BY <3>1, ReduceKeeps DEF IInv, TypeOK, TimingInv
    <3>3. \A u \in Tasks : reducers'[u] = IF u = t THEN Reduce(reducers[t], e) ELSE reducers[u]
      BY <3>1 DEF IInv, TypeOK
    <3> QED BY <3>2, <3>3 DEF Kept
  <2> QED BY <2>1, <2>2
<1>2. [A]_vars <=> [\A t \in Tasks :
         LET s == reducers[t]
             n == reducers'[t]
         IN /\ s.execution # "none" => n.execution = s.execution
            /\ s.receipt # "none" => n.receipt = s.receipt
            /\ s.resources_released => n.resources_released
            /\ s.state \in Settled => n.state = s.state /\ n.d = s.d
            /\ \A p \in TimingPoints : s.at[p] # NoTime => n.at[p] = s.at[p]
            /\ \A c \in Consumers :
                 s.consumers[c] # "none" => n.consumers[c] = s.consumers[c]]_vars
  BY DEF Kept
<1> HIDE DEF A
<1> QED BY <1>1, <1>2, TimingInvariant, PTL DEF Spec, FactsAreFinal

--------------------------------------------------------------------------------
(***************************************************************************)
(* The publication of the pair of files, for any number of runs.           *)
(***************************************************************************)
\* The pair has not been touched, or has been put back.
AsBefore == \A f \in Pair : file[f] = prior[f]

\* What each call finds, by the call that is next: the staging files hold this
\* run once written, and a replaced file holds this run.
StagedInv ==
  /\ pc \in {"clear", "stage_events", "stage_snapshot", "drop_events", "unstage", "failed"}
       => AsBefore
  /\ pc \in {"clear", "stage_events", "stage_snapshot"} => run # 0
  /\ pc \in {"stage_snapshot", "drop_events", "rename_events"} => file["events.tmp"] = run
  /\ pc \in {"drop_events", "rename_events", "drop_snapshot", "rename_snapshot"}
       => file["snapshot.tmp"] = run
  /\ pc \in {"drop_snapshot", "rename_snapshot"} => file["events"] = run

\* What a removal has not deleted is as it was; what it deleted was there.
RemovalInv ==
  /\ pc \in {"remove_events", "remove_snapshot", "put_back"} =>
       \A f \in Pair : f \notin gone => file[f] = prior[f]
  /\ pc = "remove_snapshot" => file["events"] = Missing

PairInv == PairTypeOK /\ StagedInv /\ RemovalInv /\ SuccessIsWhole /\ FailureRestores

\* The names of the files are four.
LEMMA PairNames ==
  /\ Pair = {"events", "snapshot"}
  /\ Stages = {"events.tmp", "snapshot.tmp"}
  /\ Stage["events"] = "events.tmp" /\ Stage["snapshot"] = "snapshot.tmp"
BY DEF Pair, Stages, Stage

LEMMA PairBegins == PairInit => PairInv
BY PairNames, RunConstants
   DEF PairInit, PairInv, PairTypeOK, StagedInv, RemovalInv, SuccessIsWhole, FailureRestores, Content, Ended,
       AsBefore

LEMMA PairStep ==
  ASSUME PairInv, [PairNext]_pairVars
  PROVE  PairInv'
<1> USE PairNames, RunConstants
<1> USE DEF PairInv, PairTypeOK, StagedInv, RemovalInv, SuccessIsWhole, FailureRestores, AsBefore,
            Content, Ended
<1>1. CASE BeginPublish
  BY <1>1 DEF BeginPublish
<1>2. CASE Clear
  BY <1>2, ZenonT(60) DEF Clear, At, Fails
<1>3. CASE StageEvents
  BY <1>3 DEF StageEvents, At, Put
<1>4. CASE StageSnapshot
  BY <1>4 DEF StageSnapshot, At, Put
<1>5. CASE Replace
  <2>1. CASE Drop("events", "drop_events", "rename_events")
    BY <2>1 DEF Drop, At, Put, Fails
  <2>2. CASE Rename("events", "rename_events", "drop_snapshot")
    <3>1. CASE Fails("rename_events", "restore_events")
      BY <3>1 DEF At, Fails
    <3>2. CASE At("rename_events", "drop_snapshot")
      <4>1. /\ file' = [file EXCEPT !["events"] = file["events.tmp"], !["events.tmp"] = Missing]
            /\ UNCHANGED <<prior, gone, run>>
        BY <2>2, <3>2 DEF Rename, At, Fails
      <4>2. /\ file'["events"] = run /\ file'["snapshot.tmp"] = run
            /\ file' \in [Pair \cup Stages -> Content]
        BY <3>2, <4>1 DEF At
      <4> QED BY <3>2, <4>1, <4>2 DEF At
    <3> QED BY <2>2, <3>1, <3>2 DEF Rename
  <2>3. CASE Drop("snapshot", "drop_snapshot", "rename_snapshot")
    BY <2>3 DEF Drop, At, Put, Fails
  <2>4. CASE Rename("snapshot", "rename_snapshot", "published")
    <3>1. CASE Fails("rename_snapshot", "restore_events")
      BY <3>1 DEF At, Fails
    <3>2. CASE At("rename_snapshot", "published")
      <4>1. /\ file' = [file EXCEPT !["snapshot"] = file["snapshot.tmp"], !["snapshot.tmp"] = Missing]
            /\ UNCHANGED <<prior, gone, run>>
        BY <2>4, <3>2 DEF Rename, At, Fails
      <4>2. /\ file'["events"] = run /\ file'["snapshot"] = run
            /\ file' \in [Pair \cup Stages -> Content]
        BY <3>2, <4>1 DEF At
      <4> QED BY <3>2, <4>1, <4>2 DEF At
    <3> QED BY <2>4, <3>1, <3>2 DEF Rename
  <2> QED BY <1>5, <2>1, <2>2, <2>3, <2>4 DEF Replace
<1>6. CASE Restore
  BY <1>6 DEF Restore, At
<1>7. ASSUME NEW to \in {"failed", "torn"}, NEW from \in {"unstage", "unstage_torn"},
             Unstage(from, to), to = "failed" => from = "unstage"
      PROVE  PairInv'
  BY <1>7 DEF Unstage, At
<1>8. CASE BeginRemove
  BY <1>8 DEF BeginRemove
<1>9. CASE RemoveEach
  <2>1. CASE Remove("events", "remove_events", "remove_snapshot")
    <3>1. CASE file["events"] = Missing
      BY <2>1, <3>1, ZenonT(60) DEF Remove, At, Put, Fails
    <3>2. CASE file["events"] # Missing
      BY <2>1, <3>2 DEF Remove, At, Put, Fails
    <3> QED BY <3>1, <3>2
  <2>2. CASE Remove("snapshot", "remove_snapshot", "removed")
    <3>1. CASE Fails("remove_snapshot", "put_back")
      BY <3>1 DEF At, Fails
    <3>2. CASE ~Fails("remove_snapshot", "put_back")
      BY <2>2, <3>2, ZenonT(60) DEF Remove, At, Put
    <3> QED BY <3>1, <3>2
  <2> QED BY <1>9, <2>1, <2>2 DEF RemoveEach
<1>10. CASE PutBack
  <2>1. CASE At("put_back", "failed")
    <3>1. /\ pc' = "failed" /\ UNCHANGED <<prior, gone, run>>
          /\ file' = [f \in DOMAIN file |-> IF f \in gone THEN prior[f] ELSE file[f]]
      BY <1>10, <2>1 DEF PutBack, At
    <3> QED BY <2>1, <3>1 DEF At
  <2>2. CASE At("put_back", "torn")
    <3>1. PICK f \in gone, c \in {Missing, Partial} :
            file' = [file EXCEPT ![f] = c] /\ UNCHANGED <<prior, gone, run>>
      BY <1>10, <2>2 DEF PutBack, At, Put
    <3> QED BY <2>2, <3>1 DEF At
  <2> QED BY <1>10, <2>1, <2>2 DEF PutBack
<1>11. CASE Kill
  BY <1>11 DEF Kill
<1>12. CASE UNCHANGED pairVars
  BY <1>12 DEF pairVars
<1> QED
  BY <1>1, <1>2, <1>3, <1>4, <1>5, <1>6, <1>7, <1>8, <1>9, <1>10, <1>11, <1>12 DEF PairNext

LEMMA PairInductive == PairSpec => []PairInv
BY PairBegins, PairStep, PTL DEF PairSpec

\* Every state of the publication has the shape the calls leave.
THEOREM PairTypeCorrect == PairSpec => []PairTypeOK
<1>1. PairInv => PairTypeOK
  BY DEF PairInv
<1> QED BY <1>1, PairInductive, PTL

\* However often the directory is reused, and whatever was killed in it, a
\* publication that succeeds leaves both files of its run, a removal neither.
THEOREM SuccessAlwaysWhole == PairSpec => []SuccessIsWhole
<1>1. PairInv => SuccessIsWhole
  BY DEF PairInv
<1> QED BY <1>1, PairInductive, PTL

\* A failure whose rollback did not fail leaves the pair as it was.
THEOREM FailureAlwaysRestores == PairSpec => []FailureRestores
<1>1. PairInv => FailureRestores
  BY DEF PairInv
<1> QED BY <1>1, PairInductive, PTL
================================================================================

------------------------------- MODULE SensorPool -------------------------------
(***************************************************************************)
(* The sensor pools of one run (src/sensors/mod.rs), the task ledger that  *)
(* shadows them (src/sensor_task_ledger.rs), and the part of the run that  *)
(* opens, joins and reads them (src/main.rs, cmd_run and                   *)
(* write_review_artifacts): fast sensors run first and block the run; late *)
(* sensors run behind the model wave; proof waits for the late sensors,    *)
(* because both drive Cargo in the checkout's one target directory.        *)
(*                                                                         *)
(* The recorder's events are kept as what replaying them gives: the        *)
(* snapshot of each task and whether any of its events would be refused.   *)
(* Writing the ledger replays the stream, which succeeds exactly if no     *)
(* event is refused and every task has settled.                            *)
(***************************************************************************)
EXTENDS TaskRecorder

CONSTANTS
  Setups,           \* [plan, wave, old]: the planned sensors in plan order
                    \* (plan.sensors), whether the model mode is Auto, and
                    \* the sensors an earlier run left a receipt of
  Runnable,         \* the sensors the plan selected (sensor.run)
  LateSensors,      \* sensors of the late phase; none when phases are serial
  CargoSensors,     \* sensor_uses_shared_cargo_target
  DetailSensors,    \* ripr: a second, tolerated, detail command
  Subcommands,      \* Subcommands[s]: commands tokmd runs after its preflight
  SensorJobs        \* profile.limits.sensor_jobs

Planned(setup) == {setup.plan[i] : i \in DOMAIN setup.plan}
Sensors == UNION {Planned(x) : x \in Setups}

ASSUME PoolConstants ==
  /\ \A x \in Setups :
       IsInjective(x.plan) /\ x.wave \in BOOLEAN /\ x.old \subseteq Planned(x)
  /\ Runnable \subseteq Sensors /\ LateSensors \subseteq Sensors
  /\ CargoSensors \subseteq Sensors
  /\ DetailSensors \cap CargoSensors = {}
  /\ Subcommands \in [Sensors -> Nat]
  /\ SensorJobs \in Nat \ {0}

ASSUME PlanIsList == \A x \in Setups : x.plan \in Seq(Planned(x))

Owner   == 0                      \* the one worker of the shared Cargo target
Workers == 0 .. SensorJobs

VARIABLES
  setup,      \* the plan and the model mode of this run
  main,       \* where the run stands
  late,       \* the late phase: "none" until it is spawned
  proof,      \* the initial proof stream
  queues,     \* queues.owner: Cargo work; queues.parallel: the rest.  Both
              \* keep plan order, so each is the set of what still waits
  worker,     \* worker[w]: the attempt worker w is making
  child,      \* child[s]: the sensor's most recent child process
  status,     \* status[s]: its status receipt on disk
  tasks,      \* tasks[s]: what replaying the events of its task gives
  degraded,   \* the failures the pools collected
  ledger      \* the published task-ledger pair

vars == <<setup, main, late, proof, queues, worker, child, status, tasks, degraded, ledger>>
run  == <<setup, main, late, proof, ledger>>

--------------------------------------------------------------------------------
(***************************************************************************)
(* The recorder.                                                           *)
(***************************************************************************)
\* SensorTaskLedger::initialize().
Initialized(s) ==
  <<ProposedNow>> \o
  (IF s \in Runnable
   THEN <<[kind |-> "Selected"], Event("Queued"), Event("EnteredResourceWait")>>
   ELSE <<DeclinedNow("Refused")>>)

Record(s, es) ==
  \E t \in Fed(tasks[s], es) : tasks' = [tasks EXCEPT ![s] = t]

Replayable == \A s \in Planned(setup) : tasks[s].ok /\ Settled(tasks[s])

--------------------------------------------------------------------------------
(***************************************************************************)
(* Opening a pool: its queues and its workers.                             *)
(***************************************************************************)
Idle == [pc |-> "idle", sensor |-> "none", prepared |-> FALSE, available |-> FALSE,
         spawned |-> FALSE, finished |-> FALSE, failed |-> FALSE,
         timed_out |-> FALSE, left |-> 0]
Ready == [Idle EXCEPT !.pc = "take"]

Least(a, b) == IF a <= b THEN a ELSE b

\* sensor_job_count() and sensor_pool_worker_count().
JobCount(sensors) == Least(SensorJobs, Cardinality(sensors))
PoolWorkerCount(budget, sensors) ==
  LET owners == IF sensors \cap CargoSensors # {} THEN 1 ELSE 0
  IN owners + Least(budget - owners, Cardinality(sensors \ CargoSensors))

\* Faulty variant: every worker takes from one queue, Cargo work included.
OpenPoolButShares(sensors, jobs) ==
  /\ queues' = [owner |-> {}, parallel |-> sensors]
  /\ worker' = [w \in Workers |-> IF w \in 1 .. JobCount(sensors) THEN Ready ELSE Idle]

\* run_sensor_pool() and partition_sensor_queues().
OpenPool(sensors, jobs) ==
  LET owned    == IF jobs = 1 THEN sensors ELSE sensors \cap CargoSensors
      parallel == sensors \ owned
      owners   == IF owned = {} THEN 0 ELSE 1
      helpers  == Least(jobs - owners, Cardinality(parallel))
  IN /\ queues' = [owner |-> owned, parallel |-> parallel]
     /\ worker' = [w \in Workers |->
                     IF (w = Owner /\ owners = 1) \/ w \in 1 .. helpers
                     THEN Ready ELSE Idle]

Drained == \A w \in Workers : worker[w].pc = "idle"

Chosen(isLate) ==
  {s \in Planned(setup) \cap Runnable : s \in LateSensors <=> isLate}

--------------------------------------------------------------------------------
(***************************************************************************)
(* One worker: drain_sensor_queue() over run_sensor_attempt() and          *)
(* run_sensor_attempt_with_task_ledger().                                  *)
(***************************************************************************)
QueueOf(w) == IF w = Owner THEN "owner" ELSE "parallel"
At(w, pc)  == main # "exited" /\ worker[w].pc = pc

\* The front of a queue.
Foremost(q, s) ==
  /\ s \in q
  /\ \A t \in q \ {s} :
       \E i, j \in DOMAIN setup.plan : i < j /\ setup.plan[i] = s /\ setup.plan[j] = t

Take(w) ==
  LET q == queues[QueueOf(w)]
  IN /\ At(w, "take")
     /\ \/ /\ q = {}
           /\ worker' = [worker EXCEPT ![w] = Idle]
           /\ UNCHANGED <<queues, tasks>>
        \/ \E s \in q :
             /\ Foremost(q, s)
             /\ queues' = [queues EXCEPT ![QueueOf(w)] = q \ {s}]
             /\ worker' = [worker EXCEPT ![w] = [Ready EXCEPT !.pc = "prepare",
                             !.sensor = s, !.left = Subcommands[s]]]
             /\ Record(s, AdmitAndSetup)
     /\ UNCHANGED <<run, child, status, degraded>>

\* remove_prior_sensor_status(): on a failure the attempt ends unprepared and
\* whatever receipt was there stays.
Prepare(w) ==
  /\ At(w, "prepare")
  /\ \/ \E available \in BOOLEAN :
          /\ worker' = [worker EXCEPT ![w].pc = IF available THEN "launch" ELSE "report",
                          ![w].prepared = TRUE, ![w].available = available]
          /\ status' = [status EXCEPT ![worker[w].sensor] = "none"]
     \/ /\ worker' = [worker EXCEPT ![w].pc = "settle"]
        /\ UNCHANGED status
  /\ UNCHANGED <<run, queues, child, tasks, degraded>>

\* Faulty variant: every spawn of an attempt is a RunStarted.
LaunchButRestarts(w) ==
  LET s == worker[w].sensor
  IN /\ At(w, "launch")
     /\ child' = [child EXCEPT ![s] = "running"]
     /\ worker' = [worker EXCEPT ![w].pc = "wait", ![w].spawned = TRUE]
     /\ Record(s, <<Event("RunStarted")>>)
     /\ UNCHANGED <<run, queues, status, degraded>>

\* A command after the first is the second pass of ripr or a tokmd subcommand.
\* The first spawn of an attempt is its RunStarted.
Launch(w) ==
  LET s == worker[w].sensor
  IN /\ At(w, "launch")
     /\ child' = [child EXCEPT ![s] = "running"]
     /\ worker' = [worker EXCEPT ![w].pc = "wait", ![w].spawned = TRUE]
     /\ IF worker[w].spawned THEN UNCHANGED tasks
        ELSE Record(s, <<Event("RunStarted")>>)
     /\ UNCHANGED <<run, queues, status, degraded>>

\* What follows a command: another one, or the end of the process.  A failed
\* preflight ends tokmd; ripr asks for detail only of a successful pass.
After(w, failed) ==
  LET s == worker[w].sensor
  IN IF s \in DetailSensors
     THEN IF failed \/ worker[w].left = 0 THEN "finish" ELSE "launch"
     ELSE IF worker[w].left = 0 \/ (failed /\ worker[w].left = Subcommands[s])
          THEN "finish" ELSE "launch"

\* The detail pass of ripr never changes the outcome of the sensor.
Tolerated(w) ==
  worker[w].sensor \in DetailSensors /\ worker[w].spawned /\ worker[w].left = 0

\* The command cannot be created or spawned.
FailLaunch(w) ==
  /\ At(w, "launch")
  /\ worker' = [worker EXCEPT
       ![w].failed = IF Tolerated(w) THEN @ ELSE TRUE,
       ![w].left = IF @ = 0 THEN 0 ELSE @ - 1,
       ![w].pc = IF ~worker[w].spawned THEN "report" ELSE After(w, FALSE)]
  /\ UNCHANGED <<run, queues, child, status, tasks, degraded>>

\* run_command_to_files_inner(): the child exits, or its timeout passes or
\* waiting fails and it is killed and reaped.
Collect(w) ==
  LET s == worker[w].sensor
  IN /\ At(w, "wait")
     /\ child' = [child EXCEPT ![s] = "reaped"]
     /\ \E outcome \in {"success", "failure", "timeout"} :
          LET failed == outcome # "success" IN
          worker' = [worker EXCEPT
            ![w].failed = IF failed /\ ~Tolerated(w) THEN TRUE ELSE @,
            ![w].timed_out = IF outcome = "timeout" /\ ~Tolerated(w) THEN TRUE ELSE @,
            ![w].left = IF @ = 0 THEN 0 ELSE @ - 1,
            ![w].pc = After(w, failed)]
     /\ UNCHANGED <<run, queues, status, tasks, degraded>>

\* terminate_and_reap_child() could not confirm that the child has gone: the
\* attempt returns an error and observes no finish.
LoseChild(w) ==
  /\ At(w, "wait")
  /\ child' = [child EXCEPT ![worker[w].sensor] = "unconfirmed"]
  /\ worker' = [worker EXCEPT ![w].pc = "settle"]
  /\ UNCHANGED <<run, queues, status, tasks, degraded>>

\* Any other error ends the attempt between two commands (an event or a file
\* cannot be written).  Its caller then concludes the process itself.  ripr
\* tolerates every error of its detail pass.
BreakOff(w) ==
  LET a == worker[w]
      s == a.sensor
  IN /\ \/ At(w, "launch") /\ (a.spawned => s \notin DetailSensors)
        \/ At(w, "finish") /\ a.left = 0 /\ s \notin DetailSensors /\ Subcommands[s] > 0
     /\ worker' = [worker EXCEPT ![w].pc = "settle", ![w].failed = TRUE,
                                 ![w].finished = a.spawned]
     /\ IF a.spawned THEN Record(s, <<Concluded("DeterministicFailure")>>)
        ELSE UNCHANGED tasks
     /\ UNCHANGED <<run, queues, child, status, degraded>>

\* SensorProcessObservation::Finished.
Disposition(a) ==
  IF a.timed_out THEN "TimedOut"
  ELSE IF a.failed THEN "DeterministicFailure" ELSE "Succeeded"

Finish(w) ==
  /\ At(w, "finish")
  /\ worker' = [worker EXCEPT ![w].pc = "report", ![w].finished = TRUE]
  /\ Record(worker[w].sensor, <<Concluded(Disposition(worker[w]))>>)
  /\ UNCHANGED <<run, queues, child, status, degraded>>

\* write_sensor_status() publishes by rename: the receipt is there whole or
\* (an error before the rename, or in the copy that precedes it) not at all.
StatusWord(a) ==
  IF ~a.available THEN "missing"
  ELSE IF ~a.failed THEN "ok"
  ELSE IF a.timed_out THEN "timed_out" ELSE "failed"

Report(w) ==
  /\ At(w, "report")
  /\ \/ status' = [status EXCEPT ![worker[w].sensor] = StatusWord(worker[w])]
     \/ UNCHANGED status
  /\ worker' = [worker EXCEPT ![w].pc = "settle"]
  /\ UNCHANGED <<run, queues, child, tasks, degraded>>

\* Faulty variant: an unprepared attempt still reads the receipt it finds.
ReceiptCreatedButUnprepared(a) == status[a.sensor] # "none"

\* sensor_task_receipt_disposition().
ReceiptCreated(a) == a.prepared /\ status[a.sensor] # "none"

\* Faulty variant: an attempt that observed no finish is settled regardless.
ClosingEventsButUnconfirmed(a) ==
  IF a.spawned
  THEN IF a.finished THEN <<Event("CleanupFinished")>> \o ReceiptEvents(ReceiptCreated(a))
       ELSE <<Concluded("DeterministicFailure"), Event("CleanupFinished")>>
              \o ReceiptEvents(ReceiptCreated(a))
  ELSE <<Event("SetupFailed")>> \o ReceiptEvents(ReceiptCreated(a))

\* The accounting after the attempt has returned.
ClosingEvents(a) ==
  IF a.spawned
  THEN IF a.finished THEN <<Event("CleanupFinished")>> \o ReceiptEvents(ReceiptCreated(a))
       ELSE << >>
  ELSE <<Event("SetupFailed")>> \o ReceiptEvents(ReceiptCreated(a))

\* Any error of the attempt degrades the sensor; a missing receipt is one.
Settle(w) ==
  LET a == worker[w]
      mustDegrade == ~ReceiptCreated(a) \/ (a.spawned /\ ~a.finished)
  IN /\ At(w, "settle")
     /\ Record(a.sensor, ClosingEvents(a))
     /\ \/ degraded' = degraded \cup {a.sensor}
        \/ ~mustDegrade /\ UNCHANGED degraded
     /\ worker' = [worker EXCEPT ![w] = Ready]
     /\ UNCHANGED <<run, queues, child, status>>

WorkerStep(w) ==
  \/ Take(w) \/ Prepare(w) \/ Launch(w) \/ FailLaunch(w) \/ Collect(w)
  \/ LoseChild(w) \/ BreakOff(w) \/ Finish(w) \/ Report(w) \/ Settle(w)

--------------------------------------------------------------------------------
(***************************************************************************)
(* The run: cmd_run() and write_review_artifacts(), as far as they open,   *)
(* wait for and read the sensors.  An error before write_review_artifacts()*)
(* ends the process; one inside it still tries to write the ledger.        *)
(***************************************************************************)
work == <<setup, child, status, tasks, degraded>>

\* write_skipped_sensor_receipts(), an error of which ends the process; then
\* the fast sensors, which block the run.
StartFast ==
  LET fast == Chosen(FALSE)
  IN /\ main = "start"
     /\ status' = [s \in Sensors |-> IF s \in Planned(setup) \ Runnable THEN "skipped"
                                 ELSE status[s]]
     /\ \/ /\ main' = "fast"
           /\ IF fast = {} THEN UNCHANGED <<queues, worker>>
              ELSE OpenPool(fast, JobCount(fast))
        \/ main' = "exited" /\ UNCHANGED <<queues, worker>>
     /\ UNCHANGED <<setup, late, proof, ledger, child, tasks, degraded>>

\* The scope of the fast pool ends; recording its failures may itself fail.
FastDone ==
  /\ main = "fast" /\ Drained
  /\ \/ main' = "spawn"
     \/ degraded # {} /\ main' = "exited"
  /\ UNCHANGED <<late, proof, ledger, queues, worker, work>>

\* spawn_late_sensor_phase(): no late phase without late sensors.
SpawnLate ==
  LET chosen == Chosen(TRUE)
  IN /\ main = "spawn"
     /\ \/ /\ chosen = {} /\ main' = "context"
           /\ UNCHANGED <<late, queues, worker>>
        \/ /\ chosen # {} /\ main' = "context" /\ late' = "running"
           /\ OpenPool(chosen, PoolWorkerCount(JobCount(chosen), chosen))
        \/ /\ chosen # {} /\ main' = "exited"
           /\ UNCHANGED <<late, queues, worker>>
     /\ UNCHANGED <<proof, ledger, work>>

\* The late thread returns, with an error if recording its failures fails.
LateEnds ==
  /\ main # "exited" /\ late = "running" /\ Drained
  /\ \/ late' = "completed"
     \/ degraded # {} /\ late' = "failed"
  /\ UNCHANGED <<main, proof, ledger, queues, worker, work>>

\* Thread context, lane packets and the preliminary summary; then the part of
\* write_review_artifacts() before the model wave.
Advance(from, to, orElse) ==
  /\ main = from
  /\ main' \in {to, orElse}
  /\ UNCHANGED <<late, ledger, queues, worker, work>>

CollectContext == Advance("context", "prepare", "exited") /\ UNCHANGED proof

\* Model mode Auto starts the proof thread beside the wave.
PrepareReview ==
  /\ Advance("prepare", "wave", "abandon")
  /\ proof' = IF setup.wave /\ main' = "wave" THEN "waiting" ELSE proof

\* Without a model wave the run itself waits for the late phase and then runs
\* proof.  An error inside the wave still waits for the scoped proof thread.
FinishWave ==
  /\ Advance("wave", "await", IF setup.wave THEN "await_error" ELSE "abandon")
  /\ proof' = IF ~setup.wave /\ main' = "await" THEN "waiting" ELSE proof

\* Faulty variant: proof does not wait for the late phase.
StartProofButEager ==
  /\ main # "exited" /\ proof = "waiting"
  /\ proof' = "running"
  /\ UNCHANGED <<main, late, ledger, queues, worker, work>>

\* start_initial_proof_after_late_sensors(): joins the late phase; its error,
\* or one of recording the join, is proof's error.
StartProof ==
  /\ main # "exited" /\ proof = "waiting" /\ late # "running"
  /\ late' = IF late = "none" THEN "none" ELSE "joined"
  /\ \/ late # "failed" /\ proof' = "running"
     \/ proof' = "failed"
  /\ UNCHANGED <<main, ledger, queues, worker, work>>

EndProof ==
  /\ main # "exited" /\ proof = "running"
  /\ proof' \in {"done", "failed"}
  /\ UNCHANGED <<main, late, ledger, queues, worker, work>>

\* Faulty variant: a failed proof stream is waited for forever.
AwaitProofButDone ==
  /\ proof = "done"
  /\ \/ main = "await" /\ main' = "read"
     \/ main = "await_error" /\ main' = "abandon"
  /\ UNCHANGED <<late, proof, ledger, queues, worker, work>>

AwaitProof ==
  /\ proof \in {"done", "failed"}
  /\ \/ main = "await" /\ main' = IF proof = "done" THEN "read" ELSE "abandon"
     \/ main = "await_error" /\ main' = "abandon"
  /\ UNCHANGED <<late, proof, ledger, queues, worker, work>>

\* Everything downstream that reads sensor evidence, up to the gate.
ReadEvidence == Advance("read", "publish", "abandon") /\ UNCHANGED proof

\* Faulty variant: the pair is published without replaying it.
WriteLedgerButUnchecked ==
  /\ main \in {"publish", "abandon"}
  /\ main' = "exited"
  /\ ledger' = "written"
  /\ UNCHANGED <<late, proof, queues, worker, work>>

\* SensorTaskLedger::write_artifacts(), on success and on the error path: the
\* pair is replayed before it is published; publishing may fail as well.
WriteLedger ==
  /\ main \in {"publish", "abandon"}
  /\ main' = "exited"
  /\ \/ UNCHANGED ledger
     \/ Replayable /\ ledger' = "written"
  /\ UNCHANGED <<late, proof, queues, worker, work>>

Init ==
  /\ setup \in Setups
  /\ main = "start" /\ late = "none" /\ proof = "none" /\ ledger = "none"
  /\ queues = [owner |-> {}, parallel |-> {}]
  /\ worker = [w \in Workers |-> Idle]
  /\ child = [s \in Sensors |-> "none"]
  /\ status = [s \in Sensors |-> IF s \in setup.old THEN "stale" ELSE "none"]
  /\ tasks = [s \in Sensors |-> CHOOSE t \in Fed(Unheard, Initialized(s)) : TRUE]
  /\ degraded = {}

RunStep ==
  \/ StartFast \/ FastDone \/ SpawnLate \/ CollectContext \/ PrepareReview
  \/ FinishWave \/ AwaitProof \/ ReadEvidence \/ WriteLedger

Next ==
  \/ RunStep \/ LateEnds \/ StartProof \/ EndProof
  \/ \E w \in Workers : WorkerStep(w)

Spec == Init /\ [][Next]_vars

\* Some thread that can go on does: a child exits or meets its timeout, and
\* proof commands are bounded by theirs.  No step repeats forever, so it does
\* not matter which thread is scheduled.
FairSpec == Spec /\ WF_vars(Next)

--------------------------------------------------------------------------------
\* The booleans with which a worker tracks its attempt stay in step with the
\* reducer: no event it appends, in any order the attempt can fail, would be
\* refused when the stream is replayed.
LedgerNeverRefused == \A s \in Sensors : tasks[s].ok

\* The Cargo commands that hold the target directory, counting a child known
\* to run.
CargoHolders ==
  {s \in CargoSensors : child[s] = "running"}
    \cup (IF proof = "running" THEN {"proof"} ELSE {})

\* #1257: of the Cargo sensors and the proof stream at most one is known to be
\* running in the shared target directory.
CargoExclusive == Cardinality(CargoHolders) <= 1

\* A process that may still be running is never accounted as finished, so its
\* resources are never recorded as released under it.
RunningIsAccounted ==
  \A s \in Sensors :
    child[s] \in {"running", "unconfirmed"} => tasks[s].snap.state = "Running"

\* The status receipt and the task's outcome are computed apart; a task that
\* claims its receipt was created agrees with what the receipt says, and that
\* receipt is the attempt's own, never one left by an earlier run.
Agrees(execution, word) ==
  \/ execution = "Succeeded" /\ word = "ok"
  \/ execution = "TimedOut" /\ word = "timed_out"
  \/ execution = "DeterministicFailure" /\ word = "failed"
  \/ execution = "SetupFailed" /\ word \in {"missing", "failed"}

ReceiptsAgree ==
  \A s \in Sensors :
    LET t == tasks[s].snap
    IN t.receipt = "Created" => Agrees(t.execution, status[s])

\* When the run reads its evidence every runnable sensor was attempted once,
\* and one whose receipt is not its own or whose process was lost is among the
\* recorded failures: nothing is lost silently.
Accounted(s) ==
  LET t == tasks[s].snap
  IN /\ t.state \in {"Running", "ResourcesReleased"}
     /\ \/ s \in degraded
        \/ t.state = "ResourcesReleased" /\ t.receipt = "Created"

NothingLostSilently ==
  main \in {"read", "publish"} => \A s \in Planned(setup) \cap Runnable : Accounted(s)

\* Once the run reads sensor evidence no sensor writes any more, so every
\* reader from tool status to the gate sees the same evidence.
evidence == <<status, tasks, child>>

EvidenceFrozen ==
  [][(main \in {"read", "publish"}) => (evidence' = evidence)]_vars

\* A published pair leaves nothing running and nothing unsettled behind it.
WrittenIsSettled ==
  ledger = "written" =>
    \A s \in Planned(setup) : Settled(tasks[s]) /\ child[s] \notin {"running", "unconfirmed"}

\* Every run ends: the owner queue is drained behind the model wave, the join
\* that proof waits for happens, and no thread waits for one that waits for it.
RunEnds == <>(main = "exited")
================================================================================

---------------------------- MODULE SensorPoolProofs ----------------------------
(***************************************************************************)
(* Proofs about SensorPool, for any sensors, plans and number of workers.  *)
(*                                                                         *)
(* The target directory is never shared because Cargo work is only ever in *)
(* the owner's hands, and because proof does not start before every worker *)
(* of the late phase, the owner included, has come home.                   *)
(*                                                                         *)
(* The ledger replays because no event is appended twice or too early:     *)
(* what a worker remembers of its attempt (prepared, spawned, finished)    *)
(* tells in which state the reducer holds its task.  Nothing is lost       *)
(* because a task is, at any moment, in one queue, in one worker's hands   *)
(* or settled, and because no queue is left unmanned while work remains.   *)
(***************************************************************************)
EXTENDS SensorPool, RecorderProofs, FiniteSetTheorems

(***************************************************************************)
(* What the recorder makes of a task when its phase opens.                 *)
(***************************************************************************)
LEMMA InitialHeard ==
    ASSUME NEW s, NEW u \in Fed(Unheard, Initialized(s))
    PROVE  /\ Heard(u)
           /\ u.snap.state = IF s \in Runnable THEN "ResourceWait" ELSE "TerminallyDeclined"
<1>1. CASE s \in Runnable
  <2>1. Initialized(s) = Queueing
    BY <1>1, JoinedThree DEF Initialized, Queueing
  <2>. QED BY <1>1, <2>1, QueueingHeard
<1>2. CASE s \notin Runnable
  <2>1. Initialized(s) = <<ProposedNow, DeclinedNow("Refused")>>
    BY <1>2, JoinedOne DEF Initialized
  <2>. QED BY <1>2, <2>1, RefusalHeard
<1>. QED BY <1>1, <1>2

USE PoolConstants

(***************************************************************************)
(* Types, of what the argument is about.                                   *)
(***************************************************************************)
WorkerPcs == {"idle", "take", "prepare", "launch", "wait", "finish", "report", "settle"}
Mains == {"start", "fast", "spawn", "context", "prepare", "wave", "await", "await_error",
          "read", "publish", "abandon", "exited"}
Attempt ==
  [pc : WorkerPcs, sensor : Sensors \cup {"none"}, prepared : BOOLEAN, available : BOOLEAN,
   spawned : BOOLEAN, finished : BOOLEAN, failed : BOOLEAN, timed_out : BOOLEAN, left : Nat]

PoolTyped ==
  /\ setup \in Setups
  /\ main \in Mains
  /\ late \in {"none", "running", "completed", "failed", "joined"}
  /\ proof \in {"none", "waiting", "running", "done", "failed"}
  /\ queues \in [owner : SUBSET Sensors, parallel : SUBSET Sensors]
  /\ worker \in [Workers -> Attempt]
  /\ child \in [Sensors -> {"none", "running", "reaped", "unconfirmed"}]

(***************************************************************************)
(* Who may hold the target directory.                                      *)
(***************************************************************************)
AtWork(w) == worker[w].pc \notin {"idle", "take"}

(* Cargo work is queued for the owner, and only the owner takes it.        *)
Owned ==
  /\ queues.parallel \cap CargoSensors = {}
  /\ \A w \in Workers : AtWork(w) =>
        /\ worker[w].sensor \in Sensors
        /\ w # Owner => worker[w].sensor \notin CargoSensors

(* A Cargo command that runs is the one the owner waits for.               *)
Awaited ==
  \A s \in CargoSensors : child[s] = "running" =>
      worker[Owner].pc = "wait" /\ worker[Owner].sensor = s

(* Workers are out only while a phase runs, and proof only after it.       *)
InPhase ==
  /\ main \in {"start", "fast", "spawn"} => late = "none" /\ proof = "none"
  /\ ~Drained => main \in {"fast", "exited"} \/ late = "running"
  /\ proof \in {"running", "done"} => Drained /\ late # "running"
  /\ main \in {"read", "publish"} => proof = "done"

PoolInv == PoolTyped /\ Owned /\ Awaited /\ InPhase

LEMMA RunTyped ==
    ASSUME PoolTyped, RunStep \/ LateEnds \/ StartProof \/ EndProof
    PROVE  PoolTyped'
<1>. Idle \in Attempt /\ Ready \in Attempt
  BY DEF Idle, Ready, Attempt, WorkerPcs
<1>. /\ Chosen(TRUE) \subseteq Sensors /\ Chosen(FALSE) \subseteq Sensors
  BY DEF PoolTyped, Chosen, Sensors
<1>0. ASSUME NEW S \in SUBSET Sensors, NEW jobs, OpenPool(S, jobs)
      PROVE  /\ queues' \in [owner : SUBSET Sensors, parallel : SUBSET Sensors]
             /\ worker' \in [Workers -> Attempt]
  BY <1>0 DEF OpenPool
<1>1. CASE StartFast
  <2>1. UNCHANGED <<queues, worker>> \/ OpenPool(Chosen(FALSE), JobCount(Chosen(FALSE)))
    BY <1>1 DEF StartFast
  <2>2. /\ queues' \in [owner : SUBSET Sensors, parallel : SUBSET Sensors]
        /\ worker' \in [Workers -> Attempt]
    BY <2>1, <1>0 DEF PoolTyped
  <2>. QED BY <1>1, <2>2 DEF StartFast, PoolTyped, Mains
<1>2. CASE SpawnLate
  <2>1. \/ UNCHANGED <<queues, worker>>
        \/ OpenPool(Chosen(TRUE), PoolWorkerCount(JobCount(Chosen(TRUE)), Chosen(TRUE)))
    BY <1>2 DEF SpawnLate
  <2>2. /\ queues' \in [owner : SUBSET Sensors, parallel : SUBSET Sensors]
        /\ worker' \in [Workers -> Attempt]
    BY <2>1, <1>0 DEF PoolTyped
  <2>. QED BY <1>2, <2>2 DEF SpawnLate, PoolTyped, Mains, work
<1>3. CASE FastDone \/ CollectContext \/ PrepareReview \/ FinishWave
  BY <1>3 DEF FastDone, CollectContext, PrepareReview, FinishWave, Advance, PoolTyped, Mains,
              work
<1>4. CASE AwaitProof \/ ReadEvidence \/ WriteLedger
  BY <1>4 DEF AwaitProof, ReadEvidence, WriteLedger, Advance, PoolTyped, Mains, work
<1>5. CASE LateEnds \/ StartProof \/ EndProof
  BY <1>5 DEF LateEnds, StartProof, EndProof, PoolTyped, work
<1>. QED BY <1>1, <1>2, <1>3, <1>4, <1>5 DEF RunStep

LEMMA WorkerTyped ==
    ASSUME PoolTyped, Owned, NEW w \in Workers, WorkerStep(w)
    PROVE  PoolTyped'
<1>. DEFINE a == worker[w]
<1>. a \in Attempt /\ worker \in [Workers -> Attempt]
  BY DEF PoolTyped
<1>0. UNCHANGED run /\ (UNCHANGED queues \/ Take(w))
  BY DEF WorkerStep, Take, Prepare, Launch, FailLaunch, Collect, LoseChild, BreakOff, Finish,
         Report, Settle
<1>1. worker' \in [Workers -> Attempt]
  <2>1. CASE Take(w)
    <3>1. Idle \in Attempt
      BY DEF Idle, Attempt, WorkerPcs
    <3>2. ASSUME NEW s \in Sensors
          PROVE  [Ready EXCEPT !.pc = "prepare", !.sensor = s, !.left = Subcommands[s]]
                   \in Attempt
      BY DEF Ready, Idle, Attempt, WorkerPcs
    <3>3. queues[QueueOf(w)] \subseteq Sensors
      BY DEF PoolTyped, QueueOf
    <3>4. \/ worker' = [worker EXCEPT ![w] = Idle]
          \/ \E s \in Sensors :
               worker' = [worker EXCEPT ![w] = [Ready EXCEPT !.pc = "prepare", !.sensor = s,
                                                            !.left = Subcommands[s]]]
      BY <2>1, <3>3 DEF Take
    <3>. QED BY <3>1, <3>2, <3>4
  <2>2. CASE Prepare(w)
    <3>1. ASSUME NEW pc \in {"launch", "report"}, NEW v \in BOOLEAN
          PROVE  [a EXCEPT !.pc = pc, !.prepared = TRUE, !.available = v] \in Attempt
      BY DEF Attempt, WorkerPcs
    <3>2. [a EXCEPT !.pc = "settle"] \in Attempt
      BY DEF Attempt, WorkerPcs
    <3>3. ASSUME NEW v \in BOOLEAN,
                 worker' = [worker EXCEPT ![w].pc = IF v THEN "launch" ELSE "report",
                                          ![w].prepared = TRUE, ![w].available = v]
          PROVE  worker' \in [Workers -> Attempt]
      <4>. DEFINE pc == IF v THEN "launch" ELSE "report"
      <4>1. [a EXCEPT !.pc = pc, !.prepared = TRUE, !.available = v] \in Attempt
        BY <3>1
      <4>2. worker' = [worker EXCEPT ![w] = [a EXCEPT !.pc = pc, !.prepared = TRUE,
                                                      !.available = v]]
        BY <3>3
      <4>. QED BY <4>1, <4>2
    <3>4. worker' = [worker EXCEPT ![w].pc = "settle"] => worker' \in [Workers -> Attempt]
      BY <3>2
    <3>. QED BY <2>2, <3>3, <3>4 DEF Prepare
  <2>3. CASE Launch(w) \/ LoseChild(w) \/ BreakOff(w) \/ Finish(w) \/ Report(w)
    <3>1. CASE Launch(w)
      BY <3>1 DEF Launch, Attempt, WorkerPcs
    <3>2. CASE LoseChild(w)
      BY <3>2 DEF LoseChild, Attempt, WorkerPcs
    <3>3. CASE BreakOff(w)
      BY <3>3 DEF BreakOff, Attempt, WorkerPcs
    <3>4. CASE Finish(w)
      BY <3>4 DEF Finish, Attempt, WorkerPcs
    <3>5. CASE Report(w)
      BY <3>5 DEF Report, Attempt, WorkerPcs
    <3>. QED BY <2>3, <3>1, <3>2, <3>3, <3>4, <3>5
  <2>4. ASSUME NEW pc \in WorkerPcs, NEW f \in BOOLEAN, NEW t \in BOOLEAN, NEW n \in Nat
        PROVE  /\ [a EXCEPT !.failed = f, !.left = n, !.pc = pc] \in Attempt
               /\ [a EXCEPT !.failed = f, !.timed_out = t, !.left = n, !.pc = pc] \in Attempt
    BY DEF Attempt
  <2>5. /\ a.failed \in BOOLEAN /\ a.timed_out \in BOOLEAN
        /\ (IF a.left = 0 THEN 0 ELSE a.left - 1) \in Nat
        /\ \A failed : After(w, failed) \in WorkerPcs
    BY DEF Attempt, After, WorkerPcs
  <2>6. CASE FailLaunch(w)
    <3>. DEFINE f == IF Tolerated(w) THEN a.failed ELSE TRUE
                n == IF a.left = 0 THEN 0 ELSE a.left - 1
                pc == IF ~a.spawned THEN "report" ELSE After(w, FALSE)
    <3>1. worker' = [worker EXCEPT ![w] = [a EXCEPT !.failed = f, !.left = n, !.pc = pc]]
      BY <2>6 DEF FailLaunch
    <3>2. f \in BOOLEAN /\ n \in Nat /\ pc \in WorkerPcs
      BY <2>5 DEF WorkerPcs
    <3>. HIDE DEF f, n, pc
    <3>. QED BY <2>4, <3>1, <3>2
  <2>7. CASE Collect(w)
    <3>0. PICK outcome \in {"success", "failure", "timeout"} :
           worker' = [worker EXCEPT
             ![w].failed = IF outcome # "success" /\ ~Tolerated(w) THEN TRUE ELSE @,
             ![w].timed_out = IF outcome = "timeout" /\ ~Tolerated(w) THEN TRUE ELSE @,
             ![w].left = IF @ = 0 THEN 0 ELSE @ - 1,
             ![w].pc = After(w, outcome # "success")]
      BY <2>7 DEF Collect
    <3>. DEFINE f == IF outcome # "success" /\ ~Tolerated(w) THEN TRUE ELSE a.failed
                t == IF outcome = "timeout" /\ ~Tolerated(w) THEN TRUE ELSE a.timed_out
                n == IF a.left = 0 THEN 0 ELSE a.left - 1
                pc == After(w, outcome # "success")
    <3>1. worker' = [worker EXCEPT ![w] = [a EXCEPT !.failed = f, !.timed_out = t,
                                                    !.left = n, !.pc = pc]]
      BY <3>0
    <3>2. f \in BOOLEAN /\ t \in BOOLEAN /\ n \in Nat /\ pc \in WorkerPcs
      BY <2>5
    <3>. HIDE DEF f, t, n, pc
    <3>. QED BY <2>4, <3>1, <3>2
  <2>8. CASE Settle(w)
    BY <2>8 DEF Settle, Ready, Idle, Attempt, WorkerPcs
  <2>. QED BY <2>1, <2>2, <2>3, <2>6, <2>7, <2>8 DEF WorkerStep
<1>2. queues' \in [owner : SUBSET Sensors, parallel : SUBSET Sensors]
  <2>1. CASE Take(w) /\ w = Owner
    <3>1. UNCHANGED queues
          \/ \E s : queues' = [queues EXCEPT !.owner = queues.owner \ {s}]
      BY <2>1 DEF Take, QueueOf
    <3>. QED BY <3>1 DEF PoolTyped
  <2>2. CASE Take(w) /\ w # Owner
    <3>1. UNCHANGED queues
          \/ \E s : queues' = [queues EXCEPT !.parallel = queues.parallel \ {s}]
      BY <2>2 DEF Take, QueueOf
    <3>. QED BY <3>1 DEF PoolTyped
  <2>. QED BY <1>0, <2>1, <2>2 DEF PoolTyped
<1>3. child' \in [Sensors -> {"none", "running", "reaped", "unconfirmed"}]
  BY DEF PoolTyped, WorkerStep, Take, Prepare, Launch, FailLaunch, Collect, LoseChild,
         BreakOff, Finish, Report, Settle
<1>. QED BY <1>0, <1>1, <1>2, <1>3 DEF PoolTyped, run

(***************************************************************************)
(* The steps of the run.                                                   *)
(***************************************************************************)
LEMMA OpenedOwned ==
    ASSUME NEW S \in SUBSET Sensors, NEW jobs, OpenPool(S, jobs)
    PROVE  Owned' /\ \A w \in Workers : worker'[w].pc \in {"idle", "take"}
<1>1. queues'.parallel \cap CargoSensors = {}
  BY DEF OpenPool
<1>2. \A w \in Workers : worker'[w].pc \in {"idle", "take"}
  BY DEF OpenPool, Ready, Idle
<1>. QED BY <1>1, <1>2 DEF Owned, AtWork

LEMMA RunKeeps ==
    ASSUME PoolInv, RunStep \/ LateEnds \/ StartProof \/ EndProof
    PROVE  Owned' /\ Awaited' /\ InPhase'
<1>. Chosen(TRUE) \subseteq Sensors /\ Chosen(FALSE) \subseteq Sensors
  BY DEF PoolInv, PoolTyped, Chosen, Sensors
<1>. Owner \in Workers
  BY DEF Owner, Workers
<1>0. child' = child
  BY DEF RunStep, StartFast, FastDone, SpawnLate, CollectContext, PrepareReview, FinishWave,
         AwaitProof, ReadEvidence, WriteLedger, Advance, LateEnds, StartProof, EndProof, work
<1>1. CASE StartFast \/ SpawnLate
  <2>1. Drained /\ proof = "none" /\ proof' = proof /\ late = "none"
    BY <1>1 DEF PoolInv, InPhase, StartFast, SpawnLate
  <2>2. \A s \in CargoSensors : child[s] # "running"
    BY <2>1 DEF PoolInv, Awaited, Drained
  <2>3. UNCHANGED <<queues, worker>> \/ \E S \in SUBSET Sensors : \E jobs : OpenPool(S, jobs)
    BY <1>1 DEF StartFast, SpawnLate
  <2>4. Owned'
    BY <2>3, OpenedOwned DEF PoolInv, Owned, AtWork
  <2>5. InPhase'
    <3>1. CASE StartFast
      BY <3>1, <2>1 DEF StartFast, InPhase, Drained
    <3>2. CASE SpawnLate
      BY <3>2, <2>1 DEF SpawnLate, InPhase, Drained
    <3>. QED BY <1>1, <3>1, <3>2
  <2>. QED BY <1>0, <2>2, <2>4, <2>5 DEF Awaited
<1>2. CASE ~(StartFast \/ SpawnLate)
  <2>1. UNCHANGED <<queues, worker>>
    BY <1>2 DEF RunStep, FastDone, CollectContext, PrepareReview, FinishWave, AwaitProof,
       ReadEvidence, WriteLedger, Advance, LateEnds, StartProof, EndProof
  <2>2. Owned' /\ Awaited' /\ (Drained' <=> Drained)
    BY <1>0, <2>1 DEF PoolInv, Owned, AtWork, Awaited, Drained
  <2>3. CASE FastDone \/ CollectContext \/ PrepareReview \/ FinishWave
    BY <2>2, <2>3 DEF PoolInv, InPhase, FastDone, CollectContext, PrepareReview, FinishWave,
                      Advance
  <2>4. CASE AwaitProof \/ ReadEvidence \/ WriteLedger
    BY <2>2, <2>4 DEF PoolInv, InPhase, AwaitProof, ReadEvidence, WriteLedger, Advance
  <2>5. CASE LateEnds \/ StartProof \/ EndProof
    BY <2>2, <2>5 DEF PoolInv, InPhase, LateEnds, StartProof, EndProof
  <2>. QED BY <1>2, <2>2, <2>3, <2>4, <2>5 DEF RunStep
<1>. QED BY <1>1, <1>2

(***************************************************************************)
(* The steps of a worker.                                                  *)
(***************************************************************************)
(* What it works on is its own, and only launching makes a child run.      *)
LEMMA WorkerKeeps ==
    ASSUME PoolInv, NEW w \in Workers, WorkerStep(w)
    PROVE  Owned' /\ Awaited' /\ InPhase'
<1>. /\ worker \in [Workers -> Attempt]
     /\ child \in [Sensors -> {"none", "running", "reaped", "unconfirmed"}]
     /\ queues \in [owner : SUBSET Sensors, parallel : SUBSET Sensors]
     /\ Owner \in Workers /\ CargoSensors \subseteq Sensors
  BY DEF PoolInv, PoolTyped, Owner, Workers
<1>1. /\ worker[w].pc # "idle" /\ main # "exited"
      /\ UNCHANGED <<main, late, proof>>
      /\ \A v \in Workers : v # w => worker'[v] = worker[v]
  BY DEF WorkerStep, Take, Prepare, Launch, FailLaunch, Collect, LoseChild, BreakOff, Finish,
         Report, Settle, At, run
<1>2. InPhase'
  BY <1>1 DEF PoolInv, InPhase, Drained
<1>3. Owned'
  <2>0. Take(w) => \/ worker'[w].pc = "idle"
                   \/ worker'[w].sensor \in queues[QueueOf(w)]
    <3>1. Take(w) =>
            \/ worker' = [worker EXCEPT ![w] = Idle]
            \/ \E s \in queues[QueueOf(w)] :
                 worker' = [worker EXCEPT ![w] = [Ready EXCEPT !.pc = "prepare", !.sensor = s,
                                                              !.left = Subcommands[s]]]
      BY DEF Take
    <3>2. Idle.pc = "idle"
      BY DEF Idle
    <3>3. \A s, n : [Ready EXCEPT !.pc = "prepare", !.sensor = s, !.left = n].sensor = s
      BY DEF Ready, Idle
    <3>4. worker' = [worker EXCEPT ![w] = Idle] => worker'[w].pc = "idle"
      BY <3>2
    <3>5. ASSUME NEW s \in queues[QueueOf(w)],
                 worker' = [worker EXCEPT ![w] = [Ready EXCEPT !.pc = "prepare", !.sensor = s,
                                                              !.left = Subcommands[s]]]
          PROVE  worker'[w].sensor = s
      BY <3>3, <3>5
    <3>. QED BY <3>1, <3>4, <3>5
  <2>. (w = Owner => QueueOf(w) = "owner") /\ (w # Owner => QueueOf(w) = "parallel")
    BY DEF QueueOf
  <2>1. CASE Take(w)
    <3>1. CASE w = Owner
      <4>1. queues' = queues \/ \E s : queues' = [queues EXCEPT !.owner = queues.owner \ {s}]
        BY <2>1, <3>1 DEF Take, QueueOf
      <4>. QED BY <1>1, <3>1, <4>1, <2>0, <2>1 DEF PoolInv, Owned, AtWork
    <3>2. CASE w # Owner
      <4>1. queues' = queues
            \/ \E s : queues' = [queues EXCEPT !.parallel = queues.parallel \ {s}]
        BY <2>1, <3>2 DEF Take, QueueOf
      <4>. QED BY <1>1, <3>2, <4>1, <2>0, <2>1 DEF PoolInv, Owned, AtWork
    <3>. QED BY <3>1, <3>2
  <2>2. CASE Settle(w)
    BY <1>1, <2>2 DEF Settle, PoolInv, Owned, AtWork, Ready, Idle
  <2>3. CASE ~(Take(w) \/ Settle(w))
    <3>. DEFINE Kept == queues' = queues /\ AtWork(w) /\ worker'[w].sensor = worker[w].sensor
    <3>1. Prepare(w) => Kept
      <4>1. Prepare(w) =>
              /\ queues' = queues /\ worker[w].pc = "prepare"
              /\ \/ \E v \in BOOLEAN :
                      worker' = [worker EXCEPT ![w].pc = IF v THEN "launch" ELSE "report",
                                               ![w].prepared = TRUE, ![w].available = v]
                 \/ worker' = [worker EXCEPT ![w].pc = "settle"]
        BY DEF Prepare, At
      <4>2. ASSUME NEW pc, NEW v,
                   worker' = [worker EXCEPT ![w].pc = pc, ![w].prepared = TRUE,
                                            ![w].available = v]
            PROVE  worker'[w].sensor = worker[w].sensor
        BY <4>2 DEF Attempt
      <4>3. worker' = [worker EXCEPT ![w].pc = "settle"]
              => worker'[w].sensor = worker[w].sensor
        BY DEF Attempt
      <4>. QED BY <4>1, <4>2, <4>3 DEF AtWork
    <3>2. Launch(w) \/ LoseChild(w) \/ BreakOff(w) \/ Finish(w) \/ Report(w) => Kept
      BY DEF Launch, LoseChild, BreakOff, Finish, Report, At, AtWork, Attempt
    <3>3. FailLaunch(w) => Kept
      BY DEF FailLaunch, At, AtWork, Attempt
    <3>4. Collect(w) => Kept
      BY DEF Collect, At, AtWork, Attempt
    <3>5. Kept
      BY <2>3, <3>1, <3>2, <3>3, <3>4 DEF WorkerStep
    <3>. QED BY <1>1, <3>5 DEF PoolInv, Owned, AtWork
  <2>. QED BY <2>1, <2>2, <2>3
<1>4. Awaited'
  <2>1. CASE Launch(w)
    <3>1. /\ child' = [child EXCEPT ![worker[w].sensor] = "running"]
          /\ worker'[w].pc = "wait" /\ worker'[w].sensor = worker[w].sensor
          /\ worker[w].pc = "launch"
      BY <2>1 DEF Launch, At, Attempt
    <3>2. w # Owner => worker[w].sensor \notin CargoSensors
      BY <3>1 DEF PoolInv, Owned, AtWork
    <3>. QED BY <1>1, <3>1, <3>2 DEF PoolInv, Awaited
  <2>2. CASE Collect(w) \/ LoseChild(w)
    <3>1. /\ \E o \in {"reaped", "unconfirmed"} : child' = [child EXCEPT ![worker[w].sensor] = o]
          /\ worker[w].pc = "wait"
      BY <2>2 DEF Collect, LoseChild, At
    <3>2. worker[w].sensor \in Sensors
      BY <3>1 DEF PoolInv, Owned, AtWork
    <3>. QED BY <1>1, <3>1, <3>2 DEF PoolInv, Awaited
  <2>3. CASE ~(Launch(w) \/ Collect(w) \/ LoseChild(w))
    <3>1. child' = child /\ worker[w].pc # "wait"
      BY <2>3 DEF WorkerStep, Take, Prepare, FailLaunch, BreakOff, Finish, Report, Settle, At
    <3>. QED BY <1>1, <3>1 DEF PoolInv, Awaited
  <2>. QED BY <2>1, <2>2, <2>3
<1>. QED BY <1>2, <1>3, <1>4

LEMMA PoolInvariant == Spec => []PoolInv
<1>1. Init => PoolInv
  <2>. SUFFICES ASSUME Init PROVE PoolInv
    OBVIOUS
  <2>1. PoolTyped
    BY DEF Init, PoolTyped, Mains, Idle, Attempt, WorkerPcs
  <2>. QED BY <2>1 DEF Init, PoolInv, Owned, AtWork, Awaited, InPhase, Drained, Idle
<1>2. PoolInv /\ [Next]_vars => PoolInv'
  <2>. SUFFICES ASSUME PoolInv, [Next]_vars PROVE PoolInv'
    OBVIOUS
  <2>1. CASE RunStep \/ LateEnds \/ StartProof \/ EndProof
    BY <2>1, RunTyped, RunKeeps DEF PoolInv
  <2>2. CASE \E w \in Workers : WorkerStep(w)
    BY <2>2, WorkerTyped, WorkerKeeps DEF PoolInv
  <2>3. CASE UNCHANGED vars
    BY <2>3 DEF vars, PoolInv, PoolTyped, Owned, AtWork, Awaited, InPhase, Drained
  <2>. QED BY <2>1, <2>2, <2>3 DEF Next
<1>. QED BY <1>1, <1>2, PTL DEF Spec

(* #1257: whatever the number of workers, Cargo never runs twice at once   *)
(* in the shared target directory, proof commands included.                *)
THEOREM CargoAlwaysExclusive == Spec => []CargoExclusive
<1>1. PoolInv => CargoExclusive
  <2>. SUFFICES ASSUME PoolInv PROVE CargoExclusive
    OBVIOUS
  <2>1. \E x : CargoHolders \subseteq {x}
    <3>1. CASE proof = "running"
      <4>1. \A s \in CargoSensors : child[s] # "running"
        BY <3>1 DEF PoolInv, InPhase, Awaited, Drained, Owner, Workers
      <4>. QED BY <4>1 DEF CargoHolders
    <3>2. CASE proof # "running"
      <4>1. CargoHolders \subseteq {worker[Owner].sensor}
        BY <3>2 DEF PoolInv, Awaited, CargoHolders
      <4>. QED BY <4>1
    <3>. QED BY <3>1, <3>2
  <2>2. PICK x : CargoHolders \subseteq {x}
    BY <2>1
  <2>3. IsFiniteSet({x}) /\ Cardinality({x}) = 1
    BY FS_Singleton
  <2>. QED BY <2>2, <2>3, FS_Subset, FS_CardinalityType DEF CargoExclusive
<1>. QED BY <1>1, PoolInvariant, PTL

(* write_review_artifacts() reads sensor evidence that no sensor can still *)
(* change: every thread of both phases has come home by then.              *)
THEOREM EvidenceStaysFrozen == Spec => EvidenceFrozen
<1>1. PoolInv /\ [Next]_vars => [(main \in {"read", "publish"}) => evidence' = evidence]_vars
  <2>. SUFFICES ASSUME PoolInv, Next, main \in {"read", "publish"}
                PROVE  evidence' = evidence
    OBVIOUS
  <2>1. Drained
    BY DEF PoolInv, InPhase
  <2>2. ~\E w \in Workers : WorkerStep(w)
    BY <2>1, ZenonT(60) DEF Drained, WorkerStep, Take, Prepare, Launch, FailLaunch, Collect, LoseChild,
       BreakOff, Finish, Report, Settle, At
  <2>3. RunStep \/ LateEnds \/ StartProof \/ EndProof
    BY <2>2 DEF Next
  <2>. QED
    BY <2>3 DEF RunStep, StartFast, FastDone, SpawnLate, CollectContext, PrepareReview,
       FinishWave, AwaitProof, ReadEvidence, WriteLedger, Advance, LateEnds, StartProof,
       EndProof, work, evidence
<1>. QED BY <1>1, PoolInvariant, PTL DEF Spec, EvidenceFrozen

(***************************************************************************)
(* The task ledger behind the pools.                                       *)
(***************************************************************************)
Alive == {"running", "unconfirmed"}
State(s) == tasks[s].snap.state
Due == Planned(setup) \cap Runnable
Waiting == queues.owner \cup queues.parallel

Replays ==
  /\ tasks = [s \in Sensors |-> tasks[s]] /\ status = [s \in Sensors |-> status[s]]
  /\ \A s \in Sensors : Heard(tasks[s])

(* What a worker remembers of its attempt is consistent.                   *)
Remembers(w) ==
  LET a == worker[w]
  IN /\ a.finished \/ a.timed_out => a.spawned
     /\ a.timed_out => a.failed
     /\ a.spawned => a.available
     /\ a.pc = "prepare" => ~a.spawned /\ ~a.prepared
     /\ a.pc \in {"launch", "wait", "finish"} => a.available /\ ~a.finished
     /\ a.pc \in {"wait", "finish"} => a.spawned
     /\ a.pc = "report" =>
          (a.finished <=> a.spawned) /\ (a.failed \/ a.spawned \/ ~a.available)

(* It tells where the task is, and the outcome it will be closed with.     *)
Stage(a) == IF ~a.spawned THEN "Setup" ELSE IF ~a.finished THEN "Running" ELSE "Cleanup"
Outcome(a) == IF a.spawned THEN tasks[a.sensor].snap.execution ELSE "SetupFailed"

Attends(w) ==
  LET a == worker[w]
      s == a.sensor
  IN /\ State(s) = Stage(a)
     /\ a.pc = "report" /\ a.spawned => tasks[s].snap.execution = Disposition(a)
     /\ a.pc \in {"launch", "wait", "finish", "report"} => a.prepared /\ status[s] = "none"
     /\ a.pc = "settle" /\ ReceiptCreated(a) =>
          Agrees(Outcome(a), status[s]) /\ (a.finished <=> a.spawned)
     /\ child[s] \in Alive =>
          a.pc = "wait" \/ (a.pc = "settle" /\ a.spawned /\ ~a.finished)

(* A sensor waits in one queue, or one worker has it.                      *)
OnePlace ==
  /\ queues.owner \cap queues.parallel = {}
  /\ \A s \in Waiting : State(s) = "ResourceWait"
  /\ \A v, w \in Workers :
       AtWork(v) /\ AtWork(w) /\ v # w => worker[v].sensor # worker[w].sensor

(* A sensor whose phase has not begun is untouched.                        *)
Unopened(s) == main = "start" \/ (main \in {"fast", "spawn"} /\ s \in LateSensors)

Opening ==
  /\ \A s \in Due : Unopened(s) => State(s) = "ResourceWait"
  /\ main = "start" => \A s \in Sensors : tasks[s].snap.receipt = "none"
  /\ main = "fast" => Waiting \cap LateSensors = {}

(* No queue is left while its sensors wait.                                *)
Manned ==
  /\ queues.owner # {} => worker[Owner].pc # "idle"
  /\ queues.parallel # {} => \E w \in Workers \ {Owner} : worker[w].pc # "idle"

(* Every sensor that is due is still to come, in hand, or accounted for.   *)
Conserved ==
  \A s \in Due :
    \/ main = "exited" \/ Unopened(s) \/ s \in Waiting \/ Accounted(s)
    \/ \E w \in Workers : AtWork(w) /\ worker[w].sensor = s

LedgerInv ==
  /\ Replays /\ OnePlace /\ Opening /\ Manned /\ Conserved
  /\ \A w \in Workers : AtWork(w) => Remembers(w) /\ Attends(w)
  /\ RunningIsAccounted /\ ReceiptsAgree
  /\ ledger = "written" => main = "exited"
  /\ WrittenIsSettled

(***************************************************************************)
(* A step of a worker on its sensor touches nothing else, so it keeps the  *)
(* invariant if it does so for that sensor and that worker.                *)
(***************************************************************************)
Only(w, s) ==
  /\ UNCHANGED run /\ main # "exited"
  /\ \A v \in Workers : v # w => worker'[v] = worker[v]
  /\ tasks' = [r \in Sensors |-> IF r = s THEN tasks'[s] ELSE tasks[r]]
  /\ status' = [r \in Sensors |-> IF r = s THEN status'[s] ELSE status[r]]
  /\ child' = [r \in Sensors |-> IF r = s THEN child'[s] ELSE child[r]]
  /\ degraded \subseteq degraded'

LEMMA WorkKeeps ==
    ASSUME PoolInv, LedgerInv, NEW w \in Workers, NEW s \in Sensors, Only(w, s),
           AtWork(w), worker[w].sensor = s, queues' = queues,
           worker'[w].pc # "idle", Heard(tasks'[s]),
           AtWork(w)' => worker'[w].sensor = s /\ Remembers(w)' /\ Attends(w)',
           ~AtWork(w)' => Accounted(s)',
           child'[s] \in Alive => State(s)' = "Running",
           tasks'[s].snap.receipt = "Created" => Agrees(tasks'[s].snap.execution, status'[s])
    PROVE  LedgerInv'
<1>. Owner \in Workers
  BY DEF Owner, Workers
<1>. UNCHANGED <<setup, main, late, proof, ledger, queues>> /\ main # "exited"
  BY DEF Only, run
<1>1. State(s) \in {"Setup", "Running", "Cleanup"}
  BY DEF LedgerInv, Attends, Stage
<1>2. Waiting' = Waiting /\ s \notin Waiting
  BY <1>1 DEF LedgerInv, OnePlace, Waiting
<1>3. \A r \in Sensors : r # s =>
        tasks'[r] = tasks[r] /\ status'[r] = status[r] /\ child'[r] = child[r]
  BY DEF Only
<1>4. \A v \in Workers : v # w => /\ worker'[v] = worker[v]
                                  /\ AtWork(v)' <=> AtWork(v)
                                  /\ AtWork(v) => /\ worker[v].sensor # s
                                                  /\ worker[v].sensor \in Sensors
  BY DEF Only, AtWork, PoolInv, Owned, LedgerInv, OnePlace
<1>5. Replays'
  BY <1>3 DEF Only, LedgerInv, Replays
<1>6. OnePlace'
  <2>1. \A r \in Waiting : r \in Sensors /\ r # s
    BY <1>2 DEF Waiting, PoolInv, PoolTyped
  <2>2. \A r \in Waiting : State(r)' = "ResourceWait"
    BY <1>3, <2>1 DEF State, LedgerInv, OnePlace
  <2>3. \A u, v \in Workers :
           (AtWork(u) /\ AtWork(v) /\ u # v)' => worker'[u].sensor # worker'[v].sensor
    BY <1>4 DEF LedgerInv, OnePlace
  <2>. QED BY <1>2, <2>2, <2>3 DEF LedgerInv, OnePlace
<1>7. Opening'
  <2>0. Due \subseteq Sensors /\ Due' = Due
    BY DEF Due, PoolInv, PoolTyped, Sensors
  <2>1. \A r \in Due : Unopened(r) => r # s /\ State(r)' = "ResourceWait"
    BY <1>1, <1>3, <2>0 DEF LedgerInv, Opening, State
  <2>2. main # "start"
    BY DEF PoolInv, InPhase, Drained, AtWork
  <2>. QED BY <1>2, <2>0, <2>1, <2>2 DEF LedgerInv, Opening, Unopened
<1>8. Manned'
  BY <1>4 DEF Only, LedgerInv, Manned
<1>9. Conserved'
  <2>. SUFFICES ASSUME NEW r \in Due', ~Unopened(r), r \notin Waiting,
                       ~\E v \in Workers : AtWork(v)' /\ worker'[v].sensor = r
                PROVE  Accounted(r)'
    BY <1>2 DEF Conserved, Unopened
  <2>0. r \in Due /\ r \in Sensors
    BY DEF Due, PoolInv, PoolTyped, Sensors
  <2>1. CASE r = s
    BY <2>1
  <2>2. CASE r # s
    <3>1. ~\E v \in Workers : AtWork(v) /\ worker[v].sensor = r
      BY <1>4, <2>2
    <3>2. Accounted(r)
      BY <3>1, <2>0 DEF LedgerInv, Conserved
    <3>. QED BY <3>2, <2>0, <2>2, <1>3 DEF Accounted, Only
  <2>. QED BY <2>1, <2>2
<1>10. \A v \in Workers : AtWork(v)' => Remembers(v)' /\ Attends(v)'
  <2>. SUFFICES ASSUME NEW v \in Workers, v # w, AtWork(v)'
                PROVE  Remembers(v)' /\ Attends(v)'
    OBVIOUS
  <2>1. AtWork(v) /\ worker'[v] = worker[v] /\ worker[v].sensor # s /\ worker[v].sensor \in Sensors
    BY <1>4
  <2>2. Remembers(v) /\ Attends(v)
    BY <2>1 DEF LedgerInv
  <2>3. Remembers(v)'
    BY <2>1, <2>2 DEF Remembers
  <2>4. Attends(v)'
    BY <2>1, <2>2, <1>3 DEF Attends, State, Outcome, ReceiptCreated
  <2>. QED BY <2>3, <2>4
<1>11. RunningIsAccounted'
  BY <1>3 DEF LedgerInv, RunningIsAccounted, Alive, State
<1>12. ReceiptsAgree'
  BY <1>3 DEF LedgerInv, ReceiptsAgree
<1>13. ledger # "written"
  BY DEF LedgerInv
<1>. QED BY <1>5, <1>6, <1>7, <1>8, <1>9, <1>10, <1>11, <1>12, <1>13 DEF LedgerInv, WrittenIsSettled

LEMMA Launched ==
    ASSUME PoolInv, LedgerInv, NEW w \in Workers, Launch(w)
    PROVE  LedgerInv'
<1>. DEFINE a == worker[w]
            s == a.sensor
<1>1. AtWork(w) /\ s \in Sensors /\ a \in Attempt
  BY DEF Launch, At, AtWork, PoolInv, PoolTyped, Owned
<1>2. Remembers(w) /\ Attends(w) /\ a.pc = "launch"
  BY <1>1 DEF Launch, At, LedgerInv
<1>3. /\ worker' = [worker EXCEPT ![w] = worker'[w]]
      /\ worker'[w].pc = "wait" /\ worker'[w].spawned /\ worker'[w].sensor = s
      /\ worker'[w].prepared = a.prepared /\ worker'[w].available = a.available
      /\ worker'[w].finished = a.finished /\ worker'[w].failed = a.failed
      /\ worker'[w].timed_out = a.timed_out
  BY <1>1 DEF Launch, PoolInv, PoolTyped, Attempt
<1>4. /\ tasks' = [r \in Sensors |-> IF r = s THEN tasks'[s] ELSE tasks[r]]
      /\ Heard(tasks'[s]) /\ tasks'[s].snap.state = "Running"
  <2>1. tasks = [r \in Sensors |-> tasks[r]] /\ Heard(tasks[s])
    BY <1>1 DEF LedgerInv, Replays
  <2>2. CASE a.spawned
    BY <1>2, <2>1, <2>2 DEF Launch, Attends, Stage, State, Remembers
  <2>3. CASE ~a.spawned
    <3>1. tasks[s].snap.state = "Setup"
      BY <1>2, <2>3 DEF Attends, Stage, State
    <3>2. PICK t \in Fed(tasks[s], <<Event("RunStarted")>>) : tasks' = [tasks EXCEPT ![s] = t]
      BY <2>3 DEF Launch, Record
    <3>3. Heard(t) /\ t.snap.state = "Running"
      BY <2>1, <3>1, StartHeard
    <3>. QED BY <1>1, <2>1, <3>2, <3>3
  <2>. QED BY <2>2, <2>3
<1>5. Only(w, s)
  BY <1>1, <1>4 DEF Only, Launch, At, PoolInv, PoolTyped, LedgerInv, Replays, run
<1>6. child' = [child EXCEPT ![s] = "running"] /\ queues' = queues /\ status' = status
  BY DEF Launch
<1>7. AtWork(w)'
  BY <1>3 DEF AtWork
<1>8. Remembers(w)'
  BY <1>2, <1>3 DEF Remembers
<1>9. Attends(w)'
  BY <1>2, <1>3, <1>4, <1>6 DEF Attends, State, Stage, Remembers
<1>10. tasks'[s].snap.receipt = "none"
  BY <1>4 DEF Heard, Sound
<1>. QED BY <1>1, <1>3, <1>4, <1>5, <1>6, <1>7, <1>8, <1>9, <1>10, WorkKeeps DEF State

LEMMA Prepared ==
    ASSUME PoolInv, LedgerInv, NEW w \in Workers, Prepare(w)
    PROVE  LedgerInv'
<1>. DEFINE a == worker[w]
            s == a.sensor
            b == worker'[w]
<1>1. AtWork(w) /\ s \in Sensors /\ a \in Attempt /\ a.pc = "prepare"
  BY DEF Prepare, At, AtWork, PoolInv, PoolTyped, Owned
<1>2. Remembers(w) /\ Attends(w)
  BY <1>1 DEF LedgerInv
<1>3. /\ b.sensor = s /\ b.spawned = a.spawned /\ b.finished = a.finished
      /\ b.failed = a.failed /\ b.timed_out = a.timed_out
      /\ \/ /\ b.prepared /\ status' = [status EXCEPT ![s] = "none"]
            /\ (b.pc = "launch" /\ b.available) \/ (b.pc = "report" /\ ~b.available)
         \/ /\ b.pc = "settle" /\ b.prepared = a.prepared /\ b.available = a.available
            /\ status' = status
  <2>1. ASSUME NEW v \in BOOLEAN,
               worker' = [worker EXCEPT ![w].pc = IF v THEN "launch" ELSE "report",
                                        ![w].prepared = TRUE, ![w].available = v]
        PROVE  /\ b.sensor = s /\ b.spawned = a.spawned /\ b.finished = a.finished
               /\ b.failed = a.failed /\ b.timed_out = a.timed_out /\ b.prepared
               /\ (b.pc = "launch" /\ b.available) \/ (b.pc = "report" /\ ~b.available)
    <3>. DEFINE pc == IF v THEN "launch" ELSE "report"
    <3>1. b = [a EXCEPT !.pc = pc, !.prepared = TRUE, !.available = v]
      BY <2>1 DEF PoolInv, PoolTyped
    <3>2. (pc = "launch" /\ v) \/ (pc = "report" /\ ~v)
      OBVIOUS
    <3>. HIDE DEF pc
    <3>. QED BY <1>1, <3>1, <3>2 DEF Attempt
  <2>2. ASSUME worker' = [worker EXCEPT ![w].pc = "settle"]
        PROVE  /\ b.sensor = s /\ b.spawned = a.spawned /\ b.finished = a.finished
               /\ b.failed = a.failed /\ b.timed_out = a.timed_out
               /\ b.pc = "settle" /\ b.prepared = a.prepared /\ b.available = a.available
    BY <1>1, <2>2 DEF PoolInv, PoolTyped, Attempt
  <2>3. \/ /\ status' = [status EXCEPT ![s] = "none"]
           /\ \E v \in BOOLEAN :
                worker' = [worker EXCEPT ![w].pc = IF v THEN "launch" ELSE "report",
                                         ![w].prepared = TRUE, ![w].available = v]
        \/ status' = status /\ worker' = [worker EXCEPT ![w].pc = "settle"]
    BY DEF Prepare
  <2>. HIDE DEF b
  <2>. QED BY <2>1, <2>2, <2>3
<1>4. UNCHANGED <<queues, child, tasks, degraded>>
      /\ \A v \in Workers : v # w => worker'[v] = worker[v]
  BY <1>1 DEF Prepare, PoolInv, PoolTyped
<1>5. Only(w, s)
  BY <1>1, <1>3, <1>4 DEF Only, Prepare, At, PoolInv, PoolTyped, LedgerInv, Replays, run
<1>6. AtWork(w)'
  BY <1>3 DEF AtWork
<1>7. Remembers(w)'
  BY <1>1, <1>2, <1>3 DEF Remembers
<1>8. Attends(w)'
  <2>1. status'[s] = "none" \/ (b.pc = "settle" /\ ~b.prepared)
    BY <1>1, <1>2, <1>3 DEF Remembers, LedgerInv, Replays
  <2>. QED BY <1>1, <1>2, <1>3, <1>4, <2>1 DEF Attends, Stage, State, Remembers, ReceiptCreated
<1>9. tasks'[s].snap.receipt = "none" /\ (child'[s] \notin Alive)
  BY <1>1, <1>2, <1>4 DEF Attends, Remembers, State, Stage, LedgerInv, Replays, Heard, Sound
<1>. QED
  BY <1>1, <1>3, <1>4, <1>5, <1>6, <1>7, <1>8, <1>9, WorkKeeps DEF AtWork, LedgerInv, Replays

LEMMA LaunchFailed ==
    ASSUME PoolInv, LedgerInv, NEW w \in Workers, FailLaunch(w)
    PROVE  LedgerInv'
<1>. DEFINE a == worker[w]
            s == a.sensor
            b == worker'[w]
<1>1. AtWork(w) /\ s \in Sensors /\ a \in Attempt /\ a.pc = "launch"
  BY DEF FailLaunch, At, AtWork, PoolInv, PoolTyped, Owned
<1>2. Remembers(w) /\ Attends(w)
  BY <1>1 DEF LedgerInv
<1>3. /\ b.sensor = s /\ b.spawned = a.spawned /\ b.finished = a.finished
      /\ b.prepared = a.prepared /\ b.available = a.available /\ b.timed_out = a.timed_out
      /\ a.failed => b.failed
      /\ IF a.spawned THEN b.pc \in {"launch", "finish"} ELSE b.pc = "report" /\ b.failed
  <2>. DEFINE f == IF Tolerated(w) THEN a.failed ELSE TRUE
              n == IF a.left = 0 THEN 0 ELSE a.left - 1
              pc == IF ~a.spawned THEN "report" ELSE After(w, FALSE)
  <2>1. b = [a EXCEPT !.failed = f, !.left = n, !.pc = pc]
    BY <1>1 DEF FailLaunch, PoolInv, PoolTyped
  <2>2. IF a.spawned THEN pc \in {"launch", "finish"} ELSE pc = "report" /\ f
    BY DEF After, Tolerated
  <2>3. a.failed => f
    OBVIOUS
  <2>. HIDE DEF f, n, pc
  <2>. QED BY <1>1, <2>1, <2>2, <2>3 DEF Attempt
<1>4. UNCHANGED <<queues, child, status, tasks, degraded>>
      /\ \A v \in Workers : v # w => worker'[v] = worker[v]
  BY <1>1 DEF FailLaunch, PoolInv, PoolTyped
<1>5. Only(w, s)
  BY <1>1, <1>4 DEF Only, FailLaunch, At, PoolInv, PoolTyped, LedgerInv, Replays, run
<1>6. AtWork(w)'
  BY <1>3 DEF AtWork
<1>7. Remembers(w)'
  BY <1>1, <1>2, <1>3 DEF Remembers
<1>8. Attends(w)'
  BY <1>1, <1>2, <1>3, <1>4 DEF Attends, Stage, State
<1>9. tasks'[s].snap.receipt = "none" /\ (child'[s] \notin Alive)
  BY <1>1, <1>2, <1>4 DEF Attends, Remembers, State, Stage, LedgerInv, Replays, Heard, Sound
<1>. QED
  BY <1>1, <1>3, <1>4, <1>5, <1>6, <1>7, <1>8, <1>9, WorkKeeps DEF AtWork, LedgerInv, Replays

LEMMA Collected ==
    ASSUME PoolInv, LedgerInv, NEW w \in Workers, Collect(w) \/ LoseChild(w)
    PROVE  LedgerInv'
<1>. DEFINE a == worker[w]
            s == a.sensor
            b == worker'[w]
<1>1. AtWork(w) /\ s \in Sensors /\ a \in Attempt /\ a.pc = "wait"
  BY DEF Collect, LoseChild, At, AtWork, PoolInv, PoolTyped, Owned
<1>2. Remembers(w) /\ Attends(w)
  BY <1>1 DEF LedgerInv
<1>3. /\ b.sensor = s /\ b.spawned = a.spawned /\ b.finished = a.finished
      /\ b.prepared = a.prepared /\ b.available = a.available
      /\ a.failed \/ b.timed_out # a.timed_out => b.failed
      /\ \/ b.pc \in {"launch", "finish"} /\ child' = [child EXCEPT ![s] = "reaped"]
         \/ b.pc = "settle" /\ child' = [child EXCEPT ![s] = "unconfirmed"]
  <2>1. CASE Collect(w)
    <3>1. PICK outcome \in {"success", "failure", "timeout"} :
           worker' = [worker EXCEPT
             ![w].failed = IF outcome # "success" /\ ~Tolerated(w) THEN TRUE ELSE @,
             ![w].timed_out = IF outcome = "timeout" /\ ~Tolerated(w) THEN TRUE ELSE @,
             ![w].left = IF @ = 0 THEN 0 ELSE @ - 1,
             ![w].pc = After(w, outcome # "success")]
      BY <2>1 DEF Collect
    <3>. DEFINE f == IF outcome # "success" /\ ~Tolerated(w) THEN TRUE ELSE a.failed
                t == IF outcome = "timeout" /\ ~Tolerated(w) THEN TRUE ELSE a.timed_out
                n == IF a.left = 0 THEN 0 ELSE a.left - 1
                pc == After(w, outcome # "success")
    <3>2. b = [a EXCEPT !.failed = f, !.timed_out = t, !.left = n, !.pc = pc]
      BY <3>1 DEF PoolInv, PoolTyped
    <3>3. pc \in {"launch", "finish"} /\ (a.failed \/ t # a.timed_out => f)
      BY DEF After
    <3>. HIDE DEF f, t, n, pc
    <3>. QED BY <1>1, <2>1, <3>2, <3>3 DEF Attempt, Collect
  <2>2. CASE LoseChild(w)
    BY <1>1, <2>2 DEF LoseChild, PoolInv, PoolTyped, Attempt
  <2>. QED BY <2>1, <2>2
<1>4. UNCHANGED <<queues, status, tasks, degraded>>
      /\ \A v \in Workers : v # w => worker'[v] = worker[v]
  BY <1>1 DEF Collect, LoseChild, PoolInv, PoolTyped
<1>5. Only(w, s)
  BY <1>1, <1>3, <1>4 DEF Only, Collect, LoseChild, At, PoolInv, PoolTyped, LedgerInv, Replays,
     run
<1>6. AtWork(w)'
  BY <1>3 DEF AtWork
<1>7. Remembers(w)'
  BY <1>1, <1>2, <1>3 DEF Remembers, Attempt
<1>8. tasks'[s].snap.state = "Running" /\ tasks'[s].snap.receipt = "none"
  BY <1>1, <1>2, <1>4 DEF Attends, Remembers, State, Stage, LedgerInv, Replays, Heard, Sound
<1>9. Attends(w)'
  BY <1>1, <1>2, <1>3, <1>4, <1>8 DEF Attends, Remembers, Stage, State, ReceiptCreated, Alive,
     PoolInv, PoolTyped
<1>. QED
  BY <1>1, <1>3, <1>4, <1>5, <1>6, <1>7, <1>8, <1>9, WorkKeeps
     DEF AtWork, LedgerInv, Replays, State

LEMMA Concludes ==
    ASSUME PoolInv, LedgerInv, NEW s \in Sensors, State(s) = "Running", NEW d,
           d # "SetupFailed", Record(s, <<Concluded(d)>>)
    PROVE  /\ tasks' = [r \in Sensors |-> IF r = s THEN tasks'[s] ELSE tasks[r]]
           /\ Heard(tasks'[s]) /\ tasks'[s].snap.state = "Cleanup"
           /\ tasks'[s].snap.execution = d
<1>1. PICK t \in Fed(tasks[s], <<Concluded(d)>>) : tasks' = [tasks EXCEPT ![s] = t]
  BY DEF Record
<1>2. tasks = [r \in Sensors |-> tasks[r]] /\ Heard(tasks[s])
  BY DEF LedgerInv, Replays
<1>3. Heard(t) /\ t.snap.state = "Cleanup" /\ t.snap.execution = d
  BY <1>2, ConclusionHeard DEF State
<1>. QED BY <1>1, <1>2, <1>3

LEMMA Broken ==
    ASSUME PoolInv, LedgerInv, NEW w \in Workers, BreakOff(w)
    PROVE  LedgerInv'
<1>. DEFINE a == worker[w]
            s == a.sensor
            b == worker'[w]
<1>1. AtWork(w) /\ s \in Sensors /\ a \in Attempt /\ a.pc \in {"launch", "finish"}
  BY DEF BreakOff, At, AtWork, PoolInv, PoolTyped, Owned
<1>2. Remembers(w) /\ Attends(w)
  BY <1>1 DEF LedgerInv
<1>3. /\ b.sensor = s /\ b.spawned = a.spawned /\ b.finished = a.spawned
      /\ b.prepared = a.prepared /\ b.available = a.available /\ b.timed_out = a.timed_out
      /\ b.failed /\ b.pc = "settle"
  BY <1>1 DEF BreakOff, PoolInv, PoolTyped, Attempt
<1>4. UNCHANGED <<queues, child, status, degraded>>
      /\ \A v \in Workers : v # w => worker'[v] = worker[v]
  BY <1>1 DEF BreakOff, PoolInv, PoolTyped
<1>5. /\ tasks' = [r \in Sensors |-> IF r = s THEN tasks'[s] ELSE tasks[r]]
      /\ Heard(tasks'[s])
      /\ tasks'[s].snap.state = IF a.spawned THEN "Cleanup" ELSE "Setup"
  <2>1. CASE a.spawned
    BY <1>1, <1>2, <2>1, Concludes DEF BreakOff, Attends, Stage, Remembers
  <2>2. CASE ~a.spawned
    BY <1>1, <1>2, <2>2 DEF BreakOff, Attends, Stage, State, LedgerInv, Replays
  <2>. QED BY <2>1, <2>2
<1>6. Only(w, s)
  BY <1>1, <1>4, <1>5 DEF Only, BreakOff, At, PoolInv, PoolTyped, LedgerInv, Replays, run
<1>7. AtWork(w)'
  BY <1>3 DEF AtWork
<1>8. Remembers(w)'
  BY <1>2, <1>3 DEF Remembers
<1>9. child'[s] \notin Alive /\ status'[s] = "none"
  BY <1>1, <1>2, <1>4 DEF Attends
<1>10. Attends(w)'
  BY <1>3, <1>5, <1>9 DEF Attends, Stage, State, ReceiptCreated
<1>11. tasks'[s].snap.receipt = "none"
  BY <1>5 DEF Heard, Sound
<1>. QED
  BY <1>1, <1>3, <1>4, <1>5, <1>6, <1>7, <1>8, <1>9, <1>10, <1>11, WorkKeeps

LEMMA Finished ==
    ASSUME PoolInv, LedgerInv, NEW w \in Workers, Finish(w)
    PROVE  LedgerInv'
<1>. DEFINE a == worker[w]
            s == a.sensor
            b == worker'[w]
<1>1. AtWork(w) /\ s \in Sensors /\ a \in Attempt /\ a.pc = "finish"
  BY DEF Finish, At, AtWork, PoolInv, PoolTyped, Owned
<1>2. Remembers(w) /\ Attends(w)
  BY <1>1 DEF LedgerInv
<1>3. /\ b.sensor = s /\ b.spawned = a.spawned /\ b.finished /\ b.failed = a.failed
      /\ b.prepared = a.prepared /\ b.available = a.available /\ b.timed_out = a.timed_out
      /\ b.pc = "report"
  BY <1>1 DEF Finish, PoolInv, PoolTyped, Attempt
<1>4. UNCHANGED <<queues, child, status, degraded>>
      /\ \A v \in Workers : v # w => worker'[v] = worker[v]
  BY <1>1 DEF Finish, PoolInv, PoolTyped
<1>5. /\ tasks' = [r \in Sensors |-> IF r = s THEN tasks'[s] ELSE tasks[r]]
      /\ Heard(tasks'[s]) /\ tasks'[s].snap.state = "Cleanup"
      /\ tasks'[s].snap.execution = Disposition(a)
  <2>1. State(s) = "Running" /\ Disposition(a) # "SetupFailed"
    BY <1>1, <1>2 DEF Attends, Stage, Remembers, Disposition
  <2>. QED BY <1>1, <2>1, Concludes DEF Finish
<1>6. Only(w, s)
  BY <1>1, <1>4, <1>5 DEF Only, Finish, At, PoolInv, PoolTyped, LedgerInv, Replays, run
<1>7. AtWork(w)'
  BY <1>3 DEF AtWork
<1>8. Remembers(w)'
  BY <1>1, <1>2, <1>3 DEF Remembers
<1>9. child'[s] \notin Alive
  BY <1>1, <1>2, <1>4 DEF Attends
<1>10. Attends(w)'
  BY <1>1, <1>2, <1>3, <1>4, <1>5, <1>9 DEF Attends, Stage, State, Remembers, Disposition
<1>11. tasks'[s].snap.receipt = "none"
  BY <1>5 DEF Heard, Sound
<1>. QED
  BY <1>1, <1>3, <1>4, <1>5, <1>6, <1>7, <1>8, <1>9, <1>10, <1>11, WorkKeeps

LEMMA Reported ==
    ASSUME PoolInv, LedgerInv, NEW w \in Workers, Report(w)
    PROVE  LedgerInv'
<1>. DEFINE a == worker[w]
            s == a.sensor
            b == worker'[w]
<1>1. AtWork(w) /\ s \in Sensors /\ a \in Attempt /\ a.pc = "report"
  BY DEF Report, At, AtWork, PoolInv, PoolTyped, Owned
<1>2. Remembers(w) /\ Attends(w)
  BY <1>1 DEF LedgerInv
<1>3. /\ b.sensor = s /\ b.spawned = a.spawned /\ b.finished = a.finished
      /\ b.failed = a.failed /\ b.prepared = a.prepared /\ b.available = a.available
      /\ b.timed_out = a.timed_out /\ b.pc = "settle"
  BY <1>1 DEF Report, PoolInv, PoolTyped, Attempt
<1>4. UNCHANGED <<queues, child, tasks, degraded>>
      /\ \A v \in Workers : v # w => worker'[v] = worker[v]
  BY <1>1 DEF Report, PoolInv, PoolTyped
<1>5. status = [r \in Sensors |-> status[r]] /\ tasks = [r \in Sensors |-> tasks[r]]
      /\ Heard(tasks[s])
  BY <1>1 DEF LedgerInv, Replays
<1>6. Only(w, s)
  BY <1>1, <1>4, <1>5 DEF Only, Report, At, PoolInv, PoolTyped, run
<1>7. AtWork(w)'
  BY <1>3 DEF AtWork
<1>8. Remembers(w)'
  BY <1>1, <1>2, <1>3 DEF Remembers
<1>9. child'[s] \notin Alive
  BY <1>1, <1>2, <1>4 DEF Attends
<1>10. Attends(w)'
  <2>1. status'[s] \in {"none", StatusWord(a)}
    BY <1>1, <1>2, <1>5 DEF Report, Attends
  <2>2. Agrees(Outcome(a), StatusWord(a))
    <3>1. CASE a.spawned
      BY <1>1, <1>2, <3>1 DEF Agrees, Outcome, StatusWord, Attends, Remembers, Disposition
    <3>2. CASE ~a.spawned
      BY <1>1, <1>2, <3>2 DEF Agrees, Outcome, StatusWord, Remembers
    <3>. QED BY <3>1, <3>2
  <2>3. Outcome(worker[w])' = Outcome(a)
    BY <1>3, <1>4 DEF Outcome
  <2>4. ReceiptCreated(worker[w])' => Agrees(Outcome(worker[w])', status'[s])
    BY <1>3, <2>1, <2>2, <2>3 DEF ReceiptCreated
  <2>5. State(s)' = Stage(worker[w])' /\ (b.finished <=> b.spawned)
    BY <1>1, <1>2, <1>3, <1>4 DEF Attends, Stage, State, Remembers
  <2>. QED BY <1>3, <1>9, <2>4, <2>5 DEF Attends
<1>11. tasks'[s].snap.receipt = "none"
  BY <1>1, <1>2, <1>4, <1>5 DEF Heard, Sound, Attends, State, Stage
<1>. QED
  BY <1>1, <1>3, <1>4, <1>5, <1>6, <1>7, <1>8, <1>9, <1>10, <1>11, WorkKeeps

LEMMA Closed ==
    ASSUME PoolInv, LedgerInv, NEW w \in Workers, Settle(w)
    PROVE  LedgerInv'
<1>. DEFINE a == worker[w]
            created == ReceiptCreated(a)
            lost == a.spawned /\ ~a.finished
<1>0. AtWork(w) /\ a.sensor \in Sensors
  BY DEF Settle, At, AtWork, PoolInv, Owned
<1>. PICK s \in Sensors : s = a.sensor
  BY <1>0
<1>. DEFINE t == tasks'[s]
<1>1. AtWork(w) /\ s = a.sensor /\ a \in Attempt /\ a.pc = "settle"
  BY <1>0 DEF Settle, At, PoolInv, PoolTyped
<1>2. Remembers(w) /\ Attends(w)
  BY <1>1 DEF LedgerInv
<1>3. worker'[w].pc = "take" /\ (\A v \in Workers : v # w => worker'[v] = worker[v])
      /\ UNCHANGED <<queues, child, status>>
  BY DEF Settle, PoolInv, PoolTyped, Ready, Idle
<1>4. /\ tasks = [r \in Sensors |-> tasks[r]] /\ status = [r \in Sensors |-> status[r]]
      /\ Heard(tasks[s])
  BY <1>1 DEF LedgerInv, Replays
<1>5. PICK u \in Fed(tasks[s], ClosingEvents(a)) : tasks' = [tasks EXCEPT ![s] = u]
  BY DEF Settle, Record
<1>6. /\ tasks' = [r \in Sensors |-> IF r = s THEN t ELSE tasks[r]] /\ t = u
  BY <1>1, <1>4, <1>5
<1>7. tasks[s].snap.state = Stage(a)
  BY <1>2 DEF Attends, State
<1>8. CASE lost
  <2>1. ClosingEvents(a) = << >>
    BY <1>8 DEF ClosingEvents
  <2>2. t = tasks[s]
    BY <1>5, <1>6, <2>1, FedNone
  <2>3. Heard(t) /\ t.snap.state = "Running" /\ t.snap.receipt = "none"
    BY <1>4, <1>7, <1>8, <2>2 DEF Stage, Heard, Sound
  <2>4. s \in degraded' /\ degraded \subseteq degraded'
    BY <1>8 DEF Settle
  <2>5. Only(w, s)
    BY <1>1, <1>3, <1>4, <1>6, <2>4 DEF Only, Settle, At, PoolInv, PoolTyped, run
  <2>6. Accounted(s)' /\ State(s)' = "Running"
    BY <2>3, <2>4 DEF Accounted, State
  <2>. QED BY <1>1, <1>3, <2>3, <2>5, <2>6, WorkKeeps DEF AtWork
<1>9. CASE ~lost
  <2>1. /\ Heard(t) /\ t.snap.state = "ResourcesReleased"
        /\ (t.snap.receipt = "Created") <=> created
        /\ t.snap.execution = Outcome(a)
    <3>0. created \in BOOLEAN
      BY DEF ReceiptCreated
    <3>. HIDE DEF created
    <3>1. CASE a.spawned
      <4>1. ClosingEvents(a) = <<Event("CleanupFinished")>> \o ReceiptEvents(created)
        BY <1>9, <3>1 DEF ClosingEvents, created
      <4>2. tasks[s].snap.state = "Cleanup"
        BY <1>7, <1>9, <3>1 DEF Stage
      <4>3. u \in Fed(tasks[s], <<Event("CleanupFinished")>> \o ReceiptEvents(created))
        BY <1>5, <4>1
      <4>4. /\ Heard(u) /\ u.snap.state = "ResourcesReleased"
            /\ (u.snap.receipt = "Created") <=> created
            /\ u.snap.execution = tasks[s].snap.execution
        BY <1>4, <3>0, <4>2, <4>3, ClosingHeard
      <4>. QED BY <1>1, <1>6, <3>1, <4>4 DEF Outcome
    <3>2. CASE ~a.spawned
      <4>1. ClosingEvents(a) = <<Event("SetupFailed")>> \o ReceiptEvents(created)
        BY <1>9, <3>2 DEF ClosingEvents, created
      <4>2. tasks[s].snap.state = "Setup"
        BY <1>7, <3>2 DEF Stage
      <4>3. u \in Fed(tasks[s], <<Event("SetupFailed")>> \o ReceiptEvents(created))
        BY <1>5, <4>1
      <4>4. /\ Heard(u) /\ u.snap.state = "ResourcesReleased"
            /\ (u.snap.receipt = "Created") <=> created
            /\ u.snap.execution = "SetupFailed"
        BY <1>4, <3>0, <4>2, <4>3, ClosingHeard
      <4>. QED BY <1>1, <1>6, <3>2, <4>4 DEF Outcome
    <3>. QED BY <3>1, <3>2
  <2>2. (created \/ s \in degraded') /\ degraded \subseteq degraded'
    BY DEF Settle
  <2>3. Only(w, s)
    BY <1>1, <1>3, <1>4, <1>6, <2>2 DEF Only, Settle, At, PoolInv, PoolTyped, run
  <2>4. Accounted(s)'
    BY <2>1, <2>2 DEF Accounted
  <2>5. child'[s] \notin Alive
    BY <1>1, <1>2, <1>3, <1>9 DEF Attends
  <2>6. t.snap.receipt = "Created" => Agrees(t.snap.execution, status'[s])
    BY <1>1, <1>2, <1>3, <2>1 DEF Attends
  <2>. QED BY <1>1, <1>3, <2>1, <2>3, <2>4, <2>5, <2>6, WorkKeeps DEF AtWork
<1>. QED BY <1>8, <1>9

(* A worker whose queue is empty goes home; nobody is left to wait for it. *)
LEMMA WentHome ==
    ASSUME PoolInv, LedgerInv, NEW w \in Workers, At(w, "take"), queues[QueueOf(w)] = {},
           worker' = [worker EXCEPT ![w] = Idle],
           UNCHANGED <<run, queues, child, status, tasks, degraded>>
    PROVE  LedgerInv'
<1>1. /\ worker'[w].pc = "idle" /\ worker[w].pc = "take"
      /\ \A v \in Workers : v # w => worker'[v] = worker[v]
  BY DEF At, PoolInv, PoolTyped, Idle
<1>2. \A v \in Workers : AtWork(v)' <=> AtWork(v) /\ v # w
  BY <1>1 DEF AtWork
<1>3. OnePlace' /\ Opening' /\ Conserved'
  <2>1. OnePlace'
    BY <1>1, <1>2 DEF LedgerInv, OnePlace, Waiting, State
  <2>2. Opening'
    BY DEF LedgerInv, Opening, Waiting, State, Due, Unopened, run
  <2>3. Waiting' = Waiting /\ Due' = Due /\ main' = main
        /\ \A s : (Unopened(s)' <=> Unopened(s)) /\ (Accounted(s)' <=> Accounted(s))
    BY DEF Waiting, Due, Unopened, Accounted, run
  <2>4. \A v \in Workers : AtWork(v) => AtWork(v)' /\ worker'[v] = worker[v]
    BY <1>1, <1>2 DEF AtWork
  <2>5. Conserved'
    BY <2>3, <2>4 DEF LedgerInv, Conserved
  <2>. QED BY <2>1, <2>2, <2>5
<1>4. Manned'
  BY <1>1 DEF LedgerInv, Manned, QueueOf
<1>5. \A v \in Workers : AtWork(v)' => Remembers(v)' /\ Attends(v)'
  <2>. SUFFICES ASSUME NEW v \in Workers, AtWork(v)' PROVE Remembers(v)' /\ Attends(v)'
    OBVIOUS
  <2>1. worker'[v] = worker[v] /\ Remembers(v) /\ Attends(v)
    BY <1>1, <1>2 DEF LedgerInv
  <2>. QED BY <2>1 DEF Remembers, Attends, State, Outcome, ReceiptCreated
<1>6. (Replays /\ RunningIsAccounted /\ ReceiptsAgree /\ WrittenIsSettled)'
  BY DEF LedgerInv, Replays, RunningIsAccounted, ReceiptsAgree, WrittenIsSettled, Settled, run
<1>7. (ledger = "written" => main = "exited")'
  BY DEF LedgerInv, run
<1>. QED BY <1>3, <1>4, <1>5, <1>6, <1>7 DEF LedgerInv

LEMMA TookOne ==
    ASSUME PoolInv, LedgerInv, NEW w \in Workers, At(w, "take"), NEW s \in queues[QueueOf(w)],
           queues' = [queues EXCEPT ![QueueOf(w)] = queues[QueueOf(w)] \ {s}],
           worker' = [worker EXCEPT ![w] = [Ready EXCEPT !.pc = "prepare", !.sensor = s,
                                                        !.left = Subcommands[s]]],
           Record(s, AdmitAndSetup), UNCHANGED <<run, child, status, degraded>>
    PROVE  LedgerInv'
<1>. UNCHANGED <<setup, main, late, proof, ledger, child, status, degraded>>
  BY DEF run
<1>1. /\ worker'[w].pc = "prepare" /\ worker'[w].sensor = s /\ ~worker'[w].spawned
      /\ ~worker'[w].finished /\ ~worker'[w].timed_out /\ ~worker'[w].prepared
      /\ worker[w].pc = "take" /\ main # "exited"
      /\ \A v \in Workers : v # w => worker'[v] = worker[v]
  <2>. DEFINE b == [Ready EXCEPT !.pc = "prepare", !.sensor = s, !.left = Subcommands[s]]
  <2>1. /\ b.pc = "prepare" /\ b.sensor = s /\ ~b.spawned /\ ~b.finished /\ ~b.timed_out
        /\ ~b.prepared
    BY DEF Ready, Idle
  <2>. HIDE DEF b
  <2>2. worker' = [worker EXCEPT ![w] = b]
    BY DEF b
  <2>. QED BY <2>1, <2>2 DEF At, PoolInv, PoolTyped
<1>2. /\ s \in Waiting /\ s \in Sensors /\ s \notin Waiting'
      /\ Waiting' = Waiting \ {s} /\ queues'.owner \subseteq queues.owner
      /\ queues'.parallel \subseteq queues.parallel
  <2>1. CASE w = Owner
    BY <2>1 DEF QueueOf, Waiting, PoolInv, PoolTyped, LedgerInv, OnePlace
  <2>2. CASE w # Owner
    BY <2>2 DEF QueueOf, Waiting, PoolInv, PoolTyped, LedgerInv, OnePlace
  <2>. QED BY <2>1, <2>2
<1>3. /\ tasks' = [r \in Sensors |-> IF r = s THEN tasks'[s] ELSE tasks[r]]
      /\ Heard(tasks'[s]) /\ tasks'[s].snap.state = "Setup"
      /\ tasks[s].snap.state = "ResourceWait"
  <2>1. tasks = [r \in Sensors |-> tasks[r]] /\ Heard(tasks[s])
        /\ tasks[s].snap.state = "ResourceWait"
    BY <1>2 DEF LedgerInv, Replays, OnePlace, State
  <2>2. PICK t \in Fed(tasks[s], AdmitAndSetup) : tasks' = [tasks EXCEPT ![s] = t]
    BY DEF Record
  <2>3. Heard(t) /\ t.snap.state = "Setup"
    BY <2>1, AdmissionHeard
  <2>. QED BY <1>2, <2>1, <2>2, <2>3
<1>4. \A r \in Sensors : r # s => tasks'[r] = tasks[r]
  BY <1>3
<1>5. /\ AtWork(w)' /\ ~AtWork(w)
      /\ \A v \in Workers : v # w => (AtWork(v)' <=> AtWork(v))
      /\ \A v \in Workers : AtWork(v) => worker[v].sensor # s /\ worker[v].sensor \in Sensors
  BY <1>1, <1>3 DEF AtWork, PoolInv, Owned, LedgerInv, Attends, State, Stage
<1>6. Replays'
  BY <1>3 DEF LedgerInv, Replays
<1>7. OnePlace'
  <2>1. \A r \in Waiting' : State(r)' = "ResourceWait"
    BY <1>2, <1>4 DEF LedgerInv, OnePlace, State, PoolInv, PoolTyped, Waiting
  <2>2. \A u, v \in Workers :
           (AtWork(u) /\ AtWork(v) /\ u # v)' => worker'[u].sensor # worker'[v].sensor
    BY <1>1, <1>5 DEF LedgerInv, OnePlace
  <2>. QED BY <1>2, <2>1, <2>2 DEF LedgerInv, OnePlace
<1>8. Opening'
  <2>0. Due \subseteq Sensors /\ Due' = Due
    BY DEF Due, PoolInv, PoolTyped, Sensors
  <2>1. main = "fast" \/ main \notin {"start", "spawn"}
    BY <1>1 DEF PoolInv, InPhase, Drained
  <2>2. \A r \in Due : Unopened(r) => r # s
    BY <1>2, <2>1 DEF Unopened, LedgerInv, Opening
  <2>. QED BY <1>2, <1>4, <2>0, <2>1, <2>2 DEF LedgerInv, Opening, Unopened, State
<1>9. Manned'
  BY <1>1, <1>2 DEF LedgerInv, Manned
<1>10. Conserved'
  <2>0. Due \subseteq Sensors /\ Due' = Due
    BY DEF Due, PoolInv, PoolTyped, Sensors
  <2>. SUFFICES ASSUME NEW r \in Due, ~Unopened(r), r \notin Waiting \ {s}, r # s,
                       ~\E v \in Workers : AtWork(v) /\ worker[v].sensor = r
                PROVE  Accounted(r)'
    BY <1>1, <1>2, <1>5, <2>0 DEF Conserved, Unopened
  <2>1. Accounted(r)
    BY <1>1 DEF LedgerInv, Conserved
  <2>. QED BY <1>4, <2>0, <2>1 DEF Accounted
<1>11. \A v \in Workers : AtWork(v)' => Remembers(v)' /\ Attends(v)'
  <2>1. CASE child[s] \in Alive
    BY <1>2, <1>3, <2>1 DEF LedgerInv, RunningIsAccounted, Alive
  <2>2. CASE child[s] \notin Alive
    <3>1. Remembers(w)' /\ Attends(w)'
      BY <1>1, <1>3, <2>2 DEF Remembers, Attends, State, Stage
    <3>2. ASSUME NEW v \in Workers, v # w, AtWork(v)'
          PROVE  Remembers(v)' /\ Attends(v)'
      <4>1. /\ worker'[v] = worker[v] /\ Remembers(v) /\ Attends(v)
            /\ tasks'[worker[v].sensor] = tasks[worker[v].sensor]
        BY <1>1, <1>4, <1>5, <3>2 DEF LedgerInv
      <4>. QED BY <4>1 DEF Remembers, Attends, State, Outcome, ReceiptCreated
    <3>. QED BY <3>1, <3>2
  <2>. QED BY <2>1, <2>2
<1>12. RunningIsAccounted'
  BY <1>3, <1>4 DEF LedgerInv, RunningIsAccounted
<1>13. ReceiptsAgree'
  BY <1>3, <1>4 DEF LedgerInv, ReceiptsAgree, Heard, Sound
<1>14. ledger # "written"
  BY <1>1 DEF LedgerInv
<1>. QED
  BY <1>6, <1>7, <1>8, <1>9, <1>10, <1>11, <1>12, <1>13, <1>14 DEF LedgerInv, WrittenIsSettled

LEMMA WorkerKeepsLedger ==
    ASSUME PoolInv, LedgerInv, NEW w \in Workers, WorkerStep(w)
    PROVE  LedgerInv'
<1>1. CASE Take(w)
  <2>1. CASE queues[QueueOf(w)] = {}
    BY <1>1, <2>1, WentHome DEF Take
  <2>2. CASE queues[QueueOf(w)] # {}
    BY <1>1, <2>2, TookOne DEF Take
  <2>. QED BY <2>1, <2>2
<1>2. CASE Prepare(w) \/ Launch(w) \/ FailLaunch(w) \/ Collect(w) \/ LoseChild(w)
  BY <1>2, Prepared, Launched, LaunchFailed, Collected
<1>3. CASE BreakOff(w) \/ Finish(w) \/ Report(w) \/ Settle(w)
  BY <1>3, Broken, Finished, Reported, Closed
<1>. QED BY <1>1, <1>2, <1>3 DEF WorkerStep

(***************************************************************************)
(* The steps of the run.  A pool is opened for its sensors with a worker   *)
(* for each queue that is not empty.                                       *)
(***************************************************************************)
LEMMA ChosenFinite ==
    ASSUME PoolInv, NEW b \in BOOLEAN
    PROVE  IsFiniteSet(Chosen(b)) /\ Chosen(b) \subseteq Due /\ Due \subseteq Sensors
<1>1. setup \in Setups /\ setup.plan \in Seq(Planned(setup))
  BY PlanIsList DEF PoolInv, PoolTyped
<1>2. IsFiniteSet(1 .. Len(setup.plan))
  BY <1>1, FS_Interval
<1>. DEFINE I == 1 .. Len(setup.plan)
            P == {setup.plan[i] : i \in I}
<1>3. Planned(setup) = P
  BY <1>1 DEF Planned
<1>4. IsFiniteSet(Planned(setup))
  <2>1. [i \in I |-> setup.plan[i]] \in Surjection(I, P)
    BY DEF Surjection
  <2>. HIDE DEF I, P
  <2>. QED BY <1>2, <1>3, <2>1, FS_Surjection DEF I
<1>. QED BY <1>1, <1>4, FS_Subset DEF Chosen, Due, Sensors

LEMMA SomeJobs ==
    ASSUME NEW S, IsFiniteSet(S), S # {}
    PROVE  /\ JobCount(S) \in Nat \ {0}
           /\ PoolWorkerCount(JobCount(S), S) \in Nat \ {0}
<1>1. Cardinality(S) \in Nat \ {0} /\ Cardinality(S \ CargoSensors) \in Nat
  BY FS_CardinalityType, FS_EmptySet, FS_Subset
<1>2. JobCount(S) \in Nat \ {0}
  BY <1>1 DEF JobCount, Least
<1>3. CASE S \cap CargoSensors = {}
  <2>1. S \ CargoSensors = S
    BY <1>3
  <2>2. PoolWorkerCount(JobCount(S), S) = 0 + Least(JobCount(S) - 0, Cardinality(S))
    BY <1>3, <2>1 DEF PoolWorkerCount
  <2>. QED BY <1>1, <1>2, <2>2 DEF Least
<1>4. CASE S \cap CargoSensors # {}
  BY <1>1, <1>2, <1>4 DEF PoolWorkerCount, Least
<1>. QED BY <1>2, <1>3, <1>4

LEMMA PoolOpened ==
    ASSUME PoolInv, LedgerInv, Drained, UNCHANGED <<setup, tasks>>, NEW S \in SUBSET Due,
           IsFiniteSet(S), \A s \in S : State(s) = "ResourceWait",
           \/ S = {} /\ UNCHANGED <<queues, worker>>
           \/ \E jobs \in Nat \ {0} : OpenPool(S, jobs)
    PROVE  /\ OnePlace' /\ Manned' /\ Waiting' = S
           /\ \A w \in Workers : ~AtWork(w) /\ ~AtWork(w)'
<1>. Owner \in Workers /\ 1 \in Workers /\ Owner # 1
  BY DEF Owner, Workers
<1>0. \A w \in Workers : ~AtWork(w)
  BY DEF Drained, AtWork
<1>1. CASE S = {} /\ UNCHANGED <<queues, worker>>
  <2>1. Waiting = {}
    BY DEF LedgerInv, Manned, Drained, Waiting
  <2>. QED BY <1>0, <1>1, <2>1 DEF LedgerInv, Manned, OnePlace, Waiting, AtWork
<1>2. ASSUME NEW jobs \in Nat \ {0}, OpenPool(S, jobs)
      PROVE  /\ OnePlace' /\ Manned' /\ Waiting' = S
             /\ \A w \in Workers : ~AtWork(w)'
  <2>. DEFINE owned == IF jobs = 1 THEN S ELSE S \cap CargoSensors
              parallel == S \ owned
              owners == IF owned = {} THEN 0 ELSE 1
              helpers == Least(jobs - owners, Cardinality(parallel))
  <2>1. /\ queues' = [owner |-> owned, parallel |-> parallel]
        /\ \A w \in Workers :
             worker'[w] = IF (w = Owner /\ owners = 1) \/ w \in 1 .. helpers
                          THEN Ready ELSE Idle
    BY <1>2 DEF OpenPool
  <2>2. Ready.pc = "take" /\ Idle.pc = "idle"
    BY DEF Ready, Idle
  <2>3. \A w \in Workers : ~AtWork(w)'
    BY <2>1, <2>2 DEF AtWork
  <2>4. parallel # {} => helpers >= 1
    <3>. SUFFICES ASSUME parallel # {} PROVE helpers >= 1
      OBVIOUS
    <3>1. Cardinality(parallel) \in Nat \ {0}
      BY FS_CardinalityType, FS_EmptySet, FS_Subset
    <3>2. jobs # 1
      OBVIOUS
    <3>3. jobs - owners >= 1
      BY <3>2
    <3>. HIDE DEF parallel, owners
    <3>. QED BY <3>1, <3>3 DEF Least
  <2>5. Cardinality(parallel) \in Nat
    BY FS_CardinalityType, FS_Subset
  <2>6. helpers \in Int
    <3>. HIDE DEF parallel
    <3>. QED BY <2>5 DEF Least
  <2>7. Waiting' = S /\ queues'.owner \cap queues'.parallel = {}
    BY <2>1 DEF Waiting
  <2>8. OnePlace'
    BY <2>3, <2>7 DEF OnePlace, State
  <2>9. Manned'
    <3>1. queues'.owner # {} => worker'[Owner].pc # "idle"
      BY <2>1, <2>2
    <3>2. queues'.parallel # {} => worker'[1].pc # "idle"
      <4>. HIDE DEF helpers
      <4>. QED BY <2>1, <2>2, <2>4, <2>6
    <3>. QED BY <3>1, <3>2 DEF Manned
  <2>. QED BY <2>3, <2>7, <2>8, <2>9
<1>. QED BY <1>0, <1>1, <1>2

LEMMA RunKeepsLedger ==
    ASSUME PoolInv, LedgerInv, RunStep \/ LateEnds \/ StartProof \/ EndProof
    PROVE  LedgerInv'
<1>. Due \subseteq Sensors
  BY ChosenFinite
<1>1. UNCHANGED <<setup, child, tasks, degraded>> /\ Due' = Due
  BY DEF Due, RunStep, StartFast, FastDone, SpawnLate, CollectContext, PrepareReview, FinishWave,
         AwaitProof, ReadEvidence, WriteLedger, Advance, LateEnds, StartProof, EndProof, work
<1>2. CASE StartFast \/ SpawnLate
  <2>. DEFINE isLate == main # "start"
  <2>0. /\ main \in {"start", "spawn"} /\ Drained
        /\ ledger' = ledger /\ ledger # "written"
    BY <1>2 DEF PoolInv, InPhase, StartFast, SpawnLate, LedgerInv
  <2>. PICK S \in SUBSET Due :
         /\ \/ S = {} /\ UNCHANGED <<queues, worker>>
            \/ \E jobs \in Nat \ {0} : OpenPool(S, jobs)
         /\ S = Chosen(isLate) \/ main' = "exited"
         /\ IsFiniteSet(S) /\ S \subseteq Chosen(isLate)
    <3>1. CASE StartFast
      BY <3>1, ChosenFinite, SomeJobs, FS_EmptySet DEF StartFast
    <3>2. CASE SpawnLate
      BY <3>2, ChosenFinite, SomeJobs, FS_EmptySet DEF SpawnLate
    <3>. QED BY <1>2, <3>1, <3>2
  <2>1. \A s \in Due : Unopened(s) <=> main = "start" \/ s \in Chosen(TRUE)
    BY <2>0 DEF Unopened, Chosen, Due
  <2>2. \A s \in S : State(s) = "ResourceWait"
    BY <2>0, <2>1 DEF LedgerInv, Opening
  <2>3. /\ OnePlace' /\ Manned' /\ Waiting' = S
        /\ \A w \in Workers : ~AtWork(w) /\ ~AtWork(w)'
    BY <1>1, <2>0, <2>2, PoolOpened
  <2>4. /\ main' \in {"fast", "context", "exited"}
        /\ main' = "fast" => main = "start"
        /\ main' = "context" => main = "spawn"
    BY <1>2 DEF StartFast, SpawnLate
  <2>5. Replays' /\ ReceiptsAgree' /\ RunningIsAccounted'
    <3>1. Replays' /\ ReceiptsAgree'
      <4>1. CASE StartFast
        BY <1>1, <4>1 DEF LedgerInv, Replays, StartFast, ReceiptsAgree, Opening
      <4>2. CASE SpawnLate
        BY <1>1, <4>2 DEF LedgerInv, Replays, SpawnLate, work, ReceiptsAgree
      <4>. QED BY <1>2, <4>1, <4>2
    <3>2. RunningIsAccounted'
      BY <1>1 DEF LedgerInv, RunningIsAccounted
    <3>. QED BY <3>1, <3>2
  <2>6. Opening'
    <3>1. \A s \in Due : Unopened(s)' => Unopened(s)
      BY <2>0, <2>4 DEF Unopened
    <3>2. main' = "fast" => S \cap LateSensors = {}
      BY <2>4 DEF Chosen
    <3>. QED BY <1>1, <2>3, <2>4, <3>1, <3>2 DEF LedgerInv, Opening, State
  <2>7. Conserved'
    <3>. SUFFICES ASSUME NEW s \in Due, main' # "exited", ~Unopened(s)', s \notin S
                  PROVE  Accounted(s)'
      BY <1>1, <2>3 DEF Conserved
    <3>1. ~Unopened(s)
      BY <2>0, <2>1, <2>4 DEF Unopened, Chosen, Due
    <3>2. Waiting = {}
      BY <2>0 DEF LedgerInv, Manned, Drained, Waiting, Owner, Workers
    <3>3. Accounted(s)
      BY <2>0, <2>3, <3>1, <3>2 DEF LedgerInv, Conserved
    <3>. QED BY <1>1, <3>3 DEF Accounted
  <2>. QED BY <2>0, <2>3, <2>5, <2>6, <2>7 DEF LedgerInv, WrittenIsSettled
<1>3. CASE ~(StartFast \/ SpawnLate)
  <2>1. UNCHANGED <<queues, worker, status>>
    BY <1>3 DEF RunStep, FastDone, CollectContext, PrepareReview, FinishWave, AwaitProof,
       ReadEvidence, WriteLedger, Advance, LateEnds, StartProof, EndProof, work
  <2>2. /\ main' = "start" => main = "start"
        /\ main' = "fast" => main = "fast"
        /\ main' # "exited" =>
             (main \in {"fast", "spawn"} <=> main' \in {"fast", "spawn"})
             /\ (main = "start" <=> main' = "start") /\ main # "exited"
    BY <1>3 DEF RunStep, FastDone, CollectContext, PrepareReview, FinishWave, AwaitProof,
       ReadEvidence, WriteLedger, Advance, LateEnds, StartProof, EndProof
  <2>3. Waiting' = Waiting /\ \A w \in Workers : AtWork(w)' <=> AtWork(w)
    BY <2>1 DEF Waiting, AtWork
  <2>4. OnePlace' /\ Manned' /\ Replays' /\ ReceiptsAgree' /\ RunningIsAccounted'
    BY <1>1, <2>1, <2>3 DEF LedgerInv, OnePlace, Manned, Replays, ReceiptsAgree,
       RunningIsAccounted, State
  <2>5. Opening'
    BY <1>1, <2>2, <2>3 DEF LedgerInv, Opening, Unopened, State
  <2>6. Conserved'
    <3>1. \A s : main' # "exited" => (Unopened(s)' <=> Unopened(s))
      BY <2>2 DEF Unopened
    <3>2. \A s : Accounted(s)' <=> Accounted(s)
      BY <1>1 DEF Accounted
    <3>. QED BY <1>1, <2>1, <2>2, <2>3, <3>1, <3>2 DEF LedgerInv, Conserved
  <2>7. \A w \in Workers : AtWork(w)' => Remembers(w)' /\ Attends(w)'
    BY <1>1, <2>1, <2>3 DEF LedgerInv, Remembers, Attends, State, Outcome, ReceiptCreated
  <2>8. (ledger = "written" => main = "exited")' /\ WrittenIsSettled'
    <3>1. CASE WriteLedger
      <4>1. ledger' = "written" => Replayable /\ main' = "exited"
        BY <3>1 DEF WriteLedger, LedgerInv
      <4>2. \A s \in Sensors : child[s] \in {"running", "unconfirmed"} => ~Settled(tasks[s])
        BY DEF LedgerInv, RunningIsAccounted, Settled
      <4>3. Planned(setup) \subseteq Sensors
        BY DEF PoolInv, PoolTyped, Sensors
      <4>4. Planned(setup)' = Planned(setup)
        BY <1>1 DEF Planned
      <4>. QED BY <1>1, <4>1, <4>2, <4>3, <4>4 DEF WrittenIsSettled, Replayable, Settled
    <3>2. CASE ~WriteLedger
      <4>1. ledger' = ledger /\ (main = "exited" => main' = "exited")
        BY <1>3, <3>2 DEF RunStep, FastDone, CollectContext, PrepareReview, FinishWave,
           AwaitProof, ReadEvidence, Advance, LateEnds, StartProof, EndProof
      <4>. QED BY <1>1, <4>1 DEF LedgerInv, WrittenIsSettled, Settled, Planned
    <3>. QED BY <3>1, <3>2
  <2>. QED BY <2>4, <2>5, <2>6, <2>7, <2>8 DEF LedgerInv
<1>. QED BY <1>2, <1>3

LEMMA LedgerInitially == Init => LedgerInv
<1>. SUFFICES ASSUME Init PROVE LedgerInv
  OBVIOUS
<1>. Due \subseteq Sensors
  BY DEF Init, Due, Sensors
<1>1. ASSUME NEW s \in Sensors
      PROVE  Heard(tasks[s])
             /\ State(s) = IF s \in Runnable THEN "ResourceWait" ELSE "TerminallyDeclined"
  <2>1. Initialized(s) = <<ProposedNow, [kind |-> "Selected"], Event("Queued"),
                           Event("EnteredResourceWait")>>
        \/ Initialized(s) = <<ProposedNow, DeclinedNow("Refused")>>
    BY JoinedThree, JoinedOne DEF Initialized
  <2>2. \E t : t \in Fed(Unheard, Initialized(s))
    <3>1. \A a, b : \E t : t \in Fed(Unheard, <<a, b>>)
      BY FedTwo
    <3>2. \A a, b, c, d : \E t : t \in Fed(Unheard, <<a, b, c, d>>)
      BY FedFour
    <3>. QED BY <2>1, <3>1, <3>2
  <2>3. tasks[s] \in Fed(Unheard, Initialized(s))
    BY <2>2 DEF Init
  <2>. QED BY <2>3, InitialHeard DEF State
<1>2. \A w \in Workers : ~AtWork(w)
  BY DEF Init, AtWork, Idle
<1>3. Replays
  <2>1. status = [s \in Sensors |-> status[s]] /\ tasks = [s \in Sensors |-> tasks[s]]
    BY DEF Init
  <2>. QED BY <1>1, <2>1 DEF Replays
<1>4. OnePlace /\ Manned /\ Waiting = {}
  BY <1>2 DEF Init, OnePlace, Manned, Waiting
<1>5. Opening /\ Conserved
  BY <1>1, <1>4 DEF Init, Opening, Conserved, Unopened, Due, Heard, Sound, State
<1>6. RunningIsAccounted /\ ReceiptsAgree
  BY <1>1 DEF Init, RunningIsAccounted, ReceiptsAgree, Heard, Sound, State
<1>. QED BY <1>2, <1>3, <1>4, <1>5, <1>6 DEF LedgerInv, Init, WrittenIsSettled

LEMMA LedgerInvariant == Spec => [](PoolInv /\ LedgerInv)
<1>1. PoolInv /\ LedgerInv /\ [Next]_vars => LedgerInv'
  <2>. SUFFICES ASSUME PoolInv, LedgerInv, [Next]_vars PROVE LedgerInv'
    OBVIOUS
  <2>1. CASE RunStep \/ LateEnds \/ StartProof \/ EndProof
    BY <2>1, RunKeepsLedger
  <2>2. CASE \E w \in Workers : WorkerStep(w)
    BY <2>2, WorkerKeepsLedger
  <2>3. CASE UNCHANGED vars
    <3>. UNCHANGED <<setup, main, late, proof, queues, worker, child, status, tasks, degraded,
                     ledger>>
      BY <2>3 DEF vars
    <3>1. (Replays /\ RunningIsAccounted /\ ReceiptsAgree /\ WrittenIsSettled)'
      BY DEF LedgerInv, Replays, RunningIsAccounted, ReceiptsAgree, WrittenIsSettled, Settled
    <3>2. (OnePlace /\ Opening /\ Manned)'
      BY DEF LedgerInv, OnePlace, Opening, Manned, Waiting, State, Due, Unopened, AtWork
    <3>3. Conserved'
      BY DEF LedgerInv, Conserved, Accounted, Waiting, Due, Unopened, AtWork
    <3>4. \A w \in Workers : AtWork(w)' => Remembers(w)' /\ Attends(w)'
      BY DEF LedgerInv, AtWork, Remembers, Attends, State, Outcome, ReceiptCreated
    <3>. QED BY <3>1, <3>2, <3>3, <3>4 DEF LedgerInv
  <2>. QED BY <2>1, <2>2, <2>3 DEF Next
<1>. QED BY <1>1, LedgerInitially, PoolInvariant, PTL DEF Spec

(* However attempts fail, no event a worker appends would be refused when  *)
(* the ledger is replayed.                                                 *)
THEOREM LedgerAlwaysReplays == Spec => []LedgerNeverRefused
<1>1. LedgerInv => LedgerNeverRefused
  BY DEF LedgerInv, Replays, Heard, LedgerNeverRefused
<1>. QED BY <1>1, LedgerInvariant, PTL

(* A sensor process that may still be running is never accounted as        *)
(* finished, so that its resources are not recorded as released under it.  *)
THEOREM RunningStaysAccounted == Spec => []RunningIsAccounted
<1>1. LedgerInv => RunningIsAccounted
  BY DEF LedgerInv
<1>. QED BY <1>1, LedgerInvariant, PTL

(* A task of which the ledger says that its receipt was created agrees     *)
(* with what that receipt says.                                            *)
THEOREM ReceiptsAlwaysAgree == Spec => []ReceiptsAgree
<1>1. LedgerInv => ReceiptsAgree
  BY DEF LedgerInv
<1>. QED BY <1>1, LedgerInvariant, PTL

(* When the run reads sensor evidence every runnable sensor of the plan    *)
(* has been attempted, and what is missing of it is among the failures.    *)
THEOREM NothingIsLost == Spec => []NothingLostSilently
<1>1. PoolInv /\ LedgerInv => NothingLostSilently
  <2>. SUFFICES ASSUME PoolInv, LedgerInv, main \in {"read", "publish"}, NEW s \in Due
                PROVE  Accounted(s)
    BY DEF NothingLostSilently, Due
  <2>1. Drained
    BY DEF PoolInv, InPhase
  <2>2. Waiting = {} /\ ~\E w \in Workers : AtWork(w)
    BY <2>1 DEF Drained, AtWork, LedgerInv, Manned, Waiting, Owner, Workers
  <2>. QED BY <2>2 DEF LedgerInv, Conserved, Unopened
<1>. QED BY <1>1, LedgerInvariant, PTL

(* A published task ledger leaves nothing running and nothing unsettled.   *)
THEOREM WrittenStaysSettled == Spec => []WrittenIsSettled
<1>1. LedgerInv => WrittenIsSettled
  BY DEF LedgerInv
<1>. QED BY <1>1, LedgerInvariant, PTL
===============================================================================

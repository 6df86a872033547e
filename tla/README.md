# ub-review in TLA+

`ub-review` reviews one pull request. A run plans, runs *sensors* (linters,
tests, analyzers) as child processes, asks models about the diff, runs *proof*
commands the models or the broker asked for, compiles one review packet with
receipts for everything it did, decides a gate, and leaves the packet in an
output directory. `ub-review post` publishes the packet to GitHub,
`ub-review gate-check` turns the recorded verdict into the exit of the job, and
`ub-review gate-watchdog` looks at a pull request's gate from outside.

The program is a batch program: it has few long-lived states but many ways to
stop half way. What makes it hard is concurrent sensor workers that share one
Cargo target directory, child processes that outlive the code that started
them, a task ledger that must replay without a single illegal event, budgets
that many passes spend from their own counters, files replaced one by one in a
directory an earlier run has used, jobs killed in the middle, and a remote
service that may carry out a request nobody waits for any more. These are the
things modelled here.

Paths below are relative to the repository's `src/` crate directory
(`main.rs` is the crate's file).


## 1. The system

| Component | Files | State | Operations | Correct when |
|---|---|---|---|---|
| Task ledger: reducer, replay | `task_ledger.rs`, `task_ledger_artifact.rs` | per task id: lifecycle state, reservations, outcomes, timing, consumers | 16 kinds of event; replay of a sealed stream | a legal stream cannot reach a contradictory snapshot; an accepted one leaves nothing held |
| Task ledger: publication | `task_ledger_artifact.rs` | the event stream and the snapshot on disk, their staging files | publish the pair, remove the pair | success leaves a whole pair, failure leaves what was there |
| Sensor pools, sensor ledger | `sensors/mod.rs`, `sensor_task_ledger.rs`, `lane_packets.rs` | two queues, each worker's attempt, children, status receipts, events | open, drain and join a pool; prepare, launch, collect, report, settle | Cargo is exclusive; receipts, ledger, children and failures agree |
| Run orchestration | `main.rs` (`cmd_run`, `write_review_artifacts`) | joins: fast pool, late thread, proof thread, model wave | spawn, join, read evidence, write the ledger | evidence is final when it is read; the run ends |
| Proof broker, budget, portfolio | `proof/broker.rs`, `budget.rs`, `tasks.rs`, `planner.rs` | requests, receipts, leases, the portfolio on disk | four phases: initial, seeded, model, follow-up | nothing is run twice or over the budget; obligations survive; verdicts are earned |
| Proof runner, proof ledger | `proof/command.rs`, `red_green.rs`, `build.rs`, `proof_task_ledger.rs` | the command under way, its child, its worktree, pending receipts | begin, decline, start, finish, lose, reconcile | what may still run is held; what is credited was read back |
| Standalone worker | `main.rs` (`cmd_worker`) | lease, receipt and ledger files of a directory | clear, run two commands, publish, read back, fail | a credit has its receipt beside it; success is its own |
| Model wave, providers | `model_orchestration.rs`, `providers.rs`, `receipt_builders.rs` | pending and retry queues, backpressure, lane receipts, missing evidence | preflight, fill a wave, apply answers, sweep | slots and budget hold; no lane is lost; receipts name the call made |
| Later model passes | `model_exec.rs`, `proof_planner_lane.rs`, `reporter.rs`, `lane_threads.rs` | calls used, questions, answers, turn files and rollup | planner, refuter, reporter turns, follow-ups, reconsiderations | one budget; only the last turn has authority |
| Gate, gate truth | `gate.rs`, `gate_truth.rs` | none (functions of the packet) | conclude, account, separate results, check | coverage adds up; no pass without evidence |
| Gate watchdog | `gate_watchdog.rs` | none (a function of observations) | classify | it ends with a pass only for an earned one |
| GitHub delivery | `github_delivery.rs`, `delivery_transaction.rs`, `model_api.rs` | the delivery transaction, five files, a draft on GitHub | plan, reserve, create, reconcile, reply, recheck, submit, clean up | nothing twice, success is true, files tell the truth |
| Post command, issue broker | `main.rs` (`cmd_post`), `post_command.rs`, `issue_broker.rs` | issue plan, result files | plan; submit; search, create | a follow-up is opened once |
| Findings and their surfaces | `validate.rs`, `candidate.rs`, `observation_build.rs`, `issue_broker.rs`, `follow_up_routing.rs`, `main.rs` | inline comments, summary-only findings, observations, candidates, follow-up outputs | admit, merge duplicates, refute, note conflicts, record, follow up, resolve away | a resolved finding stays out; no other vanishes without a trace |
| Claim graph, reconciliation | `review_topics.rs`, `claim_graph.rs`, `compiler_reconciliation.rs` | topics, losers, threads, the receipt | build, adjudicate, reconcile, explain | what is taken off the review has a reason the receipt gives |
| Rendering, judgment, planning, configuration, reports, tooling | see `PROJECT.json` | data of one run | pure transformations and configuration | — |

How they interact: `cmd_run` opens the fast pool and joins it, then spawns the
late pool on a thread of its own. With models on, the model wave runs beside
it, and the initial proof stream, on another scoped thread, waits for the late
pool to be joined before it may use Cargo. Sensors and proof append events to
one recorder behind a mutex. When both streams are joined the evidence is read
(by path, from the output directory); then the reporter, the follow-ups, the
later proof phases and the reconsiderations run in sequence; the gate is
decided and recorded, and last the recorder's events are sealed, replayed and
published. The post command and the gate check are later steps of the same CI
job (`action.yml`); a cancelled job runs none of them, and a job that is run
again shares nothing with the first but GitHub. The watchdog sees jobs only
through what GitHub says of them and the artifacts they uploaded.

What is hard to test is listed with its line under `hazards` in
`PROJECT.json`, with the properties that watch over it.


## 2. The modules

| Module | Models | Uses |
|---|---|---|
| `TaskReducer` | `TaskReducer::apply`: legality, payload checks, timing, as `Accepts` and `Reduce` on snapshots | — |
| `TaskAccount` | abstract: what the ledger promises about one task's resources | — |
| `TaskLedger` | `replay_event_stream`: one reducer per task id, and the verdict at the end of the stream | `TaskReducer`, `TaskAccount` |
| `LedgerPublication` | `publish_task_ledger_artifacts`, `remove_task_ledger_artifacts` | — |
| `TaskRecorder` | the recorder sensors, proof and worker append to, as what replaying gives | `TaskReducer` |
| `SensorPool` | the pools, their attempts, the sensor ledger, and the run that opens, joins and reads them | `TaskRecorder` |
| `ProofLedger` | `proof_task_ledger.rs`: proposed, begun, pending, reconciled commands | `TaskRecorder` |
| `ProofPortfolio` | budget settlement, selection, the merged portfolio, terminal status of requests | `ProofLedger` |
| `ProofRun` | the broker's phases, the runner, one command and its child, publication and read-back | `ProofPortfolio` |
| `Worker` | `cmd_worker`: one attempt, and attempts that follow one another in a directory | `ProofLedger` |
| `ModelProviders` | provider policy, fallback, selection, limits | — |
| `ModelWave` | `run_available_model_lanes_with_runner`: waves, retries, backpressure, missing evidence | `ModelProviders` |
| `ModelStage` | all model calls of a run in the order of `write_review_artifacts`, and the reporter's authority on disk | `ModelWave` |
| `FindingSurfaces` | inline comments and summary-only findings: admission, merging, refuter, candidates | — |
| `ClaimTopics` | the active claim graph, its losers and threads, the reconciliation and its receipt | `FindingSurfaces` |
| `FindingFlow` | the findings of one run from the lanes to the final review | `ClaimTopics` |
| `GateAttempts` | abstract: what one attempt of the gate promises those who see only its end | — |
| `GateTruth` | the gate's conclusion, the coverage account, the separated results | — |
| `IssueBroker` | classification and plan of issue candidates | — |
| `ReviewJob` | the end of a run and the later steps of its CI job, several jobs of a pull request, GitHub's issues | `GateTruth`, `IssueBroker`, `GateAttempts` |
| `GateWatchdog` | `build_gate_watchdog` over frozen observations of attempts that behave as `GateAttempts` | `GateAttempts` |
| `Delivery` | `execute_pending_review_delivery` with GitHub as its environment | — |
| `RecorderProofs` | lemmas about what `TaskRecorder` makes of the events appended to it | TLAPS |
| `TaskLedgerProofs` | theorems about `TaskLedger` and `LedgerPublication` | TLAPS |
| `SensorPoolProofs`, `ProofRunProofs`, `WorkerProofs` | theorems about the modules they are named for | `RecorderProofs` |
| `ModelStageProofs` | theorems about `ModelStage` and about `FindingFlow` | TLAPS |
| `DeliveryProofs` | theorems about `Delivery` | TLAPS |
| `ReviewJobProofs` | theorems about `ReviewJob` and `GateWatchdog` | TLAPS |
| `MC*` | instances for TLC | |

Every definition that stands for code is listed with its lines in
`PROJECT.json` under `map`. Definitions named `...But...` are faulty variants
of the one they are named after (a guard dropped, a reset forgotten, an order
swapped); each property is violated when one of them takes the place of the
original.

The composition is by promise. `GateAttempts` is the abstract specification
between two components: `ReviewJob` is shown to implement it
(`KeepsPromise`), and `GateWatchdog` assumes nothing else of the jobs it
observes. `TaskAccount` is the same for the ledger: `TaskLedger` implements it,
and `SensorPool`, `ProofRun` and `Worker` feed the events they write through
the same reducer.

### TaskReducer and TaskLedger

A snapshot is a record with the fields of `TaskSnapshot`; an event is a record
with the fields of `TaskEvent`. `Legal` is the transition table (`transition`),
`PayloadValid` and `IntervalsClose` the checks of `apply_payload` and
`duration`, `Monotone` the check of the caller's time. As in the code, `Reduce`
is applied only to an event that passes all of them, and an event that fails
leaves the snapshot as it was. `TaskLedger` has one action per kind of event
and offers every event at every point, so the run explores every stream, not
only those the program writes. Digests, sequence numbers, canonical bytes and
reference syntax are one refusal (`RefuseRecord`): they say whether a record is
intact, not what it does.

### LedgerPublication

A file's content is the number of the run that wrote it, `Missing` or
`Partial`. Every file-system call of the two operations is a step that may
fail; the staging, the two *delete then rename* replacements, the rollback and
the removal of the staging files are kept in the code's order. The process may
be killed between any two steps, and the next operation starts from what is on
disk. `prior` is the pair the operation read before touching it.

### SensorPool

`setup` is one run: the planned order, whether the model mode is Auto, and the
sensors an earlier run left a receipt of. `partition_sensor_queues` splits the
plan into the Cargo owner's queue and the parallel queue. A worker's record is
the local state of `run_sensor_attempt_with_task_ledger`: which events it has
already appended (`spawned`, `finished`), whether it removed the earlier
receipt (`prepared`), what its command returned. `child` is the process:
`unconfirmed` when it could not be reaped. `tasks[s]` holds what replaying the
sensor's events gives: the snapshot and whether any event was refused. Since
events are fed through `TaskReducer`, the model checks that the program's own
bookkeeping and the reducer agree, instead of assuming it. `main`, `late` and
`proof` are the three threads of the run.

Failures: a command may be missing, fail to spawn, fail, time out, be killed
and not be reaped; the receipt may fail to be removed or written; an attempt
may break off between two commands; publishing may fail.

### ProofLedger, ProofPortfolio, ProofRun

`book` is the proof ledger: for every command task the events appended, and
which receipts are pending. `pc` is where `write_review_artifacts` stands among
the phases and, inside one, where the runner and `run_proof_command_receipt`
stand; `phase`, `loop` and `cmd` are their local states. A task has a kind: a
red/green test runs its head side and, when that passed, its base side in a
worktree; a head-only test and a build run one side. Leases are granted with a
ceiling and settled from the receipts that follow (`SettledBudget`), per phase,
as the code recomputes them. The portfolio file is merged with what is on disk
(`MergedPortfolio`), which may be of an earlier run or of another head.
Receipts are written once, in the aggregate, and credited after they were read
back (`ReconcileReceipts`).

Failures: paths, spawn, exit, signal, timeout, cancellation, cleanup, a child
that cannot be confirmed, the worktree, the aggregate file, its re-reading, and
the ledger; `fault` remembers that something outside the program failed.

### Worker

One attempt is a sequence of file and process operations, each of which may
fail into `Abort` (`finalize_worker_failure`), and each of which may be the
last before a kill. `disk` holds for every file the attempt it is of, so an
old file is told from a new one. The pair of ledger files is one value here.

### ModelProviders, ModelWave, ModelStage

`StartWave` is one turn of the loop: it drains the retries, then the pending
lanes, over a *scan* that holds the wave being filled, as the code does with
its two `for` loops over a queue's length at the start. `EndWave` takes any
outcome for every lane of the wave and applies them in lane order, which is
what sorting the results does. `called` and `sent` are what really happened:
the receipts and the counters are compared with them. `ModelStage` adds the
passes in their order; each keeps its own `calls` that are added to `used` when
it returns, as `write_review_artifacts` does. `disk` is the reporter's thread
directory: two turn files and the rollup that grants one of them authority,
each marked with the run that wrote it.

### FindingSurfaces, ClaimTopics, FindingFlow

A finding's text is what it claims (a number) and the form it is said in: its
own words, trailing a place, anchored by a demotion, or the fixed text of a
guard, a merge note or a conflict question. Wording is what the code decides
by, through relations between texts, and these are constants: `Shares` (two
distinctive words in common, `subject_tokens_overlap`), `Mentions` (one, for
threads), `Restates` (`same_inline_claim`), `Clashes`
(`surface_conflicts_with_refutation`). `Strength` is what a piece of evidence
counts for in `inline_evidence_rank`, `Need` the evidence
`candidate_evidence_need` finds a claim to ask for. `Face` is what
`compiler_surface_id` hashes. Every surface carries, besides the fields of the
code, the number of the finding it stands for (`from`); nothing in the model
decides by it.

`FindingFlow` takes the passes in the order of `write_review_artifacts`. The
lanes raise findings in lane order (`model_orchestration.rs` restores it),
`Merge` is `dedupe_inline_comments` with its two sorts, and runs again after
the findings of the unsafe-review sensor. The refuter may decide anything
about any place, or give no usable answer. The candidates are grouped as
`build_orchestrator_plan` does, each group becomes one task, each task is
answered by one of `Replies` or not at all, and an answer goes through the
admission the lanes' output goes through. `Resolve` may find a resolution of
an earlier run, of this revision or another. `Compile` builds the graph,
reconciles, and computes the receipt from the graph alone, as
`build_compiler_reconciliation_receipt` does; where the receipt has no reason
for something that is gone, nothing is published. Claim ids are hashes: which
of several topics is the lowest is left open (`last`). The filters and the
stable sorts are written as functions of the lists they take (`Indices`,
`Taken`, `Where`, `Sorted`), so that they can be reasoned about for lists of
any length; the specification is `FlowSpec`.

### GateTruth, IssueBroker, ReviewJob

`GateTruth` is operators over a record of facts, named after the functions of
`gate.rs` and `gate_truth.rs`. `ReviewJob` gives each job of a pull request
facts and a configuration, and lets it plan issues, decide, record (a write
that may tear), finish or fail, post, execute its issue plan entry by entry
(search, create, answered or not), and check the gate. A create request is on
the `wire` until GitHub carries it out, also after its sender gave up or was
killed. Each job works in a fresh directory, as `action.yml` has it.

### GateAttempts, GateWatchdog

An attempt starts, may record a verdict, and ends; enforced, it is green only
with the verdict `pass` recorded. The watchdog's observations are built from
what was true at some time: an attempt may be missed, seen before it was over,
or seen twice; the gate artifact may be of any attempt and may or may not name
its run. `Watch` classifies one set of observations and ends.

### Delivery

A poster is one execution of the command. `pc` follows
`execute_pending_review_delivery_with_transport`; `state` is its
`DeliveryTransaction`; `disk` is the output directory, shared by all posters
and kept when one dies: the reservation, the reconciliation, the receipts, the
transaction, the retry decisions. GitHub is external and as weak as the code
can assume: a request is carried out or refused at any time after it was
sent, also after its sender gave up; a draft may keep any subset of the
comments it was sent with; the head may move at any point. `SuccessIsPublished`
and the planning read `Public`, what a reader of the pull request sees.


## 3. The runs

| Run | Bounds | Shows |
|---|---|---|
| `task_ledger` | one task, 3 instants, 2 consumers' metadata, 2 revisions, 4 reservation lists (empty, good, repeated class, zero units) | accounting, timing, finality, closed streams; `TaskLedger` implements `TaskAccount` |
| `ledger_publication` | 3 publishing runs in one directory, any number of removals in between | success is whole; a failure restores |
| `sensor_pool` | 3 plans (a parallel sensor with a detail pass beside the Cargo owner; two Cargo sensors and one not selected; a fast sensor of several commands before a late Cargo one), model wave on and off, a receipt left or not, 2 jobs | ledger, receipts, children and evidence agree whatever fails; every run ends |
| `proof_run` | 4 tasks (two red/green, a head-only, a build), 4 requests of planner, lanes and follow-up, 5 settings, 5 endings, 2 leftover portfolios, 2 deadlines, a budget of 4 tasks, 4 files, 5 s | nothing twice or over the budget, nothing released early, credits and verdicts earned, obligations kept |
| `worker` | 2 attempts, 3 kinds of request | credits are backed; success is its own |
| `model_stage` | up to 3 lanes (plain, opposition, fast), every policy, 3 sets of keys, budgets 2 to 9, two calls at a time and one on OpenCode, an old turn of this head, of another, or none | budget, slots, losses, provenance, authority |
| `reporter_answers` | the same, the reporter names a lane in other words | **violation**, finding 2 |
| `finding_flow` | up to 3 findings out of 16 kinds, of 3 lanes (the third candidate-only) and the sensor, 2 places, 3 claims of which two are alike, every refuter answer, 4 replies of follow-ups, one prior resolution, one of 3 threads | resolved findings stay out, nothing vanishes |
| `finding_flow_group` | the same | **violation**, finding 1 |
| `review_job` | 2 jobs, 3 configurations, a catalogue of some 200 packets for the first, 4 issue candidates (a twin, another repository, one over the cap) | truthful verdicts, issues once, promise kept |
| `gate_watchdog` | 2 attempts of one run and a second run, 2 heads, at most 2 sightings in a set of observations | a pass is earned |
| `delivery` | 2 posters, 1 inline comment, 2 replies, every plan over them | nothing twice, truthful files, stale heads, every poster ends |

Why the bounds are enough:

* Replay keeps one reducer per task id and they share nothing, so one task
  shows what any number does; the proofs cover several. Three instants are
  what it takes to have an interval of length zero, one of positive length,
  and a time that goes backwards.
* Three publications are one that succeeds, one that leaves the pair torn or
  killed half way, and one that starts from there.
* Two Cargo sensors are what it takes to overlap; one parallel sensor runs
  beside the owner; the second command of a tolerated pass and the commands of
  the multi-command sensor are what may append an event twice.
* Each of the four phases of the proof work has something of its own to run
  and something an earlier one has run already (request 13 names the test the
  diff gave, 14 the command of the impact plan in another form); a command
  that takes longer than it was allowed and a deadline of zero make the
  budget's subtractions meet zero.
* Two attempts of the worker are one that leaves something and one that
  starts from it.
* Two lanes contend for the one slot of OpenCode while a third runs beside
  them, and budgets from 2 to 9 end before, in and after every pass. One
  question to a lane, one to a lane that has only a refuter's thread, one to
  nobody.
* The packets vary one part in all combinations around a packet in which all
  went well; the verdict's conditions are disjunctions over such parts. Two
  jobs are what it takes to race for an issue; the second job's packet only
  has to reach each verdict.
* Two sightings can contradict each other; three attempts are an older
  attempt, its rerun, and another run. Whether the gate is enforced is one
  setting for all attempts of a pull request, and the observed head only
  moves on to heads not seen before.
* Three findings are a surface, its duplicate or copy, and a refutation, or a
  conflict and the observation that gives one side its proof. Claims 1 and 2
  share their words without being equal, which is where similarity and
  identity part; claim 3 needs other evidence and makes a second group.
* Two posters race, or the second is the retry of the first. Two replies are
  what it takes to fail between replies.

Every bound is a constant of the instance: `MaxAttempts`, `MaxSights`,
`OpenCap`, `Runs`, `TicksPerSecond`, and the sets in the `MC` modules.

### What the properties say

* `TypeOK` of `TaskLedger` and `Delivery` and `PairTypeOK` of
  `LedgerPublication` are proved and not checked by a run.
* `TasksAccounted` ties the recorded outcome, reservations, receipt and
  release to the lifecycle state, for every stream of legal events.
* `TableProvesStarts` is the comment on `duration` in `task_ledger.rs`, that
  the transition table proves an interval's start exists.
* `DurationsPartitionLifetime`: the recorded durations add up to the time from
  queueing to the end of cleanup, less the step from admission to setup.
* `FactsAreFinal`: no later event rewrites a settled fact or a consumer's
  metadata, though consumers may be attached at any time.
* `AcceptedStreamIsClosed`: replay never ends well over a task that still
  holds a resource.
* `ImplementsAccount`: the lifecycle is a refinement of the resource account.
* `SuccessIsWhole`, `FailureRestores`: `FailureRestores` is silent when the
  rollback itself fails (`torn`) or the process is killed; there the code
  promises nothing, and what the next operation finds is covered by
  `SuccessIsWhole`.
* `LedgerNeverRefused`: in whatever order an attempt fails, the events it
  appends replay.
* `CargoExclusive`: of the Cargo sensors and the proof stream at most one is
  known to run (#1257).
* `RunningIsAccounted`: a child that may still run is not accounted as
  finished.
* `ReceiptsAgree`: a task that says its receipt was created agrees with what
  the receipt says, and the receipt is the attempt's own.
* `NothingLostSilently`: when evidence is read, every selected sensor was
  attempted, and each one without a receipt of its own is among the failures.
* `EvidenceFrozen`: from then on no sensor writes.
* `WrittenIsSettled`: a published ledger leaves nothing running.
* `HeldUntilGone`: while a proof command may still run, its resources, its
  worktree and the next command wait.
* `BudgetHonoured`: over all phases, what was taken and what may be taken stay
  within the profile.
* `CreditIsReadBack`: a credited command has its row in the published file,
  and the row says what the ledger says; a published ledger credits every
  command that was run.
* `OnlyFaultsFail`: the program never proposes a command twice, contradicts
  its own receipts, or writes a ledger that is refused.
* `VerdictsEarned`: *satisfied* means the named command was run and proves
  it; every request ends with a status.
* `ObligationsKept`: a later phase drops nothing of this head from the
  portfolio on disk.
* `CreditIsBacked`, `SuccessIsOwn`: the worker's directory, after any failure
  or kill.
* `BudgetHeld`: all passes together make no more calls than
  `--max-model-calls`, and no wave exceeds a limit. The preflight calls are
  not of that budget, in the code as in the model.
* `LossesTold`: a lane that gave nothing is one entry of the missing
  evidence, one that answered is none.
* `ProvenanceTrue`: a receipt names the provider of the last call really made.
* `AuthorityCurrent`: a reporter decision is current only if it is the last
  turn this run attempted. `AnswersReachReporter` is the purpose of the
  second turn.
* `ResolvedStaysOut`: a candidate that was resolved to refuted or dropped is
  on no final surface, in whatever form it went on record (#314).
* `NothingVanishes`: every finding raised ends on a final surface, in the note
  of what it was merged into, as an observation, dropped by the refuter,
  resolved away, or listed as removed in a receipt that is good. It says of
  the receipt, too, that it always finds its reasons.
* `RefutedOnItsOwnEvidence`: a follow-up that refutes a candidate it was asked
  about refutes no other.
* `TruthfulOutcome`: the coverage account balances; an unanswered requirement
  is always among the reasons and never reads clean or limited; unpublished
  findings are never a pass; a pass has no defect.
* `OpenedOnce`: a follow-up is open twice only if the second search came
  before the first issue existed; the cap and the allow-list hold.
* `KeepsPromise`: a job implements `GateAttempts`.
* `PassIsEarned`: the watchdog ends with a pass only for an attempt of the
  expected head that went green.
* `PublishedOnce`: at most one review public, no reply twice, however often
  the command is run, killed or left without an answer.
* `SuccessIsPublished`: a poster that reports success, an "already delivered"
  included, leaves the whole plan public.
* `TransactionTells`, `ReceiptsTrue`: what the files say of GitHub is so.
* `StaleHeadNeverPublished`: a head that moved before the second reading keeps
  the review from being published.
* `RunEnds`, `PostEnds`: liveness.

### Fairness

`SensorPool`: weak fairness of the whole next-state relation, that is, some
thread that can go on does. A child either exits or is killed at its timeout
(`lane_packets.rs`, `run_command_to_files_inner_with_wait`), a proof command
has a timeout of its own, and no step of the model can repeat forever, so
nothing has to be assumed of the scheduler's choice between threads. No
fairness is assumed of any particular outcome.

`Delivery`: weak fairness on each poster's own step, nothing of GitHub, of the
head or of kills. A poster that waits may always give up, because every call is
made by curl with `--max-time` (`model_api.rs`, `run_curl_json_send`).

The other specifications are safety only. Deadlock is not checked where the
system stops: at the end of a stream, of a run, of every job or poster.

### Findings

1. `finding_flow_group`, `RefutedOnItsOwnEvidence`. Candidates are grouped by
   disposition and evidence need, a group is one follow-up task, and what the
   answer says is linked to every candidate of the group
   (`issue_broker.rs:453-462`). One refutation, whatever claim or place it
   names, resolves all of them away. `SPEC-0015` has one output per candidate
   (line 36) and says that refuted means the follow-up evidence contradicts
   the candidate (110).
2. `reporter_answers`, `AnswersReachReporter`. A question's target is resolved
   to a lane id, but the answer is stored under the target as it was written
   (`model_exec.rs:631`) and looked up by lane id for the second turn
   (643-646). The answer of a lane named in other words is paid for and lost.

Other disagreements met while modelling, which no run is spent on:

* A sensor attempt that cannot remove the status receipt of an earlier run
  (`sensors/mod.rs:564`) returns before it writes one. The ledger and the
  degraded event are right, and `ReceiptsAgree` holds, but the readers of
  evidence open the receipt by path (`receipt_builders.rs:361-408`) and take a
  stale `ok` for this run's, where `SPEC-0004` (149-150) says that a terminal
  state can only derive from the current attempt.
* When a killed sensor child cannot be reaped the attempt ends with an error
  (`sensors/mod.rs:685`) and the owner takes the next Cargo sensor, or proof
  starts, beside a child whose end is unconfirmed. The comments promise no
  overlap without that exception (`main.rs:5237-5240`), and the proof side
  does stop in the same case (`proof/command.rs:140-183`). `CargoExclusive`
  counts only children known to run.
* `reconcile_summary_only_findings` removes a finding that shares two words
  with a refuted topic of its lane, though another claim; the comments of
  `same_public_claim` (`review_topics.rs:372-376`) say that similarity is not
  enough to suppress a distinct finding. The receipt explains the removal by
  the same rule.
* Duplicates are merged by place alone first: of two different claims on one
  line the lower ranked loses its text, and only its evidence survives in the
  note. "Demotion is not deletion" (`docs/REVIEW_BODY_CONTRACT.md`) speaks of
  the guard, the refuter and the lane rule and leaves this merge open.
* Inline comments beyond the number allowed are dropped after the
  reconciliation and are in no receipt.
* Proof receipts bind to a claim by ids and keys that a request's id has to
  equal (`review_topics.rs:172-215`); the ids the program gives to requests are
  made otherwise, so the proof that decides a conflict needs a model to have
  chosen the key. The model lets it (`Proved`).
* `proof/tasks.rs:279-282` says that a model request naming a command of the
  impact plan merges into its task. No phase passes both
  (`proof/broker.rs:63, 807, 926`): the command is run again under another id.
  `ProofRun` models what the code does (tasks 2 and 3 of the instance).
* `main.rs:5441` and `reporter.rs:195-196` say that lanes that never ran have
  no thread. The sweep of the wave stamps one on every lane that has a provider
  (`model_orchestration.rs:621-648`), and the refuter's receipt has one
  when it is skipped; so the reporter is shown, and may question, lanes that
  were never called (`Digested` in `ModelStage`).
* The message log's `thread_terminal` entry (`main.rs:5494-5497`) is not
  written for `timed_out`, `rate_limited`, `missing_key` and `skipped` lanes,
  whose threads are as much at their end.
* `write_lane_thread_turn` rebuilds a lane's rollup from the highest turn on
  disk, and only the reporter's directory is cleared at the start: in a reused
  directory a lane's rollup may name an earlier run's turn.
* `runtime_fallback_retry_spec` retries on a fallback whose own preflight may
  have failed.
* A published finding of a model alone can turn a `not_proven` analysis into a
  pass of the separated gate result (`gate_truth.rs:343-396`); the property
  `TruthfulOutcome` states exactly that exception.


## 4. What is proved

The proofs hold for every value of the constants that satisfies the `ASSUME`
of the module: any number of tasks, consumers, instants, runs, sensors, workers, jobs,
attempts, posters, comments, lanes and budgets.

| Module | Theorem | |
|---|---|---|
| `TaskLedgerProofs` | `TypeCorrect` | `Spec => []TypeOK` |
| | `AccountingCorrect` | `Spec => []TasksAccounted` |
| | `StartsProved` | `Spec => []TableProvesStarts` |
| | `ClosedWhenAccepted` | `Spec => []AcceptedStreamIsClosed` |
| | `LedgerImplementsAccount` | `Spec => ImplementsAccount` |
| | `LifetimePartitioned` | `Spec => []DurationsPartitionLifetime` |
| | `FactsStayFinal` | `Spec => FactsAreFinal` |
| | `PairTypeCorrect` | `PairSpec => []PairTypeOK` |
| | `SuccessAlwaysWhole` | `PairSpec => []SuccessIsWhole` |
| | `FailureAlwaysRestores` | `PairSpec => []FailureRestores` |
| `SensorPoolProofs` | `CargoAlwaysExclusive` | `Spec => []CargoExclusive` |
| | `EvidenceStaysFrozen` | `Spec => EvidenceFrozen` |
| | `LedgerAlwaysReplays` | `Spec => []LedgerNeverRefused` |
| | `RunningStaysAccounted` | `Spec => []RunningIsAccounted` |
| | `ReceiptsAlwaysAgree` | `Spec => []ReceiptsAgree` |
| | `NothingIsLost` | `Spec => []NothingLostSilently` |
| | `WrittenStaysSettled` | `Spec => []WrittenIsSettled` |
| `ProofRunProofs` | `RunAlwaysSound` | `Spec => []RunInv` |
| | `AlwaysHeldUntilGone` | `Spec => []HeldUntilGone` |
| | `CreditAlwaysReadBack` | `Spec => []CreditIsReadBack` |
| | `OnlyFaultsEverFail` | `Spec => []OnlyFaultsFail` |
| | `VerdictsAlwaysEarned` | `Spec => []VerdictsEarned` |
| | `ObligationsAlwaysKept` | `Spec => ObligationsKept` |
| | `BudgetAlwaysHonoured` | `Spec => []BudgetHonoured` |
| `WorkerProofs` | `SuccessAlwaysOwn` | `Spec => []SuccessIsOwn` |
| | `CreditAlwaysBacked` | `Spec => []CreditIsBacked` |
| `ModelStageProofs` | `AuthorityAlwaysCurrent` | `Spec => []AuthorityCurrent` |
| | `BudgetAlwaysHeld` | `Spec => []BudgetHeld` |
| | `LossesAlwaysTold` | `Spec => []LossesTold` |
| | `ProvenanceAlwaysTrue` | `Spec => []ProvenanceTrue` |
| | `ResolvedAlwaysOut` | `FlowSpec => []ResolvedStaysOut` |
| | `NothingEverVanishes` | `FlowSpec => []NothingVanishes` |
| | `ReceiptExplains` | comments each at a place of its own: the receipt has a reason for all that the reconciliation removed |
| | `DedupeKeepsFindings` | a merge keeps each finding once, as a comment or in a note, with one comment at a place |
| `ReviewJobProofs` | `JobsKeepPromise` | `Spec => KeepsPromise` |
| | `OutcomeAlwaysTruthful` | `Spec => []TruthfulOutcome` |
| | `FollowUpsOpenedOnce` | `Spec => []OpenedOnce` |
| | `PassAlwaysEarned` | `WatchSpec => []PassIsEarned` |
| `DeliveryProofs` | `TypeCorrect` | `Spec => []TypeOK` |
| | `PublishedAtMostOnce` | `Spec => []PublishedOnce` |
| | `StaleStaysPrivate` | `Spec => StaleHeadNeverPublished` |
| | `SuccessIsReal` | `Spec => []SuccessIsPublished` |
| | `TransactionIsReal` | `Spec => []TransactionTells` |
| | `ReceiptsAreReal` | `Spec => []ReceiptsTrue` |

The lists of the code are of any length, so the proofs need a way to speak of
a fold. Where the program only appends, it is a known suffix that is replayed
and the fold is unrolled (`RecorderProofs`: `FedOne` to `FedFour`). Where a
list is walked whole, the fold is a function on `0 .. Len(list)`, and it is
shown to exist as a set of pairs, by taking the least index at which it would
not (`LeastOne`, from the well-foundedness of `<` on `Nat`): what is proved of
it is that its *n*-th value lies in an *n*-th set, with no induction scheme.

**TaskLedger.** The inductive invariant `IInv` is `TypeOK`, plus `Accounted`
and `StartsExist` and a valid reservation list for every task, plus *a
complete verdict means every task has settled*. `TypeOK` alone is not
inductive: a duration is a natural number only because the start of its
interval was recorded and is no later than the last event, which is
`StartsExist`; and that `Accounted` survives an event needs the type of the
outcome. `ReduceType`, `ReduceAccounted` and `ReduceStarted` show what one
accepted event preserves, by the event's kind; `NextIsReplay` reduces the
sixteen actions to `Replay`. For the timing, `TimingInv` says of every
snapshot that the points its state has not reached are not recorded, so that
none is stamped twice, and that each duration closed so far is the difference
of the instants it lies between; that sum telescopes.

**LedgerPublication.** What is on disk depends on which call is next
(`StagedInv`, `RemovalInv`): a staging file that was written holds this run,
and until the first replacement the pair is what it was. The two properties
speak only of the ends, so they are not inductive without it.

**SensorPool.** `PoolInv` is enough for Cargo and for the frozen evidence:
only the owner holds Cargo work (`Owned`), a Cargo command that runs is the one
it waits for (`Awaited`), and workers are out only while a phase runs, proof
only when the late one is over (`InPhase`). The rest needs `LedgerInv`. Its
core is that what a worker remembers of its attempt (`prepared`, `spawned`,
`finished`) tells in which state the reducer holds its task (`Remembers`,
`Attends`), so the events it appends next are legal ones; `EventHeard` is what
the reducer makes of one of them. The lists appended at once have a known
length, so replaying them is unrolled and needs no induction. A sensor is in
one queue or in one worker's hands (`OnePlace`), a queue is not left while
sensors wait in it (`Manned`), and so each sensor that is due is still to come,
in hand or accounted for (`Conserved`): when a phase is joined only the last is
left. A step of a worker touches its own sensor alone, and `WorkKeeps` draws
the whole invariant from what the step does to that one. Of the plan it is
assumed to be a finite list without repetitions (`PoolConstants`,
`PlanIsList`).

**RecorderProofs.** `Plays` is the relation *this list of events, fed to this
fact, ends in that one*; `ReplayUnique` says that there is one end, and
`PlaysOn` that lists may be appended. From these `EventHeard` tells for one
event of a task what the reducer answers, and `ReachesOn` for the lists the
proof side appends (`ReachesSetup`, `ReachesRefusal`, `ReachesNext`,
`ReachesRelease`): they replay, and where they leave the task.

**ProofRun.** `RunInv` is inductive. It says, by where the run stands, that
every receipt so far is whole and the log of each of its commands tells what
its row tells, and nothing is logged of a task that has no receipt yet
(`WorkSound`); what was logged for the command being run (`CommandSound`); that
the queue names no task twice and none that has a receipt (`QueueSound`, which
rests on `SelectionSound`: what `Select` returns is a list of distinct
candidates); that at most one child may be alive, and it is the command waited
for, or the run has failed with its events withheld (`ProcessesSound`); that
only a fault fails a run (`FailureSound`); and what is on disk at the end
(`EndSound`). `HeldUntilGone` alone is not inductive: that resources are held
for a child that could not be reaped follows from its log ending before the
release, which only `WorkSound` knows. `BudgetInv` is proved beside it. The
four phases each take what is left, so what has to be kept is that the budget
of the loop *plus what was spent before* is the profile's, unless it is
nothing (`LoopSound`), and that the command at hand still fits (`CommandFits`);
sums over leases are bounded and appended to by `SummedLeast` and
`SummedAppended`. `ObligationsKept` needs that a receipt at hand is whole: a
merge keeps an entry only for a receipt that decides it. Assumed of the
constants: tasks are finitely many, allowances and deadlines are numbers, the
lists of requests name each request once (`RunConstants`, `PortfolioConstants`).

**Worker.** `WorkerInv` says what the rows say so far (`RowsRead`), that the
book credits nobody before the receipt is read back and then exactly the
commands with a limit (`BookInv`), and what the directory holds by the step
that is next (`DiskInv`): the ledger of an earlier attempt is gone before
anything else is touched. That order is the whole argument for
`CreditIsBacked`, and a kill may come between any two of its steps.

**ModelStage.** `AuthorityInv` follows `thread.json`: from the start of the
coordination on, while nothing has failed, the rollup is absent or names the
last turn this run attempted. It is what makes the removal of the rollup
*before* every attempt necessary: without it a failed second turn would leave
the first one bound. `WaveInv` adds where each lane is while the waves go on:
it waits, in the queue of pending lanes with no call made or in the retry queue
with one (`Awaits`), it is being called (`Calling`), or it is over and told
(`LaneTold`); it is never in both queues and in none twice. `LossesTold` speaks
only of the time after the sweep and is not inductive without it. Of each scan
it is shown what becomes of the lane it looks at (`Fate`: kept, joined to the
wave, dropped) and that it leaves the others as they were, so a wave that
starts, fills or ends carries the invariant from lane to lane (`RetriesScan`,
`PendingScan`, `AnswersScan`). `CallsInv` is what makes the budget hold over
seven passes: what was sent was counted, and the count fits. Assumed are the
provider policy's domain and that the lanes of an invocation are distinct and
none is named as a later pass is (`ProviderConstants`, `SetupsAssumption`).

**FindingFlow.** Both properties speak of the final review only, so neither is
inductive. `FlowInv` follows the findings to it: until then each finding is on
one surface at most, or among the observations, or dropped by the refuter
(`Accounted`, `SurfacedOnce`), and nothing is dropped before the refuter has
answered (`NoneDropped`); from the merge on each comment is at a place of its
own (`Apiece`); the candidates are the record of just those surfaces
(`OnRecord`), and what is resolved away is one of them (`AwayKnown`).
`ResolvedStaysOut` rests on the second half: removing a candidate's surface
removes the finding only because no other surface stands for it, and what a
follow-up adds stands for none. `NothingVanishes` rests on the merge: were two
comments left at one place, the reconciliation would drop one as a repetition
and the receipt would have no reason for it. That the reconciliation always
has one is `ReceiptExplains`: a surface goes because its topic lost, or is
covered by another, and either is a reason the receipt can look up, an inline
comment under the id of its own claim (`InlineSeeds`). A filter, a sort or a
merge is a scan that is shown to exist (`Walks`) and whose *n*-th value is
followed from one index to the next (`Along`); `WhereHolds` and `SortedHolds`
say that it returns each of the chosen entries once, `DedupeKeepsFindings` what
it means for a merge. Assumed is `FlowAssumption`: what lanes and follow-ups
may say are findings, and the numbers are numbers.

**ReviewJob.** `PacketInv` says what a job has recorded by where it stands:
nothing before the decision, a verdict after it, or a torn file behind which
only failure is left. With it every step maps to a step of `GateAttempts` or
to a stutter. `AnyPacketTruthful` is about any packet: the sensors that owed
evidence fall into those that gave it and those that did not, and `Account`
shows that the parts the code counts add up to these; `DoubtTold`, that what
nothing answered leaves a doubt. For the issues, `BrokerPlanSound` says that a
plan names a fingerprint once and attempts no more than the cap (the attempts
are injected into `1 .. OpenCap` by their rank), and `BrokerInv` that what a
job has sent and what it may still send stay within that, that no entry it may
still send was sent, and that nothing like a request is among the issues its
search saw. Assumed are a finite account of sensors, receipts and candidates in
finite lists, and a cap that is a number.

**GateWatchdog.** `GreenIsEarned` is the promise of the attempts read in their
state. What an observation says of an attempt that is over is true
(`SightsAreTrue`), an artifact is some attempt's (`ArtifactsAreTrue`), and a
terminal verdict names the newest attempt sighted.

**Delivery.** `PublishedOnce` says nothing about a request still on its way,
so it is not inductive. `OneWriter` is: whoever is past the reservation, or has
left a request, a review or a reply behind, is the only such poster, and the
reservation file exists. The argument rests on one fact of the code: the file
is created with `create_new` and never removed, so `Reserve` succeeds once.
With it a stale head is caught because nobody has asked to submit before the
second look (`NotAsked`), and who has been caught never asks (`Caught`).
`SuccessIsPublished`, `TransactionTells` and `ReceiptsTrue` follow from `Trail`:
what the one writer has confirmed, reconciled and written, at each point where
it may be killed, GitHub holds.

Every invariant and every action property of a passing run is the statement of
a theorem. Model-checked only are `RunEnds` and `PostEnds`: liveness is beyond
the proof system. The properties of the violation runs
(`RefutedOnItsOwnEvidence`, `AnswersReachReporter`) are false of the code.


## 5. What is left out

* Dry runs of the pools: they start no attempt and keep no ledger.
* Panics and poisoned mutexes: the code turns both into errors the models
  already have.
* Overflow of the recorder's clock (a `u64` of milliseconds).
* What a command does, its arguments, its output and the wording of its
  receipt; what a model answers; the bodies, locations and digests of comments
  (an item stands for a planned delivery that matches or does not).
* A delivery file torn by a kill during its write: it cannot be parsed, and
  makes later attempts fail.
* One directory has one reviewed head and one plan; reusing it for another head
  is refused by the head check and is not modelled further.
* In `SensorPool`, the proof tasks that share the recorder: they are the
  reason why publishing may fail there although every sensor has settled.
* `disk.decided` (the retry decisions file) is written but read by nothing.
* In `ProofPortfolio`, the decision `superseded`: no path of the code makes it.
  Which command lines are allowed, the sanitizer witness of a run, the planner's
  artifacts and the routes of receipts.
* In `Worker`, the staging files of a publication: they are removed before
  they are written and nothing reads them.
* In `ModelWave`, why a provider's preflight fails, prompts and the parsing of
  answers. The branch for a lane whose key is missing after its preflight
  succeeded is modelled but cannot be taken: the preflight needs the key.
* In `ReviewJob`, a job's directory is fresh, as in `action.yml`: a stale
  `issue_broker_plan.json` in a reused directory, which `post` would execute,
  is not covered. GitHub's search is assumed
  up to date with the issues that are open. `cmd_post` returning early because
  its result file cannot be written is a failure of the step.
* `gate_outcome.json` is written before later writes that can still fail the
  run; the model has this (`FailRun` after `Record`), and the watchdog's
  `RetainedPass` is the code's answer to it. The watchdog matches an artifact
  by run, not by attempt, which the model has too.
* In `FindingFlow`, observation groups and their follow-ups, whose answers
  give no signal to a candidate; inline comments in an answer of a follow-up,
  which the prompt does not offer; suggestions; the trimming of the final plan
  to the comments allowed; late changes of a lane's status by proof receipts,
  which move no surface; resolved candidates added to the graph as topics
  after the reconciliation.
* The components `PROJECT.json` lists as not modelled: planning,
  configuration, rendering, reports and tooling are pure functions of one
  run's data, without state, interleaving or failure of their own.


## 6. Plan

Done: the task ledger (everything else reports to it), the sensor pools, the
proof work, the worker, the model passes, the findings and the claim graph, the
gate, the job, the watchdog, the delivery, the publication of the ledger.

What the runs check is proved, but for liveness. Next:

1. The sanitizer witness runner as a fifth kind of proof task.
2. Witnesses and the decision table (`witness.rs`, `decision_core.rs`), and
   the plan of the sensors (`plan_build.rs`, `impact_plan.rs`), which
   `SensorPool` takes as constants.

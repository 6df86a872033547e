-------------------------------- MODULE ModelWave --------------------------------
(***************************************************************************)
(* The model wave (run_available_model_lanes_with_runner).  Review lanes   *)
(* are called in waves within a call budget, a concurrency and a limit per *)
(* provider.  A lane whose primary fails transiently is queued once for    *)
(* its fallback; lanes that still wait leave a provider that pushed back.  *)
(* What no call answered is recorded as missing evidence at the end.       *)
(***************************************************************************)
EXTENDS ModelProviders, SequencesExt

CONSTANT
  Setups            \* [lanes, auto, policy, keys, budget, planner, old, tasks]

VARIABLES
  setup,      \* the invocation: its lanes in assignment order, model mode, provider
              \* policy, keys present, call budget, ...
  stage,      \* where write_review_artifacts() is
  usable,     \* the specs whose provider preflight succeeded
  receipts,   \* [lane -> ModelLaneReceipt]
  issues,     \* [lane -> entries of missing_or_failed_model_evidence]
  pending,    \* pending_assignments
  retry,      \* retry_queue
  forced,     \* [lane -> the fallback its retry is forced to, or "none"]
  pressure,   \* provider_backpressure
  wave,       \* the tasks in flight, [lane, spec]
  used,       \* model_calls_used
  called,     \* [lane -> the specs its calls went to]: what really happened
  sent        \* the model calls made of the budget: what really happened

\* The invocation.  Assignments are told apart by their lane; the lanes of the later
\* passes are not among them.
ASSUME SetupsAssumption ==
  \A s \in Setups :
    /\ s.lanes \in Seq(STRING) /\ IsInjective(s.lanes)
    /\ ToSet(s.lanes) \cap {"proof-planner", "refuter", "none"} = {}
    /\ s.auto \in BOOLEAN /\ s.budget \in Nat

waveVars == <<setup, stage, usable, receipts, issues, pending, retry, forced, pressure,
              wave, used, called, sent>>

LaneIds  == ToSet(setup.lanes)
AllLanes == LaneIds \cup {"proof-planner", "refuter"}

PrimaryOf(lane)  == Primary(lane, setup.policy, setup.keys)
Fallback(lane)   == FallbackOf(lane, setup.policy, setup.keys)
HasKey(spec)     == ProviderOf(spec) \in setup.keys
Exhausted(calls) == calls >= setup.budget

\* build_model_lane_receipts(): a lane is planned if a key for its primary or
\* its fallback is present.
FirstReceipt(lane) ==
  [status |-> IF ~setup.auto THEN "skipped"
              ELSE IF HasKey(PrimaryOf(lane))
                        \/ (Fallback(lane) # "none" /\ HasKey(Fallback(lane)))
                   THEN "planned" ELSE "missing_key",
   spec |-> PrimaryOf(lane), fallback_from |-> FALSE, attempts |-> 0, thread |-> FALSE]

NoReceipt == [status |-> "absent", spec |-> "none", fallback_from |-> FALSE,
              attempts |-> 0, thread |-> FALSE]

WaveInit ==
  /\ setup \in Setups
  /\ stage = IF setup.auto THEN "preflight" ELSE "reporter"
  /\ usable = {}
  /\ receipts = [l \in AllLanes |-> IF l \in LaneIds THEN FirstReceipt(l) ELSE NoReceipt]
  /\ issues = [l \in AllLanes |->
       IF l \in LaneIds /\ FirstReceipt(l).status # "planned" THEN 1 ELSE 0]
  /\ pending = setup.lanes /\ retry = << >>
  /\ forced = [l \in LaneIds |-> "none"]
  /\ pressure = {} /\ wave = << >>
  /\ used = 0 /\ sent = 0
  /\ called = [l \in LaneIds |-> << >>]

\* run_provider_preflights(): one call for each spec of the assignments whose
\* key is present.  These calls are not of the budget.
Preflights ==
  LET assigned == UNION {{PrimaryOf(l), Fallback(l)} :
                           l \in LaneIds \cup (IF setup.planner THEN {"proof-planner"} ELSE {})}
  IN /\ stage = "preflight"
     /\ usable' \in SUBSET {s \in assigned \cap Specs : HasKey(s)}
     /\ stage' = "wave"
     /\ UNCHANGED <<setup, receipts, issues, pending, retry, forced, pressure, wave, used,
                    called, sent>>

--------------------------------------------------------------------------------
(***************************************************************************)
(* The scan that fills one wave: the retries first, then the lanes that    *)
(* wait.  It goes over each queue once; a lane its provider has no slot    *)
(* for goes to the back, behind those the scan did not reach.              *)
(***************************************************************************)
InWave(tasks, provider) ==
  Cardinality({i \in DOMAIN tasks : ProviderOf(tasks[i].spec) = provider})

\* model_wave_has_capacity() and provider_wave_has_capacity().
WaveHasRoom(scan) ==
  Len(scan.wave) < Concurrency /\ ~Exhausted(used + Len(scan.wave))
HasSlot(scan, spec) ==
  InWave(scan.wave, ProviderOf(spec)) < LimitFor(ProviderOf(spec))

Lost(scan, lane, status) ==
  [scan EXCEPT !.receipts[lane].status = status, !.issues[lane] = @ + 1]

\* The receipt takes the provenance of the spec that runs.
Commit(receipt, lane, spec) ==
  [receipt EXCEPT !.spec = spec, !.fallback_from = (spec # PrimaryOf(lane))]

Admit(scan, lane, spec) ==
  [scan EXCEPT !.wave = Append(@, [lane |-> lane, spec |-> spec]),
               !.receipts[lane] = [Commit(@, lane, spec) EXCEPT !.status = "running"]]

\* Faulty variant: a lane without a slot takes its provenance all the same.
DeferButCommits(scan, lane, spec) ==
  [scan EXCEPT !.deferred = Append(@, lane),
               !.receipts[lane] = Commit(@, lane, spec)]

\* A lane without a slot waits, and keeps the provenance it has.
Defer(scan, lane, spec) == [scan EXCEPT !.deferred = Append(@, lane)]

ScanRetry(scan, lane) ==
  IF ~WaveHasRoom(scan) THEN [scan EXCEPT !.left = Append(@, lane)]
  ELSE IF HasSlot(scan, forced[lane]) THEN Admit(scan, lane, forced[lane])
  ELSE Defer(scan, lane, forced[lane])

ScanPending(scan, lane) ==
  LET spec == SelectedUnder(PrimaryOf(lane), Fallback(lane), usable, pressure)
  IN IF ~WaveHasRoom(scan) THEN [scan EXCEPT !.left = Append(@, lane)]
     ELSE IF scan.receipts[lane].status # "planned" THEN scan
     ELSE IF spec = "none" THEN Lost(scan, lane, "preflight_failed")
     ELSE IF ~HasKey(spec) THEN Lost([scan EXCEPT !.receipts[lane] = Commit(@, lane, spec)],
                                     lane, "missing_key")
     ELSE IF HasSlot(scan, spec) THEN Admit(scan, lane, spec)
     ELSE Defer(scan, lane, spec)

\* The scans of the two queues, lane by lane.
RetriesScanned(first, lanes) ==
  LET scan[n \in 0 .. Len(lanes)] ==
        IF n = 0 THEN first ELSE ScanRetry(scan[n - 1], lanes[n])
  IN scan[Len(lanes)]

PendingScanned(first, lanes) ==
  LET scan[n \in 0 .. Len(lanes)] ==
        IF n = 0 THEN first ELSE ScanPending(scan[n - 1], lanes[n])
  IN scan[Len(lanes)]

\* Faulty variant: the calls of a wave are not counted as attempts.
AttemptedButForgets(receipt) == receipt

Attempted(receipt) == [receipt EXCEPT !.attempts = @ + 1]

\* One turn of the loop.  A wave that nothing could join is not run.
StartWave ==
  LET first  == [wave |-> << >>, receipts |-> receipts, issues |-> issues,
                 left |-> << >>, deferred |-> << >>]
      forcedOnes == RetriesScanned(first, retry)
      all == PendingScanned([forcedOnes EXCEPT !.left = << >>, !.deferred = << >>], pending)
      runs(l) == \E i \in DOMAIN all.wave : all.wave[i].lane = l
      to(l)   == LET i == CHOOSE j \in DOMAIN all.wave : all.wave[j].lane = l
                 IN all.wave[i].spec
  IN /\ stage = "wave" /\ ~Exhausted(used) /\ (pending # << >> \/ retry # << >>)
     /\ retry' = forcedOnes.left \o forcedOnes.deferred
     /\ pending' = all.left \o all.deferred
     /\ receipts' = [l \in AllLanes |-> IF runs(l) THEN Attempted(all.receipts[l])
                                        ELSE all.receipts[l]]
     /\ issues' = all.issues
     /\ pressure' = {}
     /\ wave' = all.wave
     /\ used' = used + Len(all.wave) /\ sent' = sent + Len(all.wave)
     /\ called' = [l \in LaneIds |-> IF runs(l) THEN Append(called[l], to(l)) ELSE called[l]]
     /\ stage' = IF all.wave = << >> THEN "wave" ELSE "running"
     /\ UNCHANGED <<setup, usable, forced>>

--------------------------------------------------------------------------------
(***************************************************************************)
(* The answers of a wave (run_model_lane_tasks), which are put back into   *)
(* lane order before they are applied.                                     *)
(***************************************************************************)
\* A lane answers, in full or in part, or answers and its private audit
\* cannot be written; or the call fails, for a reason that may pass (a rate
\* limit, a timeout, a server error) or not.
Outcomes == {"ok", "degraded", "audit_lost", "transient", "permanent"}

\* runtime_fallback_retry_spec(): one retry, on the fallback, if its key is
\* present.
MayRetry(lane, receipt) ==
  /\ forced[lane] = "none" /\ ~receipt.fallback_from
  /\ Fallback(lane) # "none" /\ HasKey(Fallback(lane))

QueueRetry(acc, lane) ==
  [acc EXCEPT !.receipts[lane].status = "planned",
              !.forced[lane] = Fallback(lane), !.retry = Append(@, lane)]

Apply(acc, lane, outcome) ==
  LET pushed == IF outcome # "transient" THEN acc
                ELSE [acc EXCEPT !.pressure = @ \cup {ProviderOf(acc.receipts[lane].spec)}]
  IN CASE outcome = "ok"         -> [acc EXCEPT !.receipts[lane].status = "ok"]
       [] outcome = "degraded"   -> [acc EXCEPT !.receipts[lane].status = "degraded"]
       [] outcome = "audit_lost" -> Lost(acc, lane, "degraded")
       [] outcome = "permanent"  -> Lost(acc, lane, "failed")
       [] outcome = "transient"  -> IF MayRetry(lane, acc.receipts[lane])
                                    THEN QueueRetry(pushed, lane)
                                    ELSE Lost(pushed, lane, "failed")

\* The answers of the lanes that ran, in lane order.
Running == {l \in LaneIds : receipts[l].status = "running"}
Answer(acc, lane, outcome) ==
  IF lane \in Running THEN Apply(acc, lane, outcome[lane]) ELSE acc

Applied(first, lanes, outcome) ==
  LET acc[n \in 0 .. Len(lanes)] ==
        IF n = 0 THEN first ELSE Answer(acc[n - 1], lanes[n], outcome)
  IN acc[Len(lanes)]

EndWave ==
  /\ stage = "running"
  /\ \E outcome \in [Running -> Outcomes] :
       LET acc == Applied([receipts |-> receipts, issues |-> issues, retry |-> retry,
                           forced |-> forced, pressure |-> pressure], setup.lanes, outcome)
       IN /\ receipts' = acc.receipts /\ issues' = acc.issues
          /\ retry' = acc.retry /\ forced' = acc.forced /\ pressure' = acc.pressure
  /\ wave' = << >> /\ stage' = "wave"
  /\ UNCHANGED <<setup, usable, pending, used, called, sent>>

\* is_model_receipt_evidence_issue() of a lane the budget left out: without an
\* attempt the reason tells, after one the attempt does.
Tells(lane) == forced[lane] = "none" \/ receipts[lane].attempts > 0

\* The end of the loop: every lane is given its thread, and a lane that is
\* still planned was left out for want of budget.
Sweep ==
  /\ stage = "wave" /\ (Exhausted(used) \/ (pending = << >> /\ retry = << >>))
  /\ receipts' = [l \in AllLanes |->
       IF l \notin LaneIds THEN receipts[l]
       ELSE [receipts[l] EXCEPT !.thread = TRUE,
                                !.status = IF @ = "planned" THEN "skipped" ELSE @]]
  /\ issues' = [l \in AllLanes |->
       IF l \in LaneIds /\ receipts[l].status = "planned" /\ Tells(l)
       THEN issues[l] + 1 ELSE issues[l]]
  /\ stage' = "planner"
  /\ UNCHANGED <<setup, usable, pending, retry, forced, pressure, wave, used, called, sent>>

WaveNext == Preflights \/ StartWave \/ EndWave \/ Sweep

--------------------------------------------------------------------------------
Swept == stage \notin {"preflight", "wave", "running", "aborted"}

\* No review lane is lost without a trace, and none is reported twice: after the
\* wave a lane that gave nothing is one entry of the missing evidence, be it for
\* its preflight, its key, its last failure or the budget (a starved retry
\* included), and a lane that answered is none, unless its audit was lost.
LossesTold ==
  Swept => \A l \in LaneIds :
    /\ receipts[l].status \notin {"planned", "running"}
    /\ receipts[l].status = "ok" => issues[l] = 0
    /\ receipts[l].status = "degraded" => issues[l] <= 1
    /\ receipts[l].status \notin {"ok", "degraded"} => issues[l] = 1

\* The provenance a receipt shows is that of the last call really made: at most
\* two, the second only to the fallback after a first to the primary; a lane that
\* was never called shows its primary and no fallback.
ProvenanceTrue ==
  \A l \in LaneIds :
    LET r == receipts[l]
        c == called[l]
    IN /\ r.attempts = Len(c) /\ Len(c) <= 2
       /\ r.status \in {"ok", "degraded"} => c # << >>
       /\ r.spec = IF c = << >> THEN PrimaryOf(l) ELSE Last(c)
       /\ r.fallback_from <=> r.spec # PrimaryOf(l)
       /\ Len(c) = 2 => c = <<PrimaryOf(l), Fallback(l)>>

\* A wave never exceeds the concurrency or a provider's limit.
WaveFits ==
  /\ Len(wave) <= Concurrency
  /\ \A p \in Providers : InWave(wave, p) <= LimitFor(p)
================================================================================

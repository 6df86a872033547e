------------------------------- MODULE GateTruth -------------------------------
(***************************************************************************)
(* The gate's verdict and the separated results, as functions of what the  *)
(* packet holds: gate.rs (build_gate_outcome) and gate_truth.rs.  The      *)
(* facts f of a run are a record:                                          *)
(*   sensors     sensor -> [required, run, issue]; the issue is "none", a  *)
(*               "finding" (a completed native check that failed), a       *)
(*               failure that gave "no_verdict", "timed_out", or "missing" *)
(*   lanes       [total, usable, starved]                                  *)
(*   inline, summary, value, prepared   what the compiled review holds     *)
(*   off, dry, smoke                    model mode, dry run, trivial diff  *)
(*   policyErrors, unprovenBlocks, missingBlocks      repository policy    *)
(*   required    ids of the policy's required proof requests               *)
(*   receipts    sequence of [requests, result, timedOut, contradictory,   *)
(*               headOnly, current]                                        *)
(*   portfolio   [readable, tasks], a task is [required, requests]         *)
(*   tools       tool -> [outcome, required]                               *)
(*   reporter    what the reporter's turn says                             *)
(* and c says how strict the run is: [intelligent, forward].               *)
(***************************************************************************)
EXTENDS Naturals, Sequences, FiniteSets, SequencesExt

\* sensor_issue_is_demonstrated_finding(): "failed" alone is not one.
Demonstrated(i) == i = "finding"

RequiredSensors(f) == {s \in DOMAIN f.sensors : f.sensors[s].required}
HasIssue(f, s)     == f.sensors[s].issue # "none"

RequiredFailed(f) == {s \in RequiredSensors(f) : Demonstrated(f.sensors[s].issue)}

\* Faulty variant: every failed process counts as a finding.
RequiredUnreportedButFailures(f) ==
  {s \in RequiredSensors(f) : f.sensors[s].issue \notin {"none", "finding", "no_verdict"}}

RequiredUnreported(f) ==
  {s \in RequiredSensors(f) : HasIssue(f, s) /\ ~Demonstrated(f.sensors[s].issue)}

\* build_sensor_coverage(): a sensor that owed evidence is counted once on
\* each side of the account.
Owed(f) == {s \in DOMAIN f.sensors : f.sensors[s].run \/ HasIssue(f, s)}

Bucket(i) == CASE i \in {"finding", "no_verdict"} -> "failed"
               [] i = "timed_out" -> "timed_out"
               [] OTHER -> "skipped"

Coverage(f) ==
  LET Count(P(_)) == Cardinality({s \in Owed(f) : P(s)})
      Required(s) == f.sensors[s].required
      Lost(s, b)  == HasIssue(f, s) /\ Bucket(f.sensors[s].issue) = b
  IN [required_total     |-> Count(Required),
      required_completed |-> Count(LAMBDA s : Required(s) /\ ~HasIssue(f, s)),
      optional_total     |-> Count(LAMBDA s : ~Required(s)),
      optional_completed |-> Count(LAMBDA s : ~Required(s) /\ ~HasIssue(f, s)),
      failed    |-> Count(LAMBDA s : Lost(s, "failed")),
      timed_out |-> Count(LAMBDA s : Lost(s, "timed_out")),
      skipped   |-> Count(LAMBDA s : Lost(s, "skipped"))]

Total(v)     == v.required_total + v.optional_total
Completed(v) == v.required_completed + v.optional_completed
LostOf(v)    == v.failed + v.timed_out + v.skipped

--------------------------------------------------------------------------------
\* required_proof_receipt_class()
Class(r) ==
  IF \/ r.timedOut \/ r.contradictory
     \/ r.result \in {"head_failed", "timed_out"} THEN "Failed"
  ELSE IF r.result \in {"head_passed", "discriminating"} THEN "Passed"
  ELSE "Skipped"

\* The first receipt that names the request answers it.
ProofOf(f, q) ==
  LET i == SelectInSeq(f.receipts, LAMBDA r : q \in r.requests)
  IN IF i = 0 THEN "Skipped" ELSE Class(f.receipts[i])

ProofsThat(f, class) == {q \in f.required : ProofOf(f, q) = class}

\* planner_receipt_proves_task()
Proves(r, t) ==
  /\ r.current
  /\ Class(r) = "Passed" /\ ~r.headOnly
  /\ r.requests \cap t.requests # {}

\* build_planner_required_proof_accounting(); no portfolio, no accounting.
Unproven(f) ==
  IF ~f.portfolio.readable THEN {}
  ELSE {t \in f.portfolio.tasks : t.required /\ ~\E r \in ToSet(f.receipts) : Proves(r, t)}

\* proof_receipt_is_test_proof_result()
IsTestProof(r) ==
  ~r.contradictory /\ r.result \in {"discriminating", "head_passed", "head_failed"}

--------------------------------------------------------------------------------
\* build_review_terminal_state(): how far the review got.
Status(f, c) ==
  LET content == f.prepared \/ f.inline \/ f.value
      gap     == c.intelligent /\ \E s \in RequiredSensors(f) : HasIssue(f, s)
  IN IF f.lanes.usable = 0 /\ ~f.dry /\ ~f.off /\ ~f.smoke /\ ~content THEN "failed-to-review"
     ELSE IF content \/ \E r \in ToSet(f.receipts) : IsTestProof(r)
          THEN "needs-reviewer-attention"
     ELSE IF ~f.dry /\ gap THEN "failed-to-review"
     ELSE IF f.dry \/ f.off \/ f.smoke THEN "artifact-only"
     ELSE "sufficient"

EvidenceUnavailable == {"required-sensor", "required-tool-timeout", "reporter-evidence"}

SensorReason(i) == CASE Demonstrated(i) -> "sensor-finding"
                     [] i = "timed_out" -> "required-tool-timeout"
                     [] OTHER -> "required-sensor"

ReporterReason(v) == CASE v = "changes_requested" -> "reporter-verdict"
                       [] v = "clear" -> "none"
                       [] OTHER -> "reporter-evidence"

\* The kinds of blocking reason build_gate_outcome() collects.
Reasons(f, c) ==
  (IF f.policyErrors THEN {"policy"} ELSE {})
    \cup {"required-proof" : q \in ProofsThat(f, "Failed")}
    \cup (IF f.unprovenBlocks THEN {"blocking-finding" : q \in ProofsThat(f, "Skipped")} ELSE {})
    \cup {"tool-gate" : t \in {x \in DOMAIN f.tools : f.tools[x].outcome = "failed"}}
    \cup {"blocking-finding" : t \in {x \in DOMAIN f.tools :
            /\ f.tools[x] = [outcome |-> "missing_evidence", required |-> TRUE]
            /\ f.missingBlocks}}
    \cup (IF c.intelligent
          THEN {SensorReason(f.sensors[s].issue) : s \in {x \in RequiredSensors(f) : HasIssue(f, x)}}
          ELSE {})
    \cup (IF c.forward THEN {ReporterReason(f.reporter)} \ {"none"} ELSE {})

Conclusion(f, c) ==
  IF Reasons(f, c) = {} THEN "pass"
  ELSE IF Reasons(f, c) \subseteq EvidenceUnavailable THEN "inconclusive"
  ELSE "fail"

--------------------------------------------------------------------------------
\* What keeps the analysis from being proven, by the token of its reason.
Doubts(f, c) ==
  LET v == Coverage(f)
      If(p, token) == IF p THEN {token} ELSE {}
  IN If(Status(f, c) = "failed-to-review", "terminal-state")
       \cup If(RequiredUnreported(f) # {}, "required-sensor-coverage")
       \cup If(ProofsThat(f, "Skipped") # {}, "required-proof")
       \cup If(Unproven(f) # {}, "required-planner-proof")
       \cup If(f.lanes.total > 0 /\ f.lanes.usable = 0, "model-coverage")
       \cup If(Total(v) > 0 /\ Completed(v) = 0, "instrument-coverage")

Material(f) == f.inline \/ f.summary

Deterministic(f, c) ==
  \/ ~(Reasons(f, c) \subseteq EvidenceUnavailable)
  \/ RequiredFailed(f) # {}
  \/ ProofsThat(f, "Failed") # {}

Limited(f) ==
  \/ LostOf(Coverage(f)) > 0
  \/ f.lanes.usable < f.lanes.total
  \/ f.lanes.starved > 0

Analysis(f, c) ==
  IF Material(f) \/ Deterministic(f, c) THEN "findings"
  ELSE IF Doubts(f, c) # {} THEN "not_proven"
  ELSE IF Limited(f) THEN "limited"
  ELSE "clean"

Publication(f, c) ==
  IF f.prepared THEN "posted"
  ELSE IF Status(f, c) = "failed-to-review" THEN "not_proven"
  ELSE IF Material(f) THEN "failed"
  ELSE "not_needed"

Unpublished(f, c) == Publication(f, c) \in {"failed", "not_proven"}

GateResult(f, c) ==
  IF Unpublished(f, c) THEN "not_proven"
  ELSE IF Conclusion(f, c) = "fail" THEN "finding"
  ELSE IF Analysis(f, c) = "not_proven" \/ Conclusion(f, c) = "inconclusive" THEN "not_proven"
  ELSE IF Deterministic(f, c) THEN "finding"
  ELSE "pass"

\* not_proven_reasons: the doubts, a withheld publication, or, when neither
\* says it, that the conclusion itself is inconclusive.
NotProven(f, c) ==
  LET said == Doubts(f, c) \cup (IF Unpublished(f, c) THEN {"publication"} ELSE {})
  IN IF said = {} /\ GateResult(f, c) = "not_proven" THEN {"gate-conclusion"} ELSE said
================================================================================

------------------------------- MODULE ReviewJob -------------------------------
(***************************************************************************)
(* The end of a run in a CI job, and the job's later steps (action.yml):   *)
(* the run plans the issues it would open, decides the gate and records    *)
(* it; "post" publishes the review and then executes the issue plan        *)
(* against GitHub; "gate-check" turns the recorded verdict into the exit.  *)
(* Jobs of one pull request may follow each other or overlap; a job can be *)
(* killed anywhere, and GitHub's answers can be lost or late.  Every job   *)
(* works in a fresh directory.                                             *)
(***************************************************************************)
EXTENDS GateTruth, IssueBroker

CONSTANTS Jobs,        \* the jobs that run for the pull request
          Facts,       \* what the packet of each job may hold
          Settings,    \* what a job may be configured to do
          CandidateLists,
          NoFacts      \* what a job holds that is not deciding

ASSUME FactsAssumption == \A j \in Jobs : NoFacts \notin Facts[j]

ASSUME PacketsAssumption ==
  \A j \in Jobs : \A f \in Facts[j] :
    /\ IsFiniteSet(DOMAIN f.sensors)
    /\ \A s \in DOMAIN f.sensors : f.sensors[s].required \in BOOLEAN
    /\ f.receipts \in Seq(ToSet(f.receipts))

ASSUME CandidatesAssumption ==
  \A cands \in CandidateLists : cands \in Seq(ToSet(cands))

VARIABLES
  pc, conf,
  facts,    \* what the run found, while it decides
  packet,   \* the verdict in review/gate_outcome.json
  plan,     \* the entries of the issue plan still to execute
  posted,   \* whether the review submission lets the job go on
  asked,    \* how many issues there were when the job last searched,
            \* or started
  wire,     \* create requests that have not reached GitHub
  issues    \* the issues GitHub holds that the jobs opened, in order

vars == <<pc, conf, facts, packet, plan, posted, asked, wire, issues>>
run  == <<facts, packet>>
hub  == <<wire, issues>>

Verdicts == {"pass", "fail", "inconclusive"}
Ended    == {"green", "red", "cancelled"}

Init ==
  /\ pc = [j \in Jobs |-> "idle"]
  /\ conf \in [Jobs -> Settings]
  /\ facts = [j \in Jobs |-> NoFacts]
  /\ packet = [j \in Jobs |-> "none"]
  /\ plan = [j \in Jobs |-> << >>]
  /\ posted = [j \in Jobs |-> FALSE]
  /\ asked = [j \in Jobs |-> 0]
  /\ wire = {}
  /\ issues = << >>

Goto(j, to) == pc' = [pc EXCEPT ![j] = to]

\* ReviewModePreset::resolve() wins over the single knobs.
Resolved(c) ==
  CASE c.preset = "none"     -> [mode |-> c.mode, failOnGate |-> c.failOnGate, forward |-> c.forward]
    [] c.preset = "advisory" -> [mode |-> "review-byok", failOnGate |-> "false", forward |-> FALSE]
    [] c.preset = "gate"     -> [mode |-> "intelligent-ci", failOnGate |-> "true", forward |-> FALSE]
    [] c.preset = "strict"   -> [mode |-> "intelligent-ci", failOnGate |-> "true", forward |-> TRUE]

Strictness(c) == [intelligent |-> Resolved(c).mode = "intelligent-ci",
                  forward     |-> Resolved(c).forward]

\* FailOnGate::resolved()
Enforced(c) ==
  \/ Resolved(c).failOnGate = "true"
  \/ Resolved(c).failOnGate = "auto" /\ Resolved(c).mode = "intelligent-ci"

--------------------------------------------------------------------------------
(* The run.                                                                *)
Start(j) ==
  /\ pc[j] = "idle"
  /\ Goto(j, "run")
  /\ asked' = [asked EXCEPT ![j] = Len(issues)]
  /\ UNCHANGED <<conf, run, plan, posted, hub>>

\* The issue plan is written before the gate is decided, and only if the
\* repository opted in.
PlanIssues(j) ==
  /\ pc[j] = "run"
  /\ \E cands \in CandidateLists :
       plan' = [plan EXCEPT ![j] = IF conf[j].broker THEN BrokerPlan(cands) ELSE << >>]
  /\ Goto(j, "planned")
  /\ UNCHANGED <<conf, run, posted, asked, hub>>

Decide(j) ==
  /\ pc[j] = "planned"
  /\ \E f \in Facts[j] : facts' = [facts EXCEPT ![j] = f]
  /\ Goto(j, "decided")
  /\ UNCHANGED <<conf, packet, plan, posted, asked, hub>>

\* gate_outcome.json is written in place: it can be cut short.
Record(j) ==
  /\ pc[j] = "decided"
  /\ \/ /\ packet' = [packet EXCEPT ![j] = Conclusion(facts[j], Strictness(conf[j]))]
        /\ Goto(j, "recorded")
     \/ packet' = [packet EXCEPT ![j] = "torn"] /\ Goto(j, "failing")
  /\ facts' = [facts EXCEPT ![j] = NoFacts]
  /\ UNCHANGED <<conf, plan, posted, asked, hub>>

\* What follows the outcome (the review payload or its skip receipt, the logs
\* and the ledgers) succeeds, or
FinishRun(j) ==
  /\ pc[j] = "recorded"
  /\ Goto(j, IF conf[j].posting THEN "post" ELSE "check")
  /\ UNCHANGED <<conf, run, plan, posted, asked, hub>>

\* the run fails, at any point; the later steps of the job are skipped.
FailRun(j) ==
  /\ pc[j] \in {"run", "planned", "decided", "recorded", "failing"}
  /\ Goto(j, "red")
  /\ facts' = [facts EXCEPT ![j] = NoFacts]
  /\ UNCHANGED <<conf, packet, plan, posted, asked, hub>>

--------------------------------------------------------------------------------
(* cmd_post().                                                             *)
\* The review is submitted, skipped, or fails, which stops the job only on
\* request; then the broker runs.  A result that cannot be written ends the
\* command before the broker; a plan that cannot be read is tolerated.
PostReview(j) ==
  /\ pc[j] = "post"
  /\ \/ /\ \E good \in BOOLEAN : posted' = [posted EXCEPT ![j] = good \/ ~conf[j].fatal]
        /\ plan' \in {plan, [plan EXCEPT ![j] = << >>]}
        /\ Goto(j, "entry")
     \/ Goto(j, "red") /\ UNCHANGED <<posted, plan>>
  /\ UNCHANGED <<conf, run, asked, hub>>

AtEntry(j) == pc[j] = "entry" /\ plan[j] # << >>

NextEntry(j) == plan' = [plan EXCEPT ![j] = Tail(@)] /\ Goto(j, "entry")

\* Faulty variant: a search that fails counts as one that finds nothing.
PassOverButOpens(j) ==
  /\ AtEntry(j)
  /\ \/ Head(plan[j]).decision = "skip" /\ NextEntry(j)
     \/ Head(plan[j]).decision = "attempt" /\ Goto(j, "create") /\ UNCHANGED plan
  /\ UNCHANGED <<conf, run, posted, asked, hub>>

\* An entry is a skip, there is no token, or the duplicate search fails, and
\* nothing is opened without it.
PassOver(j) ==
  /\ AtEntry(j)
  /\ NextEntry(j)
  /\ UNCHANGED <<conf, run, posted, asked, hub>>

\* The search for the fingerprint in the bodies of the target's issues.
Found(e) == \E i \in DOMAIN issues : issues[i].fp = e.fp /\ issues[i].target = e.target

Search(j) ==
  /\ AtEntry(j) /\ Head(plan[j]).decision = "attempt"
  /\ \/ Found(Head(plan[j])) /\ NextEntry(j) /\ UNCHANGED asked
     \/ /\ ~Found(Head(plan[j])) /\ Goto(j, "create") /\ UNCHANGED plan
        /\ asked' = [asked EXCEPT ![j] = Len(issues)]
  /\ UNCHANGED <<conf, run, posted, hub>>

\* The create request is sent, unless its payload cannot be written.
Create(j) ==
  /\ pc[j] = "create"
  /\ \/ /\ Goto(j, "await") /\ UNCHANGED plan
        /\ wire' = wire \cup {[by |-> j, fp |-> Head(plan[j]).fp,
                               target |-> Head(plan[j]).target, after |-> asked[j]]}
     \/ NextEntry(j) /\ UNCHANGED wire
  /\ UNCHANGED <<conf, run, posted, asked, issues>>

\* An answer, confirmed or not, a failure, or curl's limit: the broker goes on
\* and never asks again.
Answered(j) ==
  /\ pc[j] = "await"
  /\ NextEntry(j)
  /\ UNCHANGED <<conf, run, posted, asked, hub>>

\* The broker never changes the exit of the post.
LeaveBroker(j) ==
  /\ pc[j] = "entry" /\ plan[j] = << >>
  /\ Goto(j, IF posted[j] THEN "check" ELSE "red")
  /\ UNCHANGED <<conf, run, plan, posted, asked, hub>>

\* GitHub opens the issue, perhaps long after the client gave up, or never.
Hub ==
  /\ \E m \in wire : /\ wire' = wire \ {m}
                     /\ issues' \in {issues, Append(issues, m)}
  /\ UNCHANGED <<pc, conf, run, plan, posted, asked>>

--------------------------------------------------------------------------------
\* Faulty variant: only an explicit "fail" turns the check red.
GreenButLenient(j) == packet[j] # "fail"

\* cmd_gate_check(): fails closed.
Green(j) == ~Enforced(conf[j]) \/ packet[j] = "pass"

Check(j) ==
  /\ pc[j] = "check"
  /\ Goto(j, IF Green(j) THEN "green" ELSE "red")
  /\ UNCHANGED <<conf, run, plan, posted, asked, hub>>

\* The job is cancelled, or meets its timeout.
Kill(j) ==
  /\ pc[j] \notin Ended \cup {"idle"}
  /\ Goto(j, "cancelled")
  /\ facts' = [facts EXCEPT ![j] = NoFacts]
  /\ UNCHANGED <<conf, packet, plan, posted, asked, hub>>

Step(j) ==
  \/ Start(j) \/ PlanIssues(j) \/ Decide(j) \/ Record(j) \/ FinishRun(j) \/ FailRun(j)
  \/ PostReview(j) \/ PassOver(j) \/ Search(j) \/ Create(j) \/ Answered(j)
  \/ LeaveBroker(j) \/ Check(j) \/ Kill(j)

Next == Hub \/ \E j \in Jobs : Step(j)

Spec == Init /\ [][Next]_vars

--------------------------------------------------------------------------------
\* A requirement of the run that nothing answered: evidence that could not be
\* had, not evidence of a defect.
Unanswered(f, c) ==
  \/ \E s \in DOMAIN f.sensors :
       f.sensors[s].required /\ f.sensors[s].issue \in {"no_verdict", "timed_out", "missing"}
  \/ \E q \in f.required : ~\E r \in ToSet(f.receipts) : q \in r.requests /\ Class(r) # "Skipped"
  \/ \E t \in Unproven(f) : TRUE
  \/ f.lanes.total > 0 /\ f.lanes.usable = 0
  \/ Owed(f) # {} /\ \A s \in Owed(f) : HasIssue(f, s)
  \/ Status(f, c) = "failed-to-review"

\* Something an instrument, a proof or the repository's policy demonstrated.
Defect(f, c) ==
  \/ \E s \in DOMAIN f.sensors : f.sensors[s].required /\ f.sensors[s].issue = "finding"
  \/ ProofsThat(f, "Failed") # {}
  \/ f.policyErrors
  \/ \E t \in DOMAIN f.tools : f.tools[t].outcome = "failed"

\* #839, and "the packet verifier" of GateSensorCoverage: the account of the
\* sensors balances; a requirement nothing answered is always among the
\* reasons and never reads clean or limited; findings the reviewer does not get
\* are never a pass; a pass is a pass of the conclusion too, without a defect,
\* and covers an unanswered requirement only where a published model finding
\* already says that the review is not clean.
Truthful(f, c) ==
  LET v == Coverage(f)
  IN /\ Total(v) - Completed(v) = LostOf(v)
     /\ LostOf(v) > 0 => Analysis(f, c) # "clean"
     /\ Unanswered(f, c) => Analysis(f, c) \in {"findings", "not_proven"}
     /\ \/ Unanswered(f, c) \/ Analysis(f, c) = "not_proven"
        \/ Publication(f, c) = "not_proven" \/ GateResult(f, c) = "not_proven"
        => NotProven(f, c) # {}
     /\ Material(f) /\ ~f.prepared => GateResult(f, c) = "not_proven"
     /\ GateResult(f, c) = "pass" =>
          /\ Conclusion(f, c) = "pass"
          /\ ~Defect(f, c)
          /\ Unanswered(f, c) => Material(f) /\ f.prepared

TruthfulOutcome ==
  \A j \in Jobs : pc[j] = "decided" => Truthful(facts[j], Strictness(conf[j]))

\* cmd_post(): "the fingerprint duplicate search makes it idempotent across
\* passes".  Whatever is lost, late or killed, the same follow-up is open twice
\* only if the second request's search came before the first issue existed; a
\* job opens it at most once, at most open_cap issues in all, and only where
\* the repository allows it.
OpenedOnce ==
  /\ \A i, k \in DOMAIN issues :
       i < k /\ issues[i].fp = issues[k].fp /\ issues[i].target = issues[k].target
       => issues[i].by # issues[k].by /\ issues[k].after < i
  /\ \A i \in DOMAIN issues : issues[i].target \in OpenIn
  /\ \A j \in Jobs : Cardinality({i \in DOMAIN issues : issues[i].by = j}) <= OpenCap

--------------------------------------------------------------------------------
\* A job is an attempt of the gate as GateAttempts promises it: enforced, it is
\* green only with the verdict "pass" on disk.
phaseOf(at) == CASE at = "idle"  -> "none"
                 [] at = "green" -> "success"
                 [] at = "red"   -> "failure"
                 [] at = "cancelled" -> "cancelled"
                 [] OTHER        -> "working"

Promise == INSTANCE GateAttempts WITH
  Attempts    <- Jobs,
  Enforcement <- BOOLEAN,
  phase       <- [j \in Jobs |-> phaseOf(pc[j])],
  recorded    <- packet,
  enforced    <- [j \in Jobs |-> Enforced(conf[j])]

KeepsPromise == Promise!AttemptSpec
================================================================================

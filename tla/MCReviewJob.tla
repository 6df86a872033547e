------------------------------- MODULE MCReviewJob -------------------------------
(***************************************************************************)
(* Two jobs of one pull request.  The facts are families that vary one     *)
(* part of the packet in all combinations around a packet where everything *)
(* went well.                                                              *)
(***************************************************************************)
EXTENDS ReviewJob

MCJobs == 1 .. 2

\* Strict and enforced by mode; advisory by a preset that overrides its knobs.
Strict   == [preset |-> "none", mode |-> "intelligent-ci", failOnGate |-> "auto",
             forward |-> TRUE, posting |-> TRUE, fatal |-> TRUE, broker |-> TRUE]
Advisory == [preset |-> "advisory", mode |-> "intelligent-ci", failOnGate |-> "true",
             forward |-> FALSE, posting |-> TRUE, fatal |-> FALSE, broker |-> TRUE]
Quiet    == [preset |-> "none", mode |-> "review-byok", failOnGate |-> "true",
             forward |-> FALSE, posting |-> FALSE, fatal |-> FALSE, broker |-> FALSE]
MCSettings == {Strict, Advisory, Quiet}

Sensor(req, ran, what) == [required |-> req, run |-> ran, issue |-> what]
Lanes(t, u, s)         == [total |-> t, usable |-> u, starved |-> s]
Receipt(result)        == [requests |-> {"q"}, result |-> result, timedOut |-> FALSE,
                           contradictory |-> FALSE, headOnly |-> FALSE, current |-> TRUE]
Passing == Receipt("discriminating")
Tool(outcome, req)     == [outcome |-> outcome, required |-> req]

Well ==
  [sensors |-> [s \in {"tests", "lint"} |-> Sensor(s = "tests", TRUE, "none")],
   lanes |-> Lanes(1, 1, 0), inline |-> FALSE, summary |-> FALSE, value |-> FALSE,
   prepared |-> FALSE, off |-> FALSE, dry |-> FALSE, smoke |-> FALSE,
   policyErrors |-> FALSE, unprovenBlocks |-> FALSE, missingBlocks |-> FALSE,
   required |-> {}, receipts |-> << >>, portfolio |-> [readable |-> FALSE, tasks |-> {}],
   tools |-> [t \in {} |-> 0], reporter |-> "clear"]

Reviews == {Well, [Well EXCEPT !.inline = TRUE, !.prepared = TRUE],
            [Well EXCEPT !.summary = TRUE]}

Sensed ==
  {[r EXCEPT !.sensors["tests"].issue = i, !.sensors["lint"] = o, !.lanes = l, !.off = (l.total = 0)] :
     r \in Reviews, i \in {"none", "finding", "no_verdict", "timed_out", "missing"},
     o \in {Sensor(FALSE, FALSE, "none"), Sensor(FALSE, TRUE, "none"), Sensor(FALSE, TRUE, "timed_out")},
     l \in {Lanes(0, 0, 0), Lanes(1, 1, 0), Lanes(1, 0, 1)}}

Proofs == {<< >>, <<Passing>>, <<[Passing EXCEPT !.current = FALSE]>>,
           <<[Passing EXCEPT !.headOnly = TRUE]>>, <<[Passing EXCEPT !.timedOut = TRUE]>>,
           <<Receipt("head_failed")>>, <<Receipt("non_discriminating"), Passing>>}

Proven ==
  {[Well EXCEPT !.required = {"q"}, !.receipts = p, !.portfolio = t, !.unprovenBlocks = b] :
     p \in Proofs, b \in BOOLEAN,
     t \in {[readable |-> FALSE, tasks |-> {}],
            [readable |-> TRUE, tasks |-> {[required |-> TRUE, requests |-> {"q"}]}]}}

Judged ==
  {[Well EXCEPT !.tools = [t \in {"ripr"} |-> x], !.reporter = v, !.policyErrors = p, !.missingBlocks = b] :
     x \in {Tool("passed", TRUE), Tool("failed", FALSE), Tool("missing_evidence", TRUE)},
     v \in {"clear", "changes_requested", "uncertain"}, p \in BOOLEAN, b \in BOOLEAN}

Thin == {[Well EXCEPT !.dry = d, !.smoke = m, !.lanes = Lanes(1, 0, 0), !.value = v] :
           d \in BOOLEAN, m \in BOOLEAN, v \in BOOLEAN}

\* The second job only needs to end each way.
Plain   == {Well, [Well EXCEPT !.policyErrors = TRUE], [Well EXCEPT !.reporter = "uncertain"]}
MCFacts == <<Sensed \cup Proven \cup Judged \cup Thin, Plain>>

Follow(f, target) == [fp |-> f, target |-> target, valid |-> TRUE, renders |-> TRUE]
MCCandidateLists ==
  {<<Follow(1, "own"), Follow(1, "own"), Follow(2, "other"), Follow(3, "own")>>}
MCOpenIn == {"own"}
================================================================================

----------------------------- MODULE FindingFlow -----------------------------
(***************************************************************************)
(* The way of the findings of one run from the lanes to the final review   *)
(* surfaces: the lanes raise them in lane order, duplicates are merged,    *)
(* the sensor's are added and merged again, the refuter decides, conflicts *)
(* are noted, the candidates go on record, follow-ups resolve some of them *)
(* away, and the final compiler reconciles what is left with the claims    *)
(* and threads of the run.                                                 *)
(***************************************************************************)
EXTENDS ClaimTopics

CONSTANTS
  Offers,        \* what a lane may raise, not yet numbered
  SensorLane,    \* the lane of the unsafe-review sensor, above the others
  MaxRaised,     \* bounds what is raised in a run
  Replies,       \* what a follow-up may answer: observations and summaries
  PriorThreads   \* the threads the pull request may hold

Findings ==
  [id : Nat, kind : {"comment", "summary", "observation"}, lane : Nat, at : Seq(Nat), claim : Nat,
   ev : Seq(Nat), grade : Nat, fit : STRING, word : STRING, status : STRING, key : Nat]

ASSUME FlowAssumption ==
  /\ MaxRaised \in Nat /\ SensorLane \in Nat
  /\ Offers \subseteq Findings /\ Replies \subseteq Seq(Findings)
  /\ \A o \in Offers : o.lane <= SensorLane /\ (o.kind = "summary" => o.at = NoPlace)

VARIABLES
  pc,            \* the stage the run is in
  raised,        \* the findings raised so far, in order
  comments,      \* inline_comments
  summaries,     \* summary_only_findings
  observations,  \* model_observations
  dropped,       \* what the refuter dropped with confidence
  candidates,    \* the records of candidates.json
  outputs,       \* the output of each follow-up task that was tried
  away,          \* candidates resolved to refuted or dropped
  receipt        \* of the reconciliation: its status and what it lists as removed

flowVars == <<pc, raised, comments, summaries, observations, dropped, candidates,
          outputs, away, receipt>>

NoReconciliation == [status |-> "none", removed |-> {}]

FlowInit ==
  /\ pc = "lanes" /\ raised = <<>>
  /\ comments = <<>> /\ summaries = <<>> /\ observations = <<>>
  /\ dropped = {} /\ candidates = <<>> /\ outputs = <<>> /\ away = {}
  /\ receipt = NoReconciliation

(***************************************************************************)
(* apply_model_output(), one finding at a time; the results of the wave    *)
(* were put back into lane order before.                                   *)
(***************************************************************************)
Raise(o) ==
  LET f == [o EXCEPT !.id = Len(raised) + 1]
  IN  /\ Len(raised) < MaxRaised
      /\ raised # <<>> => Last(raised).lane <= o.lane
      /\ raised' = Append(raised, f)
      /\ \/ Observed(f) /\ observations' = Append(observations, ObservationOf(f))
                        /\ UNCHANGED <<comments, summaries>>
         \/ ~Observed(f) /\ GoesInline(f) /\ comments' = Append(comments, CommentOf(f))
                         /\ UNCHANGED <<observations, summaries>>
         \/ ~Observed(f) /\ ~GoesInline(f) /\ summaries' = Append(summaries, SummaryOf(f))
                         /\ UNCHANGED <<observations, comments>>
      /\ UNCHANGED <<pc, dropped, candidates, outputs, away, receipt>>

LaneRaises(o) == pc = "lanes" /\ o.lane < SensorLane /\ Raise(o)
SensorRaises(o) == pc = "sensor" /\ o.lane = SensorLane /\ Raise(o)

\* dedupe_inline_comments(), after the lanes and again after the sensor.
Merge(from, to) ==
  /\ pc = from /\ pc' = to
  /\ comments' = Dedupe(comments).kept
  /\ summaries' = summaries \o Dedupe(comments).notes
  /\ UNCHANGED <<raised, observations, dropped, candidates, outputs, away, receipt>>

(***************************************************************************)
(* run_refuter_pass().  Without a usable answer nothing stays inline.      *)
(***************************************************************************)
Decisions == [verdict : {"inline", "drop", "unsure"}, word : {"plain"}]
               \cup [verdict : {"unsure"}, word : {"refuted"}]

Refute ==
  /\ pc = "refuter" /\ pc' = "conflicts"
  /\ \E decided \in SUBSET {comments[i].at : i \in DOMAIN comments} :
     \E said \in [decided -> Decisions] :
       LET r == Refuted(comments, said)
       IN  /\ comments' = r.kept
           /\ summaries' = summaries \o r.demoted
           /\ dropped' = r.dropped
  /\ UNCHANGED <<raised, observations, candidates, outputs, away, receipt>>

\* append_cross_lane_conflict_observations(): a surface of at least medium
\* severity with the first refutation it was not yet paired with, at most three.
Paired(acc, s) ==
  LET fresh == Where(observations, {i \in DOMAIN observations :
                       /\ Conflicts(s, observations[i])
                       /\ <<Face(s), observations[i].key>> \notin ToSet(acc)})
  IN  IF s.grade = 0 \/ fresh = <<>> THEN acc ELSE Append(acc, <<Face(s), Head(fresh).key>>)

Pairs(surfaces) ==
  LET upto[n \in 0 .. Len(surfaces)] == IF n = 0 THEN <<>> ELSE Paired(upto[n - 1], surfaces[n])
  IN  upto[Len(surfaces)]

ConflictQuestion(s) ==
  LET text == Text("conflict", <<s.lane>> \o s.at, s.text.claim)
  IN  [lane |-> 0, at |-> s.at, text |-> text, status |-> "open", key |-> text, from |-> 0]

NoteConflicts ==
  LET pairs == Pairs(comments \o summaries)
  IN  /\ pc = "conflicts" /\ pc' = "record"
      /\ observations' = observations \o
           [i \in 1 .. Min({3, Len(pairs)}) |-> ConflictQuestion(pairs[i][1])]
      /\ UNCHANGED <<raised, comments, summaries, dropped, candidates, outputs, away, receipt>>

\* The candidates are written and the surfaces read back from them.
Record ==
  /\ pc = "record" /\ pc' = "follow-up"
  /\ candidates' = Candidates(comments, summaries)
  /\ UNCHANGED <<raised, comments, summaries, observations, dropped, outputs, away, receipt>>

(***************************************************************************)
(* Follow-ups: one task for each pair of disposition and evidence need.    *)
(***************************************************************************)
Group(c) == <<c.disposition, c.need>>
Groups == {Group(c) : c \in {d \in ToSet(candidates) : d.disposition \notin {"inline", "dropped"}}}
Asked == {a.group : a \in ToSet(outputs)}
AskNext == CHOOSE g \in Groups \ Asked : TRUE

FollowUpLane(k) == SensorLane + k

\* run_follow_up_model_pass(): a reply goes through apply_model_output() with
\* the lane of its task; a task may also be left without an answer.
Ask ==
  /\ pc = "follow-up" /\ Groups \ Asked # {}
  /\ \E reply \in Replies \cup {<<>>} :
       LET lane == FollowUpLane(Len(outputs) + 1)
           said == [i \in DOMAIN reply |-> [reply[i] EXCEPT !.id = 0, !.lane = lane]]
           Seen == {i \in DOMAIN said : Observed(said[i])}
       IN  outputs' = Append(outputs,
             [group |-> AskNext,
              observations |-> Where([i \in DOMAIN said |-> ObservationOf(said[i])], Seen),
              summaries |-> Where([i \in DOMAIN said |-> SummaryOf(said[i])], DOMAIN said \ Seen)])
  /\ UNCHANGED <<pc, raised, comments, summaries, observations, dropped, candidates, away, receipt>>

\* resolved_candidate_signals()
Signals(a) ==
  LET Some(status) == \E o \in ToSet(a.observations) : o.status = status
      Sum(disposition) == \E s \in ToSet(a.summaries) : Disposition(s) = disposition
  IN  {d \in {"refuted", "dropped", "parked-follow-up"} :
         \/ d = "refuted" /\ (Some("refuted") \/ Sum("refuted"))
         \/ d = "dropped" /\ (Some("covered") \/ Sum("dropped"))
         \/ d = "parked-follow-up" /\ (Some("parked") \/ Sum("parked-follow-up"))}

\* A prior run's resolution counts for the same candidate of the same revision
\* when this run's follow-ups give no signal.
Resolution(c, prior) ==
  LET signals == UNION {Signals(a) : a \in {b \in ToSet(outputs) : b.group = Group(c)}}
  IN  CASE Cardinality(signals) > 1 -> "conflicting"
        [] Cardinality(signals) = 1 -> CHOOSE d \in signals : TRUE
        [] signals = {} /\ \E p \in prior : p.face = Face(c.surface) /\ p.kind = c.kind
                                           /\ p.current -> "refuted"
        [] OTHER -> "unchanged"

Priors == {[face |-> Face(c.surface), kind |-> c.kind, current |-> b] :
             c \in ToSet(candidates), b \in BOOLEAN}

Resolve ==
  /\ pc = "follow-up" /\ Groups \ Asked = {} /\ pc' = "compile"
  /\ \E prior \in {{}} \cup {{p} : p \in Priors} :
       away' = {i \in DOMAIN candidates :
                  Resolution(candidates[i], prior) \in {"refuted", "dropped"}}
  /\ UNCHANGED <<raised, comments, summaries, observations, dropped, candidates, outputs, receipt>>

(***************************************************************************)
(* The final compiler.                                                     *)
(***************************************************************************)
\* candidate_matches_inline_comment()
MatchesComment(c, s) ==
  c.kind = "inline" /\ c.surface.lane = s.lane /\ c.surface.at = s.at /\ c.surface.text = s.text

\* candidate_matches_summary_finding()
MatchesSummary(c, s) ==
  /\ c.kind = "summary" /\ c.surface.lane = s.lane /\ c.surface.text = s.text
  /\ c.surface.ev = s.ev /\ c.surface.word = s.word

FollowUpSummaries == FlattenSeq([k \in DOMAIN outputs |-> outputs[k].summaries])

LeftComments ==
  Where(comments, {k \in DOMAIN comments :
                     ~\E i \in away : MatchesComment(candidates[i], comments[k])})

\* Faulty variant: only inline candidates are taken off their surface.
LeftSummariesButAll == summaries \o FollowUpSummaries

LeftSummaries ==
  Where(summaries, {k \in DOMAIN summaries :
                      ~\E i \in away : MatchesSummary(candidates[i], summaries[k])})
    \o FollowUpSummaries

AllObservations == observations \o FlattenSeq([k \in DOMAIN outputs |-> outputs[k].observations])

Froms(s) == {s[i].from : i \in DOMAIN s}

\* With the threads the pull request holds, and either order of the ids.
ClaimGraphs ==
  {Graph(AllObservations, LeftComments, LeftSummaries, threads, last) :
     threads \in {{}} \cup {{h} : h \in PriorThreads}, last \in BOOLEAN}

\* A reduction the receipt cannot explain publishes nothing.
Compile ==
  /\ pc = "compile" /\ pc' = "done"
  /\ \E graph \in ClaimGraphs :
       LET after == ReconcileSurfaces(graph, LeftComments, LeftSummaries)
       IN  IF ReceiptHolds(graph, LeftComments, LeftSummaries, AllObservations, after)
           THEN /\ comments' = after.comments /\ summaries' = after.summaries
                /\ receipt' = [status |-> "ok",
                               removed |-> Froms(LeftComments \o LeftSummaries)
                                             \ Froms(after.comments \o after.summaries)]
           ELSE /\ comments' = <<>> /\ summaries' = <<>>
                /\ receipt' = [status |-> "error", removed |-> {}]
  /\ UNCHANGED <<raised, observations, dropped, candidates, outputs, away>>

FlowNext ==
  \/ \E o \in Offers : LaneRaises(o) \/ SensorRaises(o)
  \/ Merge("lanes", "sensor")
  \/ Merge("sensor", "refuter")
  \/ Refute \/ NoteConflicts \/ Record
  \/ Ask \/ Resolve \/ Compile

FlowSpec == FlowInit /\ [][FlowNext]_flowVars

(***************************************************************************)
(* Properties.                                                             *)
(***************************************************************************)
\* A candidate a follow-up or a prior run resolved to refuted or dropped does
\* not come back to a final surface, in whatever form it went on record (#314).
ResolvedStaysOut ==
  pc = "done" => \A i \in away : candidates[i].surface.from \notin Froms(comments \o summaries)

\* What was taken off its surface as one of the resolved candidates.
Gone == {c.surface.from : c \in {d \in ToSet(candidates) :
            \E i \in away : /\ candidates[i].kind = d.kind
                            /\ Face(candidates[i].surface) = Face(d.surface)}}

\* Whatever a lane or the sensor raised can be found again at the end: on a
\* final surface, in the note of what it was merged into, as an observation,
\* dropped by the refuter, resolved away, or listed as removed in a receipt
\* that is good.  The receipt is computed apart from the reconciliation; it
\* finds a reason for all that threads, losers and duplicates took away.
NothingVanishes ==
  pc = "done" =>
    /\ receipt.status = "ok"
    /\ \A i \in DOMAIN raised :
         i \in Froms(comments \o summaries) \cup Froms(observations) \cup dropped
               \cup Gone \cup receipt.removed

\* Follow-up evidence refutes the candidates it is about: where it is about one
\* of those its task was asked for, no other is refuted by it.
RefutedOnItsOwnEvidence ==
  \A a \in ToSet(outputs) :
    LET about == {x.text.claim : x \in ToSet(a.observations) \cup ToSet(a.summaries)}
        asked == {i \in DOMAIN candidates : Group(candidates[i]) = a.group}
        Claim(i) == candidates[i].surface.text.claim
    IN  (Signals(a) = {"refuted"} /\ \E i \in asked : Claim(i) \in about) =>
          \A i \in asked \cap away : Claim(i) \in about \cup {NoClaim}
==============================================================================

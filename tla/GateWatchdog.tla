------------------------------ MODULE GateWatchdog ------------------------------
(***************************************************************************)
(* The gate watchdog (gate_watchdog.rs): from frozen observations of the   *)
(* attempts of a pull request's gate runs it says whether the current head *)
(* has reached an honest end.  An attempt is <<run, attempt>>; it behaves  *)
(* as GateAttempts promises and belongs to the head its run was started    *)
(* for.  What is observed was true at some time, so an attempt may be      *)
(* missed, seen too early, or seen twice; the gate artifact found may be   *)
(* that of any attempt that left one, or none.                             *)
(***************************************************************************)
EXTENDS GateAttempts, Naturals, FiniteSets

CONSTANTS Heads, Pending,
          MaxSights    \* how many sightings one set of observations holds

ASSUME AttemptsAssumption == Attempts \subseteq (Nat \X Nat)
ASSUME HeadsAssumption == Heads \subseteq Nat
ASSUME SightsAssumption == MaxSights \in Nat
ASSUME PendingAssumption == Pending \notin Attempts

VARIABLES head,     \* the head of the pull request
          sha,      \* the head each attempt is of
          verdict   \* what the watchdog wrote, once it has

watchVars == <<phase, recorded, enforced, head, sha, verdict>>

NoVerdict == [state |-> "none", conclusion |-> "none", reason |-> "none",
              of |-> Pending, expected |-> 0]

Later(a, b) == a[1] > b[1] \/ (a[1] = b[1] /\ a[2] > b[2])

\* The workflow enforces its gate or does not, in every attempt.
WatchInit ==
  /\ AttemptInit
  /\ \A a, b \in Attempts : enforced[a] = enforced[b]
  /\ head \in {h \in Heads : \A g \in Heads : h <= g}
  /\ sha = [a \in Attempts |-> 0]
  /\ verdict = NoVerdict

Over == {"success", "failure", "cancelled"}

Unwatched == verdict = NoVerdict

\* Pushing a commit.  A push or a dispatch starts a run of the head, and a run
\* that is over may be started again, at the head it was of.
Push ==
  /\ Unwatched
  /\ head' \in {h \in Heads : h > head}
  /\ UNCHANGED <<phase, recorded, enforced, sha, verdict>>

Begin(a) ==
  /\ Unwatched
  /\ StartAttempt(a)
  /\ \/ /\ a[2] = 1 /\ sha' = [sha EXCEPT ![a] = head]
        /\ \A b \in Attempts : b[1] > a[1] => phase[b] = "none"
     \/ LET b == <<a[1], a[2] - 1>> IN
        /\ b \in Attempts /\ phase[b] \in Over
        /\ sha' = [sha EXCEPT ![a] = sha[b]]
  /\ UNCHANGED <<head, verdict>>

Proceed(a) ==
  /\ Unwatched
  /\ RecordOutcome(a) \/ EndAttempt(a)
  /\ UNCHANGED <<head, sha, verdict>>

--------------------------------------------------------------------------------
(* Observations.                                                           *)
\* An observation of an attempt is its lifecycle now or earlier; one that is
\* not completed has no conclusion.
Sight(a, conclusion) == [at |-> a, sha |-> sha[a], conclusion |-> conclusion]

Sights ==
  {Sight(a, "none") : a \in {x \in Attempts : phase[x] # "none"}}
    \cup {Sight(a, phase[a]) : a \in {x \in Attempts : phase[x] \in Over}}

\* The gate artifact names its head and, perhaps, its run, never its attempt.
Artifact(a, named) == [present |-> TRUE, sha |-> sha[a], named |-> named, run |-> a[1],
                       conclusion |-> recorded[a]]
NoArtifact == [present |-> FALSE, sha |-> 0, named |-> FALSE, run |-> 0, conclusion |-> "none"]

Artifacts ==
  {NoArtifact} \cup
  {Artifact(a, named) : a \in {x \in Attempts : recorded[x] # "none"}, named \in BOOLEAN}

--------------------------------------------------------------------------------
(* build_gate_watchdog(), of observations o at the expected head: runs,    *)
(* artifact, deadline, and the worst of the verdict's substrate: a marker  *)
(* of a crashed coordinator or of another head, a required proof of        *)
(* another head, one that is not at its end, or nothing.                   *)
AtHead(o) == {s \in o.runs : s.sha = o.expected}

Newest(o) == {s \in AtHead(o) : \A x \in AtHead(o) : ~Later(x.at, s.at)}

Conflicting(o) == \E x, y \in Newest(o) : x # y

Matches(o, s) ==
  /\ o.artifact.present /\ o.artifact.sha = o.expected
  /\ o.artifact.named => o.artifact.run = s.at[1]

Says(o, state, reason) ==
  [state |-> state, conclusion |-> "none", reason |-> reason, of |-> Pending,
   expected |-> o.expected]

Ends(o, s) == [state |-> "terminal", conclusion |-> o.artifact.conclusion,
               reason |-> "exact-head-terminal", of |-> s.at, expected |-> o.expected]

\* Faulty variant: the artifact alone is believed.
RetainedPassButTrusted(o, s) == FALSE

\* A failed attempt does not confirm the pass that it, or an earlier one, left.
RetainedPass(o, s) == s.conclusion = "failure" /\ o.artifact.conclusion = "pass"

\* The branches for an exact-head attempt s, once the substrate is trusted.
OfAttempt(o, s) ==
  IF ~Conflicting(o) /\ s.conclusion = "cancelled"
  THEN Says(o, "inconclusive", "cancelled-without-replacement")
  ELSE IF Conflicting(o) \/ s.conclusion \notin {"success", "failure"}
  THEN Says(o, "inconclusive", "incomplete-run")
  ELSE IF ~Matches(o, s) \/ o.artifact.conclusion \notin Outcomes
  THEN Says(o, "inconclusive", "missing-artifact")
  ELSE IF RetainedPass(o, s)
  THEN Says(o, "inconclusive", "incomplete-run")
  ELSE Ends(o, s)

\* The branches without one.
OfNone(o) ==
  IF ~o.deadline THEN Says(o, "pending", "awaiting-run")
  ELSE IF \E s \in o.runs : s.sha # o.expected /\ s.conclusion = "success"
  THEN Says(o, "inconclusive", "stale-success")
  ELSE Says(o, "inconclusive", "missing-run")

\* A required proof is orphaned when it is of another head, or not at its end
\* by the deadline.
Orphaned(o) ==
  \/ o.substrate = "stale proof"
  \/ o.substrate = "open proof" /\ o.deadline

Classify(o) ==
  LET newest == Newest(o)
      s      == CHOOSE x \in newest : TRUE
  IN IF newest # {} /\ s.conclusion = "none" /\ ~o.deadline /\ ~Conflicting(o)
     THEN Says(o, "pending", "in-progress-replacement")
     ELSE IF o.substrate = "coordinator" THEN Says(o, "inconclusive", "coordinator-crash")
     ELSE IF Orphaned(o) THEN Says(o, "inconclusive", "orphaned-proof")
     ELSE IF newest # {} THEN OfAttempt(o, s)
     ELSE OfNone(o)

Observations ==
  [runs : {r \in SUBSET Sights : Cardinality(r) <= MaxSights}, artifact : Artifacts, expected : {head},
   substrate : {"sound", "coordinator", "open proof", "stale proof"}, deadline : BOOLEAN]

\* cmd_gate_watchdog()
Watch ==
  /\ Unwatched
  /\ verdict' \in {Classify(o) : o \in Observations}
  /\ UNCHANGED <<phase, recorded, enforced, head, sha>>

WatchNext == Push \/ Watch \/ \E a \in Attempts : Begin(a) \/ Proceed(a)

WatchSpec == WatchInit /\ [][WatchNext]_watchVars

--------------------------------------------------------------------------------
\* Missing, stale or contradictory evidence never reads as a pass: when the
\* watchdog ends with "pass", the attempt it selected is of that head and went
\* green, and, where the gate is enforced, with its own verdict "pass", even if
\* the artifact that was found is one an earlier attempt of the run left; where
\* it is not, some attempt at this head recorded that verdict.
PassIsEarned ==
  verdict.state = "terminal" /\ verdict.conclusion = "pass" =>
    /\ phase[verdict.of] = "success" /\ sha[verdict.of] = verdict.expected
    /\ enforced[verdict.of] => recorded[verdict.of] = "pass"
    /\ \E a \in Attempts : sha[a] = verdict.expected /\ recorded[a] = "pass"
================================================================================

------------------------------- MODULE ModelStage -------------------------------
(***************************************************************************)
(* The model calls of one run, in the order of write_review_artifacts():   *)
(* the wave, the proof planner, the refuter, the reporter with its         *)
(* questions and its second turn, the follow-up tasks, and the lanes that  *)
(* reconsider after proof.  They share one budget.  The reporter's turn is *)
(* an authority on disk that a later reader resolves; a reused review      *)
(* directory may hold one of an earlier run.                               *)
(***************************************************************************)
EXTENDS ModelWave

CONSTANT QuestionLists  \* what the reporter may ask: [lane, exact] in sequence

VARIABLES
  calls,      \* calls made by the pass under way, not yet in `used`
  todo,       \* the questions, follow-up tasks or lanes it still has to go through
  answers,    \* lane_answers: the questions that were answered
  revised,    \* the lanes whose revised conclusion the second turn was shown
  disk,       \* review/threads/reporter: the turn files and thread.json
  turns,      \* the reporter calls this run made
  error,      \* run_reporter_coordination() returned an error
  resolution  \* ReporterTurnResolution

reporterVars == <<calls, todo, answers, revised, disk, turns, error, resolution>>
vars         == <<waveVars, reporterVars>>

Unresolved == [kind |-> "none", run |-> "none", turn |-> 0]
NoRollup   == [run |-> "none", turn |-> 0]
NoTurns    == [n \in 0 .. 1 |-> "none"]

Init ==
  /\ WaveInit
  /\ calls = 0 /\ todo = << >> /\ answers = << >> /\ revised = {}
  /\ disk = IF setup.old = "none" THEN [turn |-> NoTurns, rollup |-> NoRollup]
            ELSE [turn   |-> [n \in 0 .. 1 |-> setup.old],
                  rollup |-> [run |-> setup.old, turn |-> 1]]
  /\ turns = 0 /\ error = FALSE /\ resolution = Unresolved

--------------------------------------------------------------------------------
(***************************************************************************)
(* The proof planner and the refuter: one call each.                       *)
(***************************************************************************)
Fixed == <<setup, usable, pending, retry, forced, pressure, wave, called, calls, todo,
           answers, revised, disk, turns, error, resolution>>

Told(lane) == issues' = [issues EXCEPT ![lane] = @ + 1]

\* The pass ends without a call, or calls and takes the outcome.
Without(lane, receipt, tells) ==
  /\ receipts' = [receipts EXCEPT ![lane] = receipt]
  /\ IF tells THEN Told(lane) ELSE UNCHANGED issues
  /\ UNCHANGED <<used, sent>>
With(lane, receipt, outcomes) ==
  /\ \E status \in outcomes : \E tells \in {status = "failed", status # "ok"} :
       /\ receipts' = [receipts EXCEPT ![lane] =
                         [receipt EXCEPT !.status = status, !.attempts = 1]]
       /\ IF tells THEN Told(lane) ELSE UNCHANGED issues
  /\ used' = used + 1 /\ sent' = sent + 1

Receipt(lane, spec, status, thread) ==
  [status |-> status, spec |-> spec, fallback_from |-> (spec # PrimaryOf(lane)),
   attempts |-> 0, thread |-> thread]

\* run_proof_planner_model_lane(): a lane that lacks budget or a provider has
\* no thread.  Degraded output tells only if its audit was lost.
Planner ==
  LET lane == "proof-planner"
      spec == Selected(PrimaryOf(lane), Fallback(lane), usable)
  IN /\ stage = "planner" /\ setup.planner
     /\ IF Exhausted(used)
        THEN Without(lane, Receipt(lane, PrimaryOf(lane), "skipped_budget", FALSE), FALSE)
        ELSE IF spec = "none"
        THEN Without(lane, Receipt(lane, PrimaryOf(lane), "preflight_failed", FALSE), TRUE)
        ELSE IF ~HasKey(spec)
        THEN Without(lane, Receipt(lane, spec, "missing_key", TRUE), TRUE)
        ELSE With(lane, Receipt(lane, spec, "running", TRUE), {"ok", "degraded", "failed"})
     /\ stage' = "refuter"
     /\ UNCHANGED Fixed

NoPlanner ==
  /\ stage = "planner" /\ ~setup.planner /\ stage' = "refuter"
  /\ UNCHANGED <<receipts, issues, used, sent, Fixed>>

\* run_refuter_pass(): it has a thread whether it is called or not.
Refuter ==
  LET lane == "refuter"
      At(status) == [Receipt(lane, "minimax", status, TRUE) EXCEPT !.fallback_from = FALSE]
  IN /\ stage = "refuter"
     /\ \/ Without(lane, At("skipped"), FALSE)     \* no inline candidates
        \/ IF Exhausted(used) THEN Without(lane, At("skipped"), TRUE)
           ELSE IF "minimax" \notin usable THEN Without(lane, At("preflight_failed"), TRUE)
           ELSE IF ~HasKey("minimax") THEN Without(lane, At("missing_key"), TRUE)
           ELSE With(lane, At("running"), {"ok", "failed"})
     /\ stage' = "reporter"
     /\ UNCHANGED Fixed

--------------------------------------------------------------------------------
(***************************************************************************)
(* The reporter (run_reporter_coordination).  thread.json names the turn   *)
(* that has authority; it is removed before every attempt to replace it.   *)
(***************************************************************************)
WaveFixed == <<setup, usable, receipts, issues, pending, retry, forced, pressure, wave,
               called>>

Digested == {l \in AllLanes : receipts[l].thread}

\* What fails leaves an error for finalize_reporter_coordination().
Coordinated(failed) == error' = failed /\ stage' = "finalize"

Cleared == [turn |-> NoTurns, rollup |-> NoRollup]

\* prepare_reporter_run(): the rollup goes first, then the turns; either may
\* fail.  A reporter without digests or budget is skipped.
Prepare ==
  /\ stage = "reporter"
  /\ \/ UNCHANGED disk /\ Coordinated(TRUE)
     \/ disk' = [disk EXCEPT !.rollup = NoRollup] /\ Coordinated(TRUE)
     \/ /\ disk' = Cleared
        /\ IF Digested = {} \/ Exhausted(used) THEN Coordinated(FALSE)
           ELSE stage' = "distill" /\ UNCHANGED error
  /\ UNCHANGED <<WaveFixed, used, sent, calls, todo, answers, revised, turns, resolution>>

Call == calls' = calls + 1 /\ sent' = sent + 1

\* write_reporter_turn() and write_lane_thread_turn(): the rollup is removed,
\* the turn written, and the rollup rebuilt from the highest turn on disk.
Written(n) ==
  [turn   |-> [disk.turn EXCEPT ![n] = "new"],
   rollup |-> LET top == IF n = 1 \/ disk.turn[1] # "none" THEN 1 ELSE 0
              IN [run |-> IF top = n THEN "new" ELSE disk.turn[top], turn |-> top]]

\* A write that fails leaves no rollup.
Unwritten(n) ==
  /\ \E turn \in {disk.turn, [disk.turn EXCEPT ![n] = "new"]} :
       disk' = [turn |-> turn, rollup |-> NoRollup]
  /\ Coordinated(TRUE)

\* The first turn.  A failed call is not an error: there is then no decision.
Distill ==
  /\ stage = "distill"
  /\ \/ Coordinated(TRUE) /\ UNCHANGED <<calls, sent, turns, disk, todo>>
     \/ /\ Call /\ turns' = 1
        /\ \/ UNCHANGED <<disk, todo>> /\ Coordinated(FALSE)
           \/ Unwritten(0) /\ UNCHANGED todo
           \/ /\ disk' = Written(0) /\ todo' \in QuestionLists
              /\ stage' = "questions" /\ UNCHANGED error
  /\ UNCHANGED <<WaveFixed, used, answers, revised, resolution>>

\* One proposed question: a lane that is known, however it was named, is asked
\* while the budget lasts.
Question ==
  LET question == Head(todo)
  IN /\ stage = "questions" /\ todo # << >>
     /\ IF question.lane \notin Digested
        THEN todo' = Tail(todo) /\ UNCHANGED <<calls, sent, answers>>
        ELSE IF Exhausted(used + calls)
        THEN todo' = << >> /\ UNCHANGED <<calls, sent, answers>>
        ELSE /\ todo' = Tail(todo) /\ Call
             /\ answers' \in {answers, Append(answers, question)}
     /\ UNCHANGED <<WaveFixed, stage, used, revised, disk, turns, error, resolution>>

\* The answers are stored under the target as the reporter wrote it, and looked
\* up by lane.
Revised == {l \in Digested : \E i \in DOMAIN answers : answers[i].lane = l /\ answers[i].exact}

\* Faulty variant: a second turn is made whatever is left of the budget.
RedistillsButSpends == answers # << >>

Redistills == answers # << >> /\ ~Exhausted(used + calls)

\* run_reporter_redistillation(): the first turn loses its authority before the
\* call; a failed call, an answer that cannot be parsed and a failed write are
\* errors.
Redistill ==
  /\ stage = "questions" /\ todo = << >>
  /\ IF ~Redistills
     THEN Coordinated(FALSE) /\ UNCHANGED <<calls, sent, disk, turns, revised>>
     ELSE /\ revised' = Revised /\ turns' = 2 /\ calls' = calls + 1
          /\ \/ UNCHANGED <<disk, sent>> /\ Coordinated(TRUE)
             \/ /\ sent' = sent + 1
                /\ disk' = [disk EXCEPT !.rollup = NoRollup] /\ Coordinated(TRUE)
             \/ sent' = sent + 1 /\ Unwritten(1)
             \/ sent' = sent + 1 /\ disk' = Written(1) /\ Coordinated(FALSE)
  /\ UNCHANGED <<WaveFixed, used, todo, answers, resolution>>

\* resolve_reporter_turn(): the turn thread.json names, if it is there, agrees
\* and is bound to this head.
OnDisk ==
  LET r == disk.rollup
  IN CASE r.run = "none" -> [Unresolved EXCEPT !.kind = "absent"]
       [] r.run # "none" /\ disk.turn[r.turn] # r.run -> [Unresolved EXCEPT !.kind = "malformed"]
       [] r.run = "old_head" /\ disk.turn[r.turn] = r.run ->
            [Unresolved EXCEPT !.kind = "stale_head"]
       [] r.run \in {"new", "old"} /\ disk.turn[r.turn] = r.run ->
            [kind |-> "current", run |-> r.run, turn |-> r.turn]

\* Faulty variant: the disk decides even after a failed coordination.
ResolvedButReads == OnDisk

\* resolve_reporter_after_coordination().
Resolved == IF error THEN [Unresolved EXCEPT !.kind = "malformed"] ELSE OnDisk

\* finalize_reporter_coordination().
Finalize ==
  /\ stage = "finalize" /\ stage' = "followup"
  /\ used' = used + calls /\ calls' = 0
  /\ resolution' = Resolved
  /\ todo' = setup.tasks
  /\ UNCHANGED <<WaveFixed, sent, answers, revised, disk, turns, error>>

--------------------------------------------------------------------------------
(***************************************************************************)
(* The follow-up tasks and the reconsiderations.                           *)
(***************************************************************************)
\* One task of run_follow_up_model_pass().
FollowUp ==
  LET available == IF Exhausted(used) THEN 0 ELSE setup.budget - used
      spec == Selected(PrimaryOf("orchestrator-follow-up"),
                      Fallback("orchestrator-follow-up"), usable)
  IN /\ stage = "followup" /\ todo # << >>
     /\ IF setup.auto /\ spec # "none" /\ HasKey(spec) /\ calls < available
        THEN Call ELSE UNCHANGED <<calls, sent>>
     /\ todo' = Tail(todo)
     /\ UNCHANGED <<WaveFixed, stage, used, answers, revised, disk, turns, error, resolution>>

\* The follow-up proof broker then runs; its receipts may concern lanes that
\* have a thread.
FollowedUp ==
  /\ stage = "followup" /\ todo = << >> /\ stage' = "reconsider"
  /\ used' = used + calls /\ calls' = 0
  /\ \E lanes \in SUBSET (Digested \cap LaneIds) :
       todo' = SelectSeq(setup.lanes, LAMBDA l : l \in lanes)
  /\ UNCHANGED <<WaveFixed, sent, answers, revised, disk, turns, error, resolution>>

\* run_receipt_reconsiderations().
Reconsider ==
  /\ stage = "reconsider"
  /\ IF todo = << >> \/ Exhausted(used + calls)
     THEN stage' = "done" /\ UNCHANGED <<calls, sent, todo>>
     ELSE Call /\ todo' = Tail(todo) /\ UNCHANGED stage
  /\ UNCHANGED <<WaveFixed, used, answers, revised, disk, turns, error, resolution>>

\* A file that cannot be written, outside the reporter, ends the run.
Abort ==
  /\ stage \in {"preflight", "wave", "running", "planner", "refuter", "followup", "reconsider"}
  /\ stage' = "aborted"
  /\ UNCHANGED <<WaveFixed, used, sent, reporterVars>>

Next ==
  \/ WaveNext /\ UNCHANGED reporterVars
  \/ Planner \/ NoPlanner \/ Refuter
  \/ Prepare \/ Distill \/ Question \/ Redistill \/ Finalize
  \/ FollowUp \/ FollowedUp \/ Reconsider
  \/ Abort

Spec == Init /\ [][Next]_vars

--------------------------------------------------------------------------------
\* All passes together, retries, questions and second turns included, make no more
\* calls than max_model_calls, and no wave exceeds the concurrency or a provider's
\* limit.
BudgetHeld == sent <= setup.budget /\ WaveFits

\* A reporter decision is taken as current only if it is the last one this run
\* attempted: neither an earlier run's turn left in the directory, nor a first turn
\* whose replacement failed.
AuthorityCurrent ==
  resolution.kind = "current" => resolution.run = "new" /\ resolution.turn + 1 = turns

\* The second turn is shown the revised conclusion of every lane that answered.
AnswersReachReporter ==
  turns = 2 => \A i \in DOMAIN answers : answers[i].lane \in revised
================================================================================

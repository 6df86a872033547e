-------------------------------- MODULE ProofRun --------------------------------
(***************************************************************************)
(* The proof work of one run: the broker's phases (src/proof/broker.rs,    *)
(* called by write_review_artifacts in src/main.rs), the runner of tests   *)
(* and builds (proof/red_green.rs, build.rs), one command of it            *)
(* (proof/command.rs), the proof task ledger it keeps, and the reading     *)
(* back of what it published.                                              *)
(*                                                                         *)
(* The diff is proved first; then the planner's seeds, while the model     *)
(* wave runs; then what the lanes asked for; then what follow-up asked     *)
(* for.  Each phase sees the receipts and leases of those before it, so    *)
(* that no work is done twice and no second is spent twice.  Commands run  *)
(* one at a time.                                                          *)
(***************************************************************************)
EXTENDS ProofPortfolio

CONSTANTS
  Floor,            \* test files the diff changed: red/green candidates of every phase
  Impact,           \* targets of the impact plan: head-only, initial phase only
  Seeds,            \* requests of the planner, in order
  Lanes,            \* requests the model lanes may make
  FollowUps,        \* requests the follow-up answers may make
  Total,            \* the profile's budget
  Settings,         \* profiles, arguments and boxes the run may meet
  Leftovers,        \* portfolios an earlier run may have left in the output directory
  Deadlines,        \* what may be left of the hard timeout when a phase selects
  Endings           \* how a command may end: [outcome, ticks]

Outcomes == {"passed", "failed", "signalled", "timed_out", "cancelled"}

ASSUME RunConstants ==
  /\ Floor \subseteq {t \in Tasks : Kind[t] = "red_green"}
  /\ Impact \subseteq {t \in Tasks : Kind[t] = "head"}
  /\ Total \in [tasks : Nat, files : Nat, seconds : Nat]
  /\ Deadlines \subseteq Nat
  /\ \A rs \in {Seeds, Lanes, FollowUps} : rs \in Seq(Requests) /\ IsInjective(rs)
  /\ SetOfSeq(Seeds) \cap SetOfSeq(Lanes) = {}
  /\ Endings \subseteq [outcome : Outcomes, ticks : Nat]
  /\ Settings \subseteq [tests : BOOLEAN, builds : BOOLEAN, dry : BOOLEAN, box : BOOLEAN,
                          wave : BOOLEAN]

ThisHead == "this head"

CommandTasks == Tasks \X {"head", "base-plus-tests"}
SourceTasks  == Requests \X {"request"}

VARIABLES
  pc,         \* where the run stands
  setting,    \* what the profile, the arguments and the box decide beforehand
  left,       \* seconds left of the hard timeout
  asked,      \* the requests known so far
  phase,      \* [name, requests, stage] of the broker
  loop,       \* the runner: [queue, budget, ran, files, spent]
  cmd,        \* the command being run and the rows of its receipt so far
  child,      \* child[c]: the process of a command
  tree,       \* the base-plus-tests worktree exists
  receipts,   \* receipts of the run so far
  leases,     \* leases of the run so far
  book,       \* the proof task ledger
  portfolio,  \* review/proof_portfolio.json
  published,  \* review/proof_receipts.json, as written by this run
  verdicts,   \* the terminal status of each request
  ledger,     \* the published task-ledger pair
  fault       \* something outside the program failed

vars == <<pc, setting, left, asked, phase, loop, cmd, child, tree, receipts, leases,
          book, portfolio, published, verdicts, ledger, fault>>

known == <<receipts, leases>>                       \* what later phases read
after == <<portfolio, published, verdicts, ledger>> \* what the run leaves behind

NoCommand == [task |-> 0, side |-> "head", rows |-> << >>]
NoLoop    == [queue |-> << >>, budget |-> Total, ran |-> 0, files |-> {}, spent |-> 0]

Init ==
  /\ pc = "initial"
  /\ setting \in Settings
  /\ left \in Deadlines
  /\ asked = Seeds
  /\ phase = [name |-> "initial", requests |-> << >>, stage |-> "tests"]
  /\ loop = NoLoop /\ cmd = NoCommand
  /\ child = [c \in CommandTasks |-> "none"] /\ tree = FALSE
  /\ receipts = << >> /\ leases = << >>
  /\ book = EmptyBook(CommandTasks \cup SourceTasks, Tasks)
  /\ portfolio \in Leftovers
  /\ published = << >>
  /\ verdicts = [r \in Requests |-> "none"]
  /\ ledger = "none" /\ fault = FALSE

--------------------------------------------------------------------------------
(***************************************************************************)
(* The phases.                                                             *)
(***************************************************************************)
Candidates(name, rs) ==
  IF name = "initial" THEN Floor \cup Impact ELSE Floor \cup TargetsOf(rs)

Chosen(name, rs, budget, remaining) ==
  Selection(Candidates(name, rs), rs, receipts, budget,
            [left |-> remaining, box |-> setting.box])

\* The clock only ever takes from what is left.
Later(d) == {x \in Deadlines : x <= d}

\* Faulty variant: a phase budgets with the receipts alone, not the leases.
BudgetNowButForgets == SettledBudget(Total, << >>, receipts)

BudgetNow == SettledBudget(Total, leases, receipts)

Open(name, rs) ==
  /\ left' \in Later(left)
  /\ phase' = [name |-> name, requests |-> rs, stage |-> "tests"]
  /\ loop' = [NoLoop EXCEPT !.budget = BudgetNow,
       !.queue = Among(Chosen(name, rs, BudgetNow, left').chosen, Tests)]
  /\ pc' = "loop"

Skip(next) ==
  pc' = next /\ UNCHANGED <<left, phase, loop>>

\* run_initial_diff_proof_broker_v0().
OpenInitial ==
  /\ pc = "initial"
  /\ Open("initial", << >>)
  /\ UNCHANGED <<setting, asked, cmd, child, tree, known, book, after, fault>>

\* run_seeded_proof_stream_v0(); without a model wave the seeds wait for the
\* request phase.
OpenSeeded ==
  /\ pc = "seeded"
  /\ IF setting.wave /\ Unreceipted(Seeds, receipts) # {}
     THEN Open("seeded", Seeds) ELSE Skip("model")
  /\ UNCHANGED <<setting, asked, cmd, child, tree, known, book, after, fault>>

\* The lanes' intents become requests, and receipts the requests they answer.
LanesAsk ==
  /\ pc = "model"
  /\ \E kept \in SUBSET SetOfSeq(Lanes) :
       asked' = asked \o Among(Lanes, kept)
  /\ receipts' = Attributed(receipts, asked')
  /\ pc' = "request"
  /\ UNCHANGED <<setting, left, phase, loop, cmd, child, tree, leases, book, after, fault>>

\* run_request_proof_broker_v0().
OpenRequests ==
  /\ pc = "request"
  /\ IF Unreceipted(asked, receipts) # {} THEN Open("model", asked) ELSE Skip("followup")
  /\ UNCHANGED <<setting, asked, cmd, child, tree, known, book, after, fault>>

\* append_follow_up_proof_requests(), which drops what has a known id, and
\* run_follow_up_proof_broker_v0(), which is given it all the same.
OpenFollowUp ==
  /\ pc = "followup"
  /\ \E kept \in SUBSET SetOfSeq(FollowUps) :
       LET rs == Among(FollowUps, kept)
       IN asked' = asked \o Among(rs, Requests \ SetOfSeq(asked)) /\ Open("followup", rs)
  /\ UNCHANGED <<setting, cmd, child, tree, known, book, after, fault>>

NextPhase(name) ==
  CASE name = "initial" -> "seeded" [] name = "seeded" -> "model"
    [] name = "model" -> "followup" [] name = "followup" -> "publish"

\* Once the tests have run, the builds are planned again with their receipts.
PlanBuilds ==
  /\ pc = "loop" /\ loop.queue = << >>
  /\ phase.name # "initial" /\ phase.stage = "tests"
  /\ left' \in Later(left)
  /\ phase' = [phase EXCEPT !.stage = "builds"]
  /\ loop' = [NoLoop EXCEPT !.budget = BudgetNow,
       !.queue = Among(Chosen(phase.name, phase.requests, BudgetNow, left').chosen, Builds)]
  /\ UNCHANGED <<pc, setting, asked, cmd, child, tree, known, book, after, fault>>

\* should_write_follow_up_portfolio().
WritesPortfolio ==
  phase.name = "followup" => (phase.requests # << >> \/ portfolio.head = "none")

\* The phase ends with the portfolio as the receipts now leave it.
ClosePhase ==
  /\ pc = "loop" /\ loop.queue = << >>
  /\ phase.name = "initial" \/ phase.stage = "builds"
  /\ left' \in Later(left)
  /\ portfolio' =
       IF WritesPortfolio
       THEN MergedPortfolio(portfolio, ThisHead,
              Chosen(phase.name, phase.requests, BudgetNow, left').decisions)
       ELSE portfolio
  /\ pc' = NextPhase(phase.name)
  /\ UNCHANGED <<setting, asked, phase, loop, cmd, child, tree, known, book, published,
                 verdicts, ledger, fault>>

--------------------------------------------------------------------------------
(***************************************************************************)
(* The runner: a task that may not run is declined with a receipt of its   *)
(* own, one that may is given its lease.                                   *)
(***************************************************************************)
SkippedRow(side) == [side |-> side, status |-> "skipped", exit |-> FALSE,
                     limit |-> 0, ticks |-> 0]

Receipt(t, rows, result) ==
  [id |-> t, requests |-> RequestList(t, phase.requests), kind |-> Kind[t],
   result |-> result, rows |-> rows]

Lease(t, status) == [task |-> t, status |-> status, ceiling |-> Ceiling(t, loop.budget)]

Allowed(t) == IF t \in Tests THEN setting.tests ELSE setting.builds

\* Why a task is not run: its lease, its disposition and its receipt.
Obstacle(t) ==
  IF setting.dry
  THEN [lease |-> "skipped_profile", d |-> "Refused", result |-> "skipped_profile"]
  ELSE IF ~Allowed(t)
  THEN [lease |-> "absent", d |-> "Refused", result |-> "skipped_profile"]
  ELSE IF ~AllowsNext(t, loop.ran, loop.files, loop.spent, loop.budget)
  THEN [lease |-> "exhausted", d |-> "BudgetDeferred", result |-> "skipped_budget"]
  ELSE [lease |-> "granted", d |-> "none", result |-> "none"]

Written(b) == IF Replays(b) THEN "published" ELSE "refused"

\* The run ends with an error; the ledger is still written, with book b.
Fail(b) ==
  /\ pc' = "failed" /\ book' = b /\ ledger' = Written(b)
  /\ loop' = NoLoop /\ cmd' = NoCommand
  /\ UNCHANGED <<setting, left, asked, phase, known, portfolio, published, verdicts>>

Decline(t, o) ==
  /\ book' = Declined(book, <<t, "head">>, o.d)
  /\ leases' = Append(leases, Lease(t, o.lease))
  /\ receipts' = Append(receipts, Receipt(t, <<SkippedRow("head")>>, o.result))
  /\ loop' = [loop EXCEPT !.queue = Tail(@)]
  /\ UNCHANGED <<pc, cmd>>

Begin(t) ==
  /\ book' = Began(book, <<t, "head">>)
  /\ cmd' = [task |-> t, side |-> "head", rows |-> << >>]
  /\ loop' = [loop EXCEPT !.files = IF t \in Tests THEN @ \cup {File[t]} ELSE @]
  /\ pc' = "launch"
  /\ UNCHANGED known

\* register_command() refuses a task that was proposed before.
TakeNext ==
  /\ pc = "loop" /\ loop.queue # << >>
  /\ LET t == loop.queue[1]
         o == Obstacle(t)
     IN IF ~MayRegister(book, <<t, "head">>)
        THEN Fail(book) /\ UNCHANGED fault
        ELSE \/ /\ IF o.lease = "granted" THEN Begin(t) ELSE Decline(t, o)
                /\ UNCHANGED <<setting, left, asked, phase, after, fault>>
             \/ /\ o.lease # "granted"      \* no directory for the receipt
                /\ Fail(Declined(book, <<t, "head">>, o.d)) /\ fault' = TRUE
  /\ UNCHANGED <<child, tree>>

--------------------------------------------------------------------------------
(***************************************************************************)
(* One command: run_proof_command_receipt(), with the cleanup of the base  *)
(* worktree for the second side, and reconcile_proof_command_result() for  *)
(* a command that failed.                                                  *)
(***************************************************************************)
This     == <<cmd.task, cmd.side>>
OnBase   == cmd.side = "base-plus-tests"
Cleanups == IF OnBase THEN BOOLEAN ELSE {TRUE}    \* may fail only if there is one
TreeNow(ok) == IF OnBase /\ ok THEN FALSE ELSE tree

\* The command failed: if its receipt is pending, it is given up and its
\* resources are released.
GivenUp(b) == IF This \in b.pending THEN ReceiptLost(b, This) ELSE b

\* The receipt's directory or stream paths cannot be made.
FailPaths ==
  /\ pc = "launch"
  /\ \E ok \in Cleanups :
       /\ Fail(IF ok THEN GivenUp(SetupLost(book, This)) ELSE book)
       /\ tree' = TreeNow(ok)
  /\ fault' = TRUE
  /\ UNCHANGED child

Spawn ==
  /\ pc = "launch"
  /\ child' = [child EXCEPT ![This] = "running"]
  /\ book' = Ran(book, This)
  /\ pc' = "wait"
  /\ UNCHANGED <<setting, left, asked, phase, loop, cmd, tree, known, after, fault>>

\* result of a receipt: of its last row, and of whether there was a base side.
ResultOf(rows) ==
  LET row == rows[Len(rows)]
      base == Len(rows) = 2
  IN CASE row.status = "passed"                -> IF base THEN "non_discriminating" ELSE "head_passed"
       [] row.status = "failed" /\ row.exit    -> IF base THEN "discriminating" ELSE "head_failed"
       [] row.status = "failed" /\ ~row.exit   -> "terminated_without_exit_code"
       [] row.status = "timed_out"             -> "timed_out"
       [] row.status = "skipped"               -> "skipped_profile"

Concludes(rows, result) ==
  LET t       == cmd.task
      receipt == Receipt(t, rows, result)
      lease   == Lease(t, "granted")
      seconds == SpentSeconds(receipt)
  IN /\ receipts' = Append(receipts, receipt)
     /\ leases' = Append(leases, lease)
     /\ loop' = [loop EXCEPT !.queue = Tail(@), !.ran = @ + 1,
                   !.spent = @ + (IF seconds = Unsettled THEN lease.ceiling ELSE seconds)]
     /\ cmd' = NoCommand /\ pc' = "loop"

\* A command's row: a red/green task whose head passed goes on to the base.
Row(row) ==
  LET rows == Append(cmd.rows, row)
  IN IF Kind[cmd.task] = "red_green" /\ ~OnBase /\ row.status = "passed"
     THEN /\ cmd' = [cmd EXCEPT !.rows = rows] /\ pc' = "base"
          /\ UNCHANGED <<loop, known>>
     ELSE Concludes(rows, ResultOf(rows))

\* What follows a process that is known to be gone, or that never was: the
\* worktree is removed, the ledger told, and the streams bounded.
Ends(told, untold, row) ==
  \E cleaned \in Cleanups, bounded \in BOOLEAN :
    /\ tree' = TreeNow(cleaned)
    /\ IF cleaned /\ bounded
       THEN /\ book' = told /\ Row(row)
            /\ UNCHANGED <<setting, left, asked, phase, after, fault>>
       ELSE Fail(IF cleaned THEN GivenUp(told) ELSE untold) /\ fault' = TRUE

\* The process cannot be started: the row says the command was unavailable.
FailSpawn ==
  /\ pc = "launch"
  /\ Ends(SetupLost(book, This), book,
          [side |-> cmd.side, status |-> "skipped", exit |-> FALSE,
           limit |-> Allowance[cmd.task], ticks |-> 1])
  /\ UNCHANGED child

Disposition(outcome) ==
  CASE outcome = "passed"                  -> "Succeeded"
    [] outcome \in {"failed", "signalled"} -> "DeterministicFailure"
    [] outcome = "timed_out"               -> "TimedOut"
    [] outcome = "cancelled"               -> "Cancelled"

StatusOf(outcome) ==
  CASE outcome = "signalled" -> "failed" [] outcome = "cancelled" -> "skipped"
    [] OTHER -> outcome

\* The process exits, or is killed at its timeout or because waiting failed.
Exit ==
  /\ pc = "wait"
  /\ \E ending \in Endings :
       LET outcome  == ending.outcome
           finished == Finished(book, This, Disposition(outcome))
       IN Ends(CleanedUp(finished, This), finished,
               [side |-> cmd.side, status |-> StatusOf(outcome),
                exit |-> outcome \in {"passed", "failed"}, limit |-> Allowance[cmd.task],
                ticks |-> IF outcome = "cancelled" THEN More(ending.ticks, 1) ELSE ending.ticks])
  /\ child' = [child EXCEPT ![This] = "gone"]

\* Faulty variant: the worktree is removed whether or not the process is gone.
LoseChildButRemoves ==
  /\ pc = "wait"
  /\ child' = [child EXCEPT ![This] = "unconfirmed"]
  /\ fault' = TRUE /\ Fail(book)
  /\ tree' = FALSE

\* Nobody can tell whether the process is gone: nothing is cleaned up and
\* nothing is released.
LoseChild ==
  /\ pc = "wait"
  /\ child' = [child EXCEPT ![This] = "unconfirmed"]
  /\ fault' = TRUE /\ Fail(book)
  /\ UNCHANGED tree

\* prepare_base_plus_tests_worktree(), which first removes what an earlier
\* task left there.
BeginBase ==
  /\ pc = "base" /\ MayRegister(book, <<cmd.task, "base-plus-tests">>)
  /\ LET base     == <<cmd.task, "base-plus-tests">>
         declined == Declined(book, base, "Refused")
     IN \/ /\ tree' = TRUE
           /\ book' = Began(book, base)
           /\ cmd' = [cmd EXCEPT !.side = "base-plus-tests"]
           /\ pc' = "launch"
           /\ UNCHANGED <<setting, left, asked, phase, loop, known, after, fault>>
        \/ /\ tree' \in {tree, TRUE}
           /\ book' = declined
           /\ Concludes(Append(cmd.rows, SkippedRow("base-plus-tests")), "base_patch_failed")
           /\ UNCHANGED <<setting, left, asked, phase, after, fault>>
        \/ /\ tree' \in {tree, TRUE} /\ fault' = TRUE /\ Fail(declined)
  /\ UNCHANGED child

--------------------------------------------------------------------------------
(***************************************************************************)
(* The end of the run.                                                     *)
(***************************************************************************)
Working == <<setting, left, asked, phase, loop, cmd, child, tree, known>>

\* write_proof_receipt_artifacts().
PublishReceipts ==
  /\ pc = "publish"
  /\ \/ /\ published' = receipts /\ pc' = "reconcile"
        /\ UNCHANGED <<Working, book, portfolio, verdicts, ledger, fault>>
     \/ /\ fault' = TRUE /\ Fail(book)
        /\ UNCHANGED <<child, tree>>

\* reconcile_published_receipts().
ReconcileReceipts ==
  /\ pc = "reconcile"
  /\ IF MayReconcile(book, published)
     THEN /\ book' = Reconciled(book) /\ pc' = "terminal"
          /\ UNCHANGED <<Working, after>>
     ELSE Fail(book) /\ UNCHANGED <<child, tree>>
  /\ UNCHANGED fault

\* terminalize_proof_requests() and record_source_requests().
Terminalize ==
  /\ pc = "terminal"
  /\ verdicts' = [r \in Requests |-> IF r \in SetOfSeq(asked) THEN Terminalized(r, receipts)
                                     ELSE "none"]
  /\ book' = Sourced(book, [r \in SetOfSeq(asked) |->
               SourceDisposition(verdicts'[r], Carrying(r, receipts) # << >>)])
  /\ pc' = "ledger"
  /\ UNCHANGED <<Working, portfolio, published, ledger, fault>>

\* write_artifacts(), at the end of the run.
WriteLedger ==
  /\ pc = "ledger"
  /\ ledger' = Written(book)
  /\ pc' = "done"
  /\ UNCHANGED <<Working, book, portfolio, published, verdicts, fault>>

Next ==
  \/ OpenInitial \/ OpenSeeded \/ LanesAsk \/ OpenRequests \/ OpenFollowUp
  \/ PlanBuilds \/ ClosePhase
  \/ TakeNext \/ FailPaths \/ Spawn \/ FailSpawn \/ Exit
  \/ LoseChild \/ BeginBase
  \/ PublishReceipts \/ ReconcileReceipts \/ Terminalize \/ WriteLedger

Spec == Init /\ [][Next]_vars

--------------------------------------------------------------------------------
(***************************************************************************)
(* Properties.                                                             *)
(***************************************************************************)
Alive == {"running", "unconfirmed"}

\* While a command may still be running, also when nobody can tell, its
\* resources are not released, its worktree is not removed, and no other
\* command is started; a run that completes has none.
HeldUntilGone ==
  /\ \A c \in CommandTasks :
       child[c] \in Alive => /\ ~Logged(book, c, "ResourcesReleased")
                             /\ c[2] = "base-plus-tests" => tree
  /\ Cardinality({c \in CommandTasks : child[c] \in Alive}) <= 1
  /\ pc = "done" => \A c \in CommandTasks : child[c] \notin Alive

\* Over all phases together, a command is only started if the time commands
\* took so far and all it may take fit the profile's seconds, and no more
\* tasks and test files are run than the profile allows.
Taken == Summed([i \in DOMAIN receipts |->
           Summed([j \in DOMAIN receipts[i].rows |-> receipts[i].rows[j].ticks])])
RanTasks == {leases[i].task : i \in GrantedAt(leases)} \cup {cmd.task}

BudgetHonoured ==
  pc \in {"launch", "wait", "base"} =>
    /\ Taken + Cost(cmd.task) * TicksPerSecond <= Total.seconds * TicksPerSecond
    /\ Cardinality(RanTasks) <= Total.tasks
    /\ Cardinality({File[t] : t \in RanTasks \cap Tests}) <= Total.files

\* A command is credited with a receipt only if the published receipts hold
\* its row, and that row says what the ledger says of the process; and a
\* published ledger credits every command that was run.
Says(row, c) ==
  \E i \in DOMAIN book.log[c] :
    LET e == book.log[c][i] IN
      \/ e.kind = "SetupFailed" /\ row.status = "skipped"
      \/ /\ e.kind = "ProcessFinished"
         /\ \E o \in Outcomes : e.disposition = Disposition(o) /\ row.status = StatusOf(o)

CreditIsReadBack ==
  /\ \A c \in CommandTasks :
       Logged(book, c, "ReceiptCreated") =>
         \E i \in DOMAIN published : /\ published[i].id = c[1]
                                     /\ \E row \in SetOfSeq(published[i].rows) :
                                          row.side = c[2] /\ Says(row, c)
  /\ pc = "done" =>
       \A x \in SetOfSeq(published) : \A row \in SetOfSeq(x.rows) :
         row.limit > 0 => Logged(book, <<x.id, row.side>>, "ReceiptCreated")

\* The program never defeats itself: no command is proposed twice, no
\* published receipt contradicts the ledger and the ledger is never refused,
\* unless something outside it failed.
OnlyFaultsFail ==
  /\ pc = "failed" => fault
  /\ pc = "done" => ledger = "published"

\* A request is reported satisfied only if the command it names was run, its
\* head side passed and, for a red/green test, its base side failed; and a
\* run that completes gives every request it knew a terminal status.
Proves(x) ==
  /\ x.rows[1].side = "head" /\ x.rows[1].status = "passed"
  /\ x.kind = "red_green" => Len(x.rows) = 2 /\ x.rows[2].status = "failed"

VerdictsEarned ==
  /\ \A r \in Requests :
       verdicts[r] = "satisfied" =>
         \E x \in SetOfSeq(published) : x.id = Target[r] /\ Proves(x)
  /\ pc = "done" => \A r \in SetOfSeq(asked) : verdicts[r] # "none"

\* A later phase never drops what the portfolio on disk records of a task of
\* this head: that it is required, and the requests and receipts it serves.
KeepsObligations ==
  portfolio.head = ThisHead =>
    \A t \in DOMAIN portfolio.entries :
      /\ t \in DOMAIN portfolio'.entries
      /\ portfolio.entries[t].required => portfolio'.entries[t].required
      /\ portfolio.entries[t].requests \subseteq portfolio'.entries[t].requests
      /\ portfolio.entries[t].receipts \subseteq portfolio'.entries[t].receipts

ObligationsKept == [][KeepsObligations]_vars
================================================================================

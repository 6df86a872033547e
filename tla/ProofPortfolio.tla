----------------------------- MODULE ProofPortfolio -----------------------------
(***************************************************************************)
(* The decisions of the proof broker (src/proof/broker.rs, budget.rs,      *)
(* tasks.rs, planner.rs): which tasks the requests at hand stand for, what *)
(* is left of the budget once receipts have settled their leases, which    *)
(* tasks are worth running, how a portfolio is merged into the one on      *)
(* disk, and what becomes of a request.                                    *)
(*                                                                         *)
(* A task is a number, in the order of task ids.  A lease is               *)
(* [task, status, ceiling]; receipts and rows are those of ProofLedger.    *)
(* A budget is [tasks, files, seconds].                                    *)
(***************************************************************************)
EXTENDS ProofLedger

CONSTANTS
  Tasks,            \* the focused tests and builds that can be derived
  Kind,             \* Kind[t]: "head", "red_green" or "build"
  File,             \* File[t]: the test file or Cargo target
  Allowance,        \* Allowance[t]: seconds of one command (its own or the profile's)
  Requests,         \* proof requests of planner seeds, lanes and follow-up
  Target,           \* Target[r]: the task its command stands for
  Required,         \* the requests that are required
  Standing,         \* Standing[r]: "requested", "unsupported" or "invalid"
  TicksPerSecond    \* clock ticks (milliseconds) in a budget unit

ASSUME PortfolioConstants ==
  /\ Tasks \subseteq Nat /\ IsFiniteSet(Tasks)
  /\ Kind \in [Tasks -> {"head", "red_green", "build"}]
  /\ DOMAIN File = Tasks
  /\ Allowance \in [Tasks -> Nat \ {0}]
  /\ Target \in [Requests -> Tasks]
  /\ Required \subseteq Requests
  /\ Standing \in [Requests -> {"requested", "unsupported", "invalid"}]
  /\ TicksPerSecond \in Nat \ {0}

Builds == {t \in Tasks : Kind[t] = "build"}
Tests  == Tasks \ Builds

Less(a, b)  == IF a <= b THEN a ELSE b
More(a, b)  == IF a >= b THEN a ELSE b

Minus(a, b) == IF a <= b THEN 0 ELSE a - b        \* saturating_sub

Commands(t) == IF Kind[t] = "red_green" THEN 2 ELSE 1
Cost(t)     == Allowance[t] * Commands(t)

SetOfSeq(s) == {s[i] : i \in DOMAIN s}

(***************************************************************************)
(* Orders, filters and sums, of any length, without an operator as a       *)
(* parameter: what they compute is proved once (ProofRunProofs).           *)
(***************************************************************************)
\* The elements of S in the order R.
Ranked(S, R) ==
  [k \in 1 .. Cardinality(S) |->
     CHOOSE x \in S : Cardinality({y \in S : <<y, x>> \in R}) = k - 1]

\* The elements of s that are in S.
Among(s, S) ==
  LET at    == {i \in DOMAIN s : s[i] \in S}
      order == Ranked(at, {p \in at \X at : p[1] < p[2]})
  IN [k \in 1 .. Cardinality(at) |-> s[order[k]]]

Summed(f) ==
  LET sum[n \in 0 .. Len(f)] == IF n = 0 THEN 0 ELSE sum[n - 1] + f[n]
  IN  sum[Len(f)]

--------------------------------------------------------------------------------
(***************************************************************************)
(* The tasks the open requests of a list stand for, and the requests a     *)
(* task serves.                                                            *)
(***************************************************************************)
OpenFor(t)          == {r \in Requests : Target[r] = t /\ Standing[r] = "requested"}
RequestList(t, rs)  == Among(rs, OpenFor(t))
RequestsOf(t, rs)   == SetOfSeq(rs) \cap OpenFor(t)
TargetsOf(rs)       == {t \in Tasks : RequestsOf(t, rs) # {}}
IsRequired(t, rs)   == RequestsOf(t, rs) \cap Required # {}

Receipted(receipts) == {receipts[i].id : i \in DOMAIN receipts}

\* has_unreceipted_proof_request_tasks().
Unreceipted(rs, receipts) == TargetsOf(rs) \ Receipted(receipts)

\* attach_request_metadata_to_focused_receipts(): only receipts of tests are
\* found again through the candidates.
Attributed(receipts, rs) ==
  [i \in DOMAIN receipts |->
     IF receipts[i].id \in Tests
     THEN [receipts[i] EXCEPT !.requests =
             @ \o Among(rs, OpenFor(receipts[i].id) \ SetOfSeq(@))]
     ELSE receipts[i]]

--------------------------------------------------------------------------------
(***************************************************************************)
(* focused_proof_receipt_spent_seconds(): what a receipt settles its lease *)
(* at, in whole seconds rounded up, or Unsettled.                          *)
(***************************************************************************)
Unsettled == -1

SidesRun(receipt) ==
  IF receipt.kind = "red_green" /\ receipt.rows[1].status = "passed"
  THEN <<"head", "base-plus-tests">> ELSE <<"head">>

RowSettles(row) ==
  \/ row.status \in {"passed", "failed", "timed_out"} /\ row.limit > 0
  \/ row.status = "skipped" /\ (row.limit = 0 \/ row.ticks > 0)

RowTicks(row) ==
  CASE row.status = "timed_out" -> More(row.ticks, row.limit * TicksPerSecond)
    [] row.status = "skipped"   -> row.ticks
    [] OTHER                    -> More(row.ticks, 1)

RowsTicks(rows) == Summed([i \in DOMAIN rows |-> RowTicks(rows[i])])

SpentSeconds(receipt) ==
  IF receipt.rows = << >> \/ Sides(receipt) # SidesRun(receipt)
       \/ \E i \in DOMAIN receipt.rows : ~RowSettles(receipt.rows[i])
  THEN Unsettled
  ELSE (RowsTicks(receipt.rows) + TicksPerSecond - 1) \div TicksPerSecond

(***************************************************************************)
(* settled_focused_proof_budget(): a lease keeps its ceiling until exactly *)
(* one receipt settles it; a lease that was refused for want of capacity   *)
(* leaves nothing for anyone.                                              *)
(***************************************************************************)
GrantedAt(leases) == {i \in DOMAIN leases : leases[i].status = "granted"}

Charge(lease, leases, receipts) ==
  LET own     == {i \in DOMAIN receipts : receipts[i].id = lease.task}
      granted == {i \in GrantedAt(leases) : leases[i].task = lease.task}
      spent   == SpentSeconds(receipts[CHOOSE i \in own : TRUE])
  IN IF Cardinality(own) # 1 \/ Cardinality(granted) # 1 \/ spent = Unsettled
     THEN lease.ceiling ELSE spent

SettledBudget(total, leases, receipts) ==
  IF \E i \in DOMAIN leases : leases[i].status \in {"exhausted", "absent"}
  THEN [tasks |-> 0, files |-> 0, seconds |-> 0]
  ELSE LET granted == Cardinality(GrantedAt(leases))
           charged == Summed([i \in DOMAIN leases |->
                                IF i \in GrantedAt(leases)
                                THEN Charge(leases[i], leases, receipts) ELSE 0])
       IN [tasks   |-> Minus(total.tasks, granted),
           files   |-> Minus(total.files, granted),
           seconds |-> Minus(total.seconds, charged)]

\* focused_proof_budget_allows_next() and focused_build_budget_allows_next():
\* the same budget, checked again as each task comes up.
AllowsNext(t, ran, files, spent, budget) ==
  /\ ran < budget.tasks
  /\ t \in Tests => File[t] \in files \/ Cardinality(files) < budget.files
  /\ spent + Cost(t) <= budget.seconds

Ceiling(t, budget) == Less(Cost(t), budget.seconds)

--------------------------------------------------------------------------------
(***************************************************************************)
(* select_proof_portfolio().                                               *)
(***************************************************************************)
KindRank(t) == CASE Kind[t] = "red_green" -> 3 [] Kind[t] = "head" -> 2 [] OTHER -> 1

\* portfolio_priority(), then the cheaper, then the earlier id.
Priority(t, rs) ==
  LET own == RequestsOf(t, rs)
  IN <<IF own \cap Required # {} THEN 1 ELSE 0, KindRank(t), Cardinality(own), -Cost(t), -t>>

Precedes(t, u, rs) ==
  LET a == Priority(t, rs)
      b == Priority(u, rs)
  IN \E i \in 1 .. 5 : a[i] > b[i] /\ \A j \in 1 .. i - 1 : a[j] = b[j]

Answering == {"discriminating", "non_discriminating", "head_passed", "head_failed",
              "base_patch_failed", "sanitizer_clean", "sanitizer_ub_detected",
              "executed", "failed"}

\* Faulty variant: the receipt of a declined task is no answer.
ExactReceiptsButRun(t, receipts) ==
  {r \in SetOfSeq(receipts) : r.id = t /\ r.result \in Answering}

ExactReceipts(t, receipts) == {r \in SetOfSeq(receipts) : r.id = t}
SharedReceipts(t, rs, receipts) ==
  {r \in SetOfSeq(receipts) : /\ r.result \in Answering
                              /\ SetOfSeq(r.requests) \cap RequestsOf(t, rs) # {}}

NothingChosen == [chosen |-> << >>, files |-> {}, seconds |-> 0,
                  decisions |-> << >>]

Decision(t, status, rs, from) ==
  [task |-> t, status |-> status, required |-> IsRequired(t, rs),
   requests |-> RequestsOf(t, rs), receipts |-> {r.id : r \in from}]

\* One candidate: a receipt answers it, or it still fits, or it is declined.
StatusOfCandidate(sel, t, rs, receipts, budget, runtime) ==
  LET seconds == Less(budget.seconds, runtime.left)
      fits    == /\ Len(sel.chosen) < budget.tasks
                 /\ t \in Tests => \/ File[t] \in sel.files
                                   \/ Cardinality(sel.files) < budget.files
                 /\ sel.seconds + Cost(t) <= seconds
      late    == \/ seconds = 0 \/ budget.tasks = 0
                 \/ t \in Tests /\ budget.files = 0
                 \/ /\ runtime.left < budget.seconds
                    /\ Cost(t) > Minus(seconds, sel.seconds)
  IN IF ExactReceipts(t, receipts) # {} THEN "answered_by_existing_receipt"
     ELSE IF SharedReceipts(t, rs, receipts) # {} THEN "satisfied_by_existing_evidence"
     ELSE IF ~runtime.box THEN "declined_for_box_capacity"
     ELSE IF fits THEN "selected"
     ELSE IF late THEN "deferred_by_safe_wind_down"
     ELSE "declined_for_higher_value_proof"

Decide(sel, t, rs, receipts, budget, runtime) ==
  LET exact   == ExactReceipts(t, receipts)
      status  == StatusOfCandidate(sel, t, rs, receipts, budget, runtime)
      from    == IF exact # {} THEN exact ELSE SharedReceipts(t, rs, receipts)
      decided == [sel EXCEPT !.decisions = Append(@, Decision(t, status, rs, from))]
  IN IF status # "selected" THEN decided
     ELSE [decided EXCEPT !.chosen = Append(@, t), !.seconds = @ + Cost(t),
                          !.files = IF t \in Tests THEN @ \cup {File[t]} ELSE @]

\* The candidates, one after the other; the set holds the selection so far.
Selection(candidates, rs, receipts, budget, runtime) ==
  LET order  == Ranked(candidates, {p \in candidates \X candidates : Precedes(p[1], p[2], rs)})
      sel[n \in 0 .. Cardinality(candidates)] ==
        IF n = 0 THEN {NothingChosen}
        ELSE {Decide(s, order[n], rs, receipts, budget, runtime) : s \in sel[n - 1]}
  IN CHOOSE s \in sel[Cardinality(candidates)] : TRUE

--------------------------------------------------------------------------------
(***************************************************************************)
(* merge_proof_portfolio_with_disk(): review/proof_portfolio.json, as its  *)
(* head and what it says of each task.  A portfolio of another head is     *)
(* replaced; one of this head keeps every obligation it records.           *)
(***************************************************************************)
NoPortfolio == [head |-> "none", entries |-> << >>]

Entries(decisions) ==
  [t \in {d.task : d \in SetOfSeq(decisions)} |->
     CHOOSE d \in SetOfSeq(decisions) : d.task = t]

\* Faulty variant: the fresh decision supersedes what the disk records.
MergedButSupersedes(kept, fresh) == fresh

\* merge_proof_portfolio_candidate_tasks(), merge_proof_portfolio_decisions().
Merged(kept, fresh) ==
  [fresh EXCEPT !.required = kept.required \/ fresh.required,
                !.requests = kept.requests \cup fresh.requests,
                !.receipts = kept.receipts \cup fresh.receipts]

MergedPortfolio(disk, head, decisions) ==
  LET fresh == Entries(decisions)
      kept  == IF disk.head = head THEN disk.entries ELSE << >>
  IN [head    |-> head,
      entries |-> [t \in DOMAIN fresh \cup DOMAIN kept |->
                     IF t \notin DOMAIN kept THEN fresh[t]
                     ELSE IF t \notin DOMAIN fresh THEN kept[t]
                     ELSE Merged(kept[t], fresh[t])]]

--------------------------------------------------------------------------------
(***************************************************************************)
(* terminalize_proof_requests().                                           *)
(***************************************************************************)
\* Faulty variant: a test that passes on the base as well is a proof.
TerminalOfButBoth(result) ==
  CASE result \in {"discriminating", "non_discriminating", "head_passed", "sanitizer_clean"} ->
         "satisfied"
    [] result \in {"skipped_budget", "skipped_profile"} -> "deferred"
    [] OTHER -> "executed"

TerminalOf(result) ==
  CASE result \in {"discriminating", "head_passed", "sanitizer_clean"} -> "satisfied"
    [] result \in {"skipped_budget", "skipped_profile"}                -> "deferred"
    [] result \in {"head_failed", "base_patch_failed", "sanitizer_ub_detected",
                   "timed_out", "failed"}                              -> "failed"
    [] OTHER                                                           -> "executed"

Carrying(r, receipts) ==
  Among(receipts, {x \in SetOfSeq(receipts) : r \in SetOfSeq(x.requests)})

\* A receipt of several requests is reported for the one it lists first; the
\* others are deduplicated into it.
Terminalized(r, receipts) ==
  LET own == Carrying(r, receipts)
  IN IF Standing[r] # "requested" THEN Standing[r]
     ELSE IF own = << >> THEN "deferred"
     ELSE IF \E x \in SetOfSeq(own) : Len(x.requests) > 1 /\ x.requests[1] # r
     THEN "deduplicated"
     ELSE TerminalOf(own[1].result)
================================================================================

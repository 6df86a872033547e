------------------------------ MODULE ProofLedger ------------------------------
(***************************************************************************)
(* The proof task ledger (src/proof_task_ledger.rs), as operators on a     *)
(* book: the events appended for each command task, the order in which the *)
(* sides of each receipt were registered, and the tasks whose receipt is   *)
(* still to be read back.  The runner of a review and the standalone       *)
(* worker keep one book each.                                              *)
(*                                                                         *)
(* A command task is <<receipt id, side>>; a source request is             *)
(* <<request id, "request">>.  A task is proposed once and its events      *)
(* follow in the same call, so the set `proposed` of the code is the set   *)
(* of tasks with a log.                                                    *)
(*                                                                         *)
(* A receipt is [id, requests, kind, result, rows] and a row, one command  *)
(* of it, is [side, status, exit, limit, ticks]: whether there was an exit *)
(* code, timeout_sec, and the time it took.                                *)
(***************************************************************************)
EXTENDS TaskRecorder

EmptyBook(tasks, receipts) ==
  [log      |-> [t \in tasks |-> << >>],
   expected |-> [r \in receipts |-> << >>],
   pending  |-> {}]

Proposed(book) == {t \in DOMAIN book.log : book.log[t] # << >>}

Log(book, t, es) == [book EXCEPT !.log[t] = @ \o es]

Logged(book, t, kind) == \E i \in DOMAIN book.log[t] : book.log[t][i].kind = kind

--------------------------------------------------------------------------------
(***************************************************************************)
(* begin_command() and decline_command(): both first register the command, *)
(* which is refused if it was proposed before.                             *)
(***************************************************************************)
MayRegister(book, t) == t \notin Proposed(book)

Registered(book, t) == [book EXCEPT !.expected[t[1]] = Append(@, t[2])]

Began(book, t) ==
  Log(Registered(book, t), t,
          <<ProposedNow, [kind |-> "Selected"], Event("Queued"),
            Event("EnteredResourceWait")>> \o AdmitAndSetup)

Declined(book, t, d) ==
  Log(Registered(book, t), t, <<ProposedNow, DeclinedNow(d)>>)

(***************************************************************************)
(* run_started() .. receipt_creation_failed_and_resources_released().      *)
(***************************************************************************)
Ran(book, t) == Log(book, t, <<Event("RunStarted")>>)
Finished(book, t, d) == Log(book, t, <<Concluded(d)>>)

Awaiting(book, t) == [book EXCEPT !.pending = @ \cup {t}]

SetupLost(book, t) == Awaiting(Log(book, t, <<Event("SetupFailed")>>), t)
\* Faulty variant: the receipt is credited before anyone has read it back.
CleanedUpButCredits(book, t) ==
  Log(book, t, <<Event("CleanupFinished")>> \o ReceiptEvents(TRUE))

CleanedUp(book, t) == Awaiting(Log(book, t, <<Event("CleanupFinished")>>), t)

ReceiptLost(book, t) ==
  [Log(book, t, ReceiptEvents(FALSE)) EXCEPT !.pending = @ \ {t}]

--------------------------------------------------------------------------------
(***************************************************************************)
(* Reading the published receipts back: validate_receipt_rows(), then      *)
(* reconcile_pending_references().                                         *)
(***************************************************************************)
Conclusive == {"head_passed", "head_failed", "discriminating", "non_discriminating"}

\* proof_receipt_has_contradictory_completion().
Contradictory(receipt) ==
  /\ receipt.result \in Conclusive
  /\ \E i \in DOMAIN receipt.rows :
       /\ receipt.rows[i].side \in {"head", "base-plus-tests"}
       /\ receipt.rows[i].status \notin {"passed", "failed"}

Sides(receipt) == [i \in DOMAIN receipt.rows |-> receipt.rows[i].side]

RowTasks(receipts) ==
  UNION {{<<receipts[i].id, receipts[i].rows[j].side>> : j \in DOMAIN receipts[i].rows} :
           i \in DOMAIN receipts}

RowsValid(book, receipts) ==
  /\ \A i \in DOMAIN receipts :
       /\ ~Contradictory(receipts[i])
       /\ receipts[i].id \in DOMAIN book.expected
       /\ book.expected[receipts[i].id] # << >>
       /\ Sides(receipts[i]) = book.expected[receipts[i].id]
  /\ RowTasks(receipts) \subseteq Proposed(book)
  /\ \A i, j \in DOMAIN receipts :
       receipts[i].id = receipts[j].id /\ receipts[i].rows # << >> => i = j

MayReconcile(book, receipts) ==
  RowsValid(book, receipts) /\ book.pending \subseteq RowTasks(receipts)

\* What is pending is read back, or given up.
Closed(book, created) ==
  [book EXCEPT !.log = [t \in DOMAIN book.log |->
                          IF t \in book.pending THEN book.log[t] \o ReceiptEvents(created)
                          ELSE book.log[t]],
               !.pending = {}]

Reconciled(book) == Closed(book, TRUE)

--------------------------------------------------------------------------------
(***************************************************************************)
(* record_source_requests(): every request is declined as a task of its    *)
(* own, even when a command answered it (source_request_disposition).      *)
(***************************************************************************)
SourceDisposition(status, answered) ==
  CASE status = "unsupported"                -> "Unsupported"
    [] status = "invalid"                    -> "Refused"
    [] OTHER -> IF answered THEN "Superseded"
                ELSE IF status \in {"deferred", "requested"} THEN "BudgetDeferred"
                ELSE "Refused"

\* The requests ds gives a disposition; no two have one id.
Sourced(book, ds) ==
  [book EXCEPT !.log = [t \in DOMAIN book.log |->
     IF t[2] = "request" /\ t[1] \in DOMAIN ds
     THEN book.log[t] \o <<ProposedNow, DeclinedNow(ds[t[1]])>> ELSE book.log[t]]]

(***************************************************************************)
(* Writing the ledger replays what the book says of every proposed task.   *)
(***************************************************************************)
Replays(book) ==
  \A t \in Proposed(book) : \E f \in Fed(Unheard, book.log[t]) : f.ok /\ Settled(f)
================================================================================

--------------------------------- MODULE Worker ---------------------------------
(***************************************************************************)
(* The standalone worker (cmd_worker, src/main.rs): one attempt at one     *)
(* proof request.  It clears its output directory, asks whether a nightly  *)
(* toolchain is there, runs the requested command, and publishes its       *)
(* lease, its receipt and, once both were read back, its task ledger.      *)
(*                                                                         *)
(* Attempts follow one another in the same directory; each call to the     *)
(* file system may fail and the process may be killed between any two.     *)
(* The staging files of a publication are left out: they are removed       *)
(* before they are written and nothing reads them.  The pair of ledger     *)
(* files is one value here (LedgerPublication has its two files).          *)
(***************************************************************************)
EXTENDS ProofLedger

CONSTANTS
  Requests,     \* the proof requests that are attempted
  Needs,        \* Needs[r]: "nothing" or "nightly" to be resolved, or "impossible"
  Witness,      \* the requests for a sanitizer witness
  MaxAttempts   \* bound: how many attempts are made

ASSUME WorkerConstants ==
  /\ Needs \in [Requests -> {"nothing", "nightly", "impossible"}]
  /\ Witness \subseteq Requests
  /\ MaxAttempts \in Nat

Sided == {"nightly-preflight", "head"}
CommandTasks == Requests \X Sided
Files == {"ledger", "receipt", "lease"}
None  == [attempt |-> 0]

VARIABLES
  pc,       \* the next step of the attempt, or "idle" between attempts
  attempt,  \* how many attempts were begun
  request,  \* the request of this one
  rows,     \* the rows of its receipt so far
  granted,  \* whether the lease of the requested command was granted
  child,    \* the process of the command being run
  book,     \* its task ledger
  disk,     \* the output directory: the attempt each file is of, and what it says
  outcome   \* what the last attempt returned

vars == <<pc, attempt, request, rows, granted, child, book, disk, outcome>>
memory == <<attempt, request, rows, granted, child, book>>

Init ==
  /\ pc = "idle" /\ attempt = 0 /\ request \in Requests
  /\ rows = << >> /\ granted = TRUE /\ child = "none"
  /\ book = EmptyBook(CommandTasks, Requests)
  /\ disk = [f \in Files |-> None]
  /\ outcome = "none"

--------------------------------------------------------------------------------
(***************************************************************************)
(* Failure: finalize_worker_failure() gives up every pending receipt and   *)
(* then writes the ledger, which may not be possible.                      *)
(***************************************************************************)
Side == IF rows = << >> THEN "nightly-preflight" ELSE "head"
This == <<request, Side>>

GivenUp(b) == Closed(b, FALSE)

Ledger(b) == [attempt |-> attempt, book |-> b]

\* With book b, and only the receipt and lease `kept` left on disk.
Abort(b, kept) ==
  LET left == [f \in Files |-> IF f = "ledger" \/ f \in kept THEN disk[f] ELSE None]
  IN /\ book' = GivenUp(b)
     /\ \/ Replays(book') /\ disk' = [left EXCEPT !.ledger = Ledger(book')]
        \/ disk' = left
     /\ outcome' = "failed" /\ pc' = "idle"

Outputs == {"receipt", "lease"}

(***************************************************************************)
(* standalone_worker_revision(): the checkout is the request's head, and   *)
(* clean, or the attempt is refused before it touches anything.            *)
(***************************************************************************)
Start ==
  /\ pc = "idle" /\ attempt < MaxAttempts
  /\ attempt' = attempt + 1
  /\ request' \in Requests
  /\ rows' = << >> /\ granted' = TRUE /\ child' = "none"
  /\ book' = EmptyBook(CommandTasks, Requests)
  /\ \/ pc' = "clear ledger" /\ outcome' = "none"
     \/ pc' = "idle" /\ outcome' = "failed"
  /\ UNCHANGED disk

(***************************************************************************)
(* prepare_worker_attempt(): the ledger goes first, then the receipt, then *)
(* the lease and the request's own directory.                              *)
(***************************************************************************)
\* Faulty variant: the ledger is removed after the receipt it credits.
OrderButLast == <<"receipt", "ledger", "lease">>

Order == <<"ledger", "receipt", "lease">>

Clear(i) ==
  /\ pc = <<"clear ledger", "clear receipt", "clear lease">>[i]
  /\ \/ /\ disk' = [disk EXCEPT ![Order[i]] = None]
        /\ pc' = <<"clear receipt", "clear lease", "launch">>[i]
        /\ UNCHANGED <<book, outcome>>
     \/ Abort(SetupLost(Began(book, This), This), Outputs)
  /\ UNCHANGED <<attempt, request, rows, granted, child>>

--------------------------------------------------------------------------------
(***************************************************************************)
(* run_proof_command_receipt(), twice: the preflight, then the request.    *)
(***************************************************************************)
Row(status, limited) == [side |-> Side, status |-> status, limit |-> limited]

\* resolve_proof_command() of the request, given what the preflight said.
Resolves ==
  \/ Needs[request] = "nothing"
  \/ Needs[request] = "nightly" /\ rows[1].status = "passed"

Adds(row) ==
  /\ rows' = Append(rows, row)
  /\ pc' = IF Side = "head" THEN "stage" ELSE "launch"
  /\ UNCHANGED <<disk, outcome>>

\* A command has ended and its streams are bounded, or cannot be.
Ends(b, row) ==
  \/ book' = b /\ Adds(row)
  \/ Abort(b, Outputs) /\ UNCHANGED rows

Launch ==
  /\ pc = "launch"
  /\ Side = "head" => Resolves
  /\ LET begun == Began(book, This)
         lost  == SetupLost(begun, This)
     IN \/ /\ Abort(lost, Outputs)              \* no receipt paths
           /\ UNCHANGED <<rows, child>>
        \/ Ends(lost, Row("skipped", TRUE))     \* no process
           /\ UNCHANGED child
        \/ /\ book' = Ran(begun, This) /\ child' = "running" /\ pc' = "wait"
           /\ UNCHANGED <<rows, disk, outcome>>
  /\ UNCHANGED <<attempt, request, granted>>

\* No command stands for the request: its lease is refused.
DeclineUnresolved ==
  /\ pc = "launch" /\ Side = "head" /\ ~Resolves
  /\ granted' = FALSE
  /\ Ends(Declined(book, This, "Refused"), Row("skipped", FALSE))
  /\ UNCHANGED <<attempt, request, child>>

Endings == {[d |-> "Succeeded", status |-> "passed"],
            [d |-> "DeterministicFailure", status |-> "failed"],
            [d |-> "TimedOut", status |-> "timed_out"],
            [d |-> "Cancelled", status |-> "skipped"]}

Exit ==
  /\ pc = "wait"
  /\ child' = "gone"
  /\ \E e \in Endings :
       Ends(CleanedUp(Finished(book, This, e.d), This), Row(e.status, TRUE))
  /\ UNCHANGED <<attempt, request, granted>>

LoseChild ==
  /\ pc = "wait"
  /\ child' = "unconfirmed"
  /\ Abort(book, Outputs)
  /\ UNCHANGED <<attempt, request, rows, granted>>

--------------------------------------------------------------------------------
(***************************************************************************)
(* Publication.  After a failure, invalidate_worker_artifacts() removes    *)
(* the receipt and the lease, as far as it can.                            *)
(***************************************************************************)
Classified ==
  LET status == rows[2].status IN
    IF ~granted THEN "skipped_unresolved"
    ELSE IF status = "failed" /\ request \in Witness THEN "sanitizer_ub_detected"
    ELSE status

Receipt == [attempt |-> attempt, id |-> request, result |-> Classified, rows |-> rows]
Lease   == [attempt |-> attempt, id |-> request, granted |-> granted]

Revoke == \E kept \in SUBSET Outputs : Abort(book, kept)

Step(from, to) ==
  /\ pc = from /\ pc' = to
  /\ UNCHANGED <<memory, outcome>>

GiveUp(from) ==
  /\ pc = from /\ Revoke
  /\ UNCHANGED <<attempt, request, rows, granted, child>>

\* publish_worker_artifacts(): nothing may be there, then the lease, then the
\* receipt; a receipt that cannot be put in place takes the lease with it.
Stage ==
  \/ /\ Step("stage", "put lease") /\ UNCHANGED disk
     /\ disk["receipt"] = None /\ disk["lease"] = None
  \/ GiveUp("stage")

PutLease ==
  \/ Step("put lease", "put receipt") /\ disk' = [disk EXCEPT !.lease = Lease]
  \/ GiveUp("put lease")

PutReceipt ==
  \/ Step("put receipt", "check lease") /\ disk' = [disk EXCEPT !.receipt = Receipt]
  \/ GiveUp("put receipt")

\* validate_published_worker_lease(): the lease has the id of this request's
\* (two attempts at one request give their leases the same id).
CheckLease ==
  \/ /\ Step("check lease", "reconcile") /\ UNCHANGED disk
     /\ disk["lease"].id = request
  \/ GiveUp("check lease")

\* reconcile_worker_receipt().
ReconcileReceipt ==
  \/ /\ pc = "reconcile" /\ pc' = "write ledger"
     /\ disk["receipt"].id = request /\ MayReconcile(book, <<disk["receipt"]>>)
     /\ book' = Reconciled(book)
     /\ UNCHANGED <<attempt, request, rows, granted, child, disk, outcome>>
  \/ GiveUp("reconcile")

\* Faulty variant: a ledger that cannot be written is only reported.
WriteLedgerButLenient ==
  /\ pc = "write ledger" /\ pc' = "idle"
  /\ \/ Replays(book) /\ disk' = [disk EXCEPT !.ledger = Ledger(book)]
     \/ UNCHANGED disk
  /\ outcome' = "success"
  /\ UNCHANGED memory

\* write_artifacts(), and if that fails the receipt and the lease are removed.
WriteLedger ==
  /\ pc = "write ledger" /\ pc' = "idle"
  /\ \/ /\ Replays(book)
        /\ disk' = [disk EXCEPT !.ledger = Ledger(book)] /\ outcome' = "success"
     \/ /\ \E kept \in SUBSET Outputs :
             disk' = [f \in Files |-> IF f \in Outputs \ kept THEN None ELSE disk[f]]
        /\ outcome' = "failed"
  /\ UNCHANGED memory

Crash ==
  /\ pc # "idle" /\ pc' = "idle" /\ outcome' = "crashed"
  /\ UNCHANGED <<memory, disk>>

Next ==
  \/ Start \/ (\E i \in 1 .. 3 : Clear(i))
  \/ Launch \/ DeclineUnresolved \/ Exit \/ LoseChild
  \/ Stage \/ PutLease \/ PutReceipt \/ CheckLease \/ ReconcileReceipt \/ WriteLedger
  \/ Crash

Spec == Init /\ [][Next]_vars

--------------------------------------------------------------------------------
(***************************************************************************)
(* Properties.                                                             *)
(***************************************************************************)
Credits(b, c) == Logged(b, c, "ReceiptCreated")

\* What an attempt that succeeds leaves is all its own: its lease, its receipt
\* and a ledger that credits exactly the commands that were run, whatever was
\* in the directory before and whatever failed on the way.
SuccessIsOwn ==
  outcome = "success" =>
    /\ \A f \in Files : disk[f].attempt = attempt
    /\ disk["lease"].id = request /\ disk["receipt"].id = request
    /\ child # "unconfirmed"
    /\ \A i \in DOMAIN disk["receipt"].rows :
         LET row == disk["receipt"].rows[i]
         IN Credits(disk["ledger"].book, <<request, row.side>>) = row.limit

\* A receipt has a row of command c that tells how it ended by this log.
Backs(receipt, c, log) ==
  /\ receipt.id = c[1]
  /\ \E i \in DOMAIN receipt.rows :
       /\ receipt.rows[i].side = c[2]
       /\ \A j \in DOMAIN log :
            log[j].kind = "ProcessFinished" =>
              \E e \in Endings : e.d = log[j].disposition /\ e.status = receipt.rows[i].status

\* Whatever fails and whenever the process is killed, a ledger on disk that
\* credits a command with its receipt has that receipt beside it: the one of
\* the same attempt, with a row of the command that tells how it ended.
CreditIsBacked ==
  disk["ledger"] # None =>
    \A c \in CommandTasks :
      Credits(disk["ledger"].book, c) =>
        /\ disk["receipt"].attempt = disk["ledger"].attempt
        /\ Backs(disk["receipt"], c, disk["ledger"].book.log[c])
================================================================================

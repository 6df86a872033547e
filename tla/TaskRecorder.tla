------------------------------ MODULE TaskRecorder ------------------------------
(***************************************************************************)
(* The recorder the sensor pools, the proof runner and the standalone      *)
(* worker append task events to (src/sensor_task_ledger.rs,                *)
(* TaskLedgerRecorder).  Appending never refuses an event: it is only when *)
(* the ledger is written that the stream is replayed, and the pair is      *)
(* published exactly if no event is refused and every task has settled.    *)
(***************************************************************************)
EXTENDS TaskReducer, FiniteSets, SequencesExt

(***************************************************************************)
(* The replay of one task's events: the snapshot reached, and whether any  *)
(* event on the way was refused.                                           *)
(***************************************************************************)
Unheard == [snap |-> NoSnapshot, ok |-> TRUE]

FeedOne(f, e) == [snap |-> Reduce(f.snap, e), ok |-> f.ok /\ Accepts(f.snap, e)]

FeedEach(fs, e) == {FeedOne(f, e) : f \in fs}

\* The replay of es after f, as the one element of a set.
Fed(f, es) ==
  LET fed[n \in 0 .. Len(es)] == IF n = 0 THEN {f} ELSE FeedEach(fed[n - 1], es[n])
  IN  fed[Len(es)]

Settled(t)  == t.snap.state \in {"ResourcesReleased", "TerminallyDeclined"}

(***************************************************************************)
(* The events.                                                             *)
(***************************************************************************)
Event(k)        == [kind |-> k, at |-> 0]
Concluded(d)    == [kind |-> "ProcessFinished", at |-> 0, disposition |-> d]
ProposedNow     == [kind |-> "Proposed", revision |-> CurrentRevision]
DeclinedNow(d)  == [kind |-> "TerminallyDeclined", at |-> 0, disposition |-> d,
                    existing_receipt |-> FALSE]

\* One Cpu unit; disk units follow from the budget.
AdmitAndSetup ==
  <<[kind |-> "Admitted", at |-> 0,
     reservations |-> <<[class |-> "Cpu", units |-> 1]>>], Event("SetupStarted")>>

ReceiptEvents(created) ==
  <<Event(IF created THEN "ReceiptCreated" ELSE "ReceiptCreationFailed"),
    Event("ResourcesReleased")>>
================================================================================

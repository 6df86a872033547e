------------------------------ MODULE Delivery ------------------------------
(***************************************************************************)
(* Publishing one review to GitHub: execute_pending_review_delivery, run   *)
(* by `ub-review post` over one review packet and one output directory.    *)
(*                                                                         *)
(* A poster is one execution of the command.  Posters run at the same time *)
(* or one after the other (a retry), any of them may be killed, and every  *)
(* remote call is bounded by curl's --max-time: a request whose answer is  *)
(* given up on may be lost, refused, or carried out by the server later.   *)
(*                                                                         *)
(* Inline comments are created with a pending review (a draft), compared   *)
(* with the plan, and published by submitting the draft.  A reply has no   *)
(* draft: it is public as soon as it is posted.                            *)
(***************************************************************************)
EXTENDS Naturals, FiniteSets

CONSTANTS Posters,  \* executions of the command against one directory
          Inline,   \* inline comments a review may plan
          Replies   \* replies to existing threads it may plan

ASSUME PlanConstants == Inline \cap Replies = {}

VARIABLES
    pc,         \* where each poster is
    seen,       \* the comments it read while planning, if it had to
    confirmed,  \* the planned items it holds to be delivered already
    sent,       \* the replies whose receipt it has
    state,      \* its DeliveryTransaction's state, in memory
    disk,       \* the output directory, shared by the posters
    wire,       \* requests a poster has sent and the server has not handled
    answer,     \* the server's answer to the request a poster waits on
    review,     \* the review each poster created on the server
    replied,    \* the replies on the server, with the poster they came from
    moved       \* the pull request's head is no longer the reviewed one

post == <<pc, seen, confirmed, sent, state>>
net  == <<wire, answer>>
hub  == <<review, replied>>
vars == <<post, disk, net, hub, moved>>

Items == Inline \cup Replies

(***************************************************************************)
(* DeliveryTransactionState; from PendingReviewCreated to HeadRevalidated  *)
(* the review is a draft that a failure must delete.                       *)
(***************************************************************************)
DraftStates == {"PendingReviewCreated", "CommentsCreated",
                "CommentsReconciled", "HeadRevalidated"}
States == DraftStates \cup {"Planned", "Submitted", "ReceiptsPersisted",
                            "CleanedUp", "Failed"}

Awaits == {"await_create", "await_reply", "await_submit", "await_delete"}
Kind   == [at \in Awaits |->
             CASE at = "await_create" -> "create" [] at = "await_reply" -> "reply"
               [] at = "await_submit" -> "submit" [] OTHER -> "delete"]
Planning == {"start", "plan", "prior", "reserve"}
Body     == {"create", "await_create", "list", "reconciled", "replies",
             "await_reply", "recheck", "submit", "await_submit", "persist"}
Closing  == {"abort", "await_delete", "cleaned", "unclean"}
Ended    == {"done", "failed", "dead"}

Init ==
    /\ pc = [p \in Posters |-> "start"]
    /\ seen = [p \in Posters |-> {}]
    /\ confirmed = [p \in Posters |-> {}]
    /\ sent = [p \in Posters |-> {}]
    /\ state = [p \in Posters |-> "Planned"]
    /\ \E plan \in SUBSET Items :
          disk = [plan |-> plan, attempt |-> FALSE, recon |-> FALSE, receipts |-> {},
                  replies |-> {}, txn |-> "Absent", decided |-> {}]
    /\ wire = {}
    /\ answer = [p \in Posters |-> "none"]
    /\ review = [p \in Posters |-> [phase |-> "none", comments |-> {}]]
    /\ replied = {}
    /\ moved = FALSE

Go(p, from, to) == pc[p] = from /\ pc' = [pc EXCEPT ![p] = to]

(* What anyone reading the pull request sees.                              *)
Published(p)  == review[p].phase = "published"
PublicInline  == UNION {review[p].comments : p \in {q \in Posters : Published(q)}}
PublicReplies == {r \in Replies : \E p \in Posters : <<p, r>> \in replied}
Public        == PublicInline \cup PublicReplies

(***************************************************************************)
(* Planning: the head must be the reviewed one; the pull request's         *)
(* comments are read only if there is a reply or an earlier receipt.       *)
(***************************************************************************)
Start(p) ==
    /\ Go(p, "start", IF moved THEN "failed" ELSE "plan")
    /\ UNCHANGED <<seen, confirmed, sent, state, disk, net, hub, moved>>

NeedsExisting == disk.plan \cap Replies # {} \/ disk.recon \/ disk.replies # {}

FetchExisting(p) ==
    /\ Go(p, "plan", IF NeedsExisting THEN "prior" ELSE "reserve")
    /\ seen' = [seen EXCEPT ![p] = IF NeedsExisting THEN Public ELSE {}]
    /\ UNCHANGED <<confirmed, sent, state, disk, net, hub, moved>>

(* prior_confirmed_deliveries: a comment is delivered when it is on the    *)
(* pull request now and its receipt is on disk - for an inline one, after  *)
(* a submission that is itself confirmed if an attempt was reserved.       *)
InlineConfirmed == ~disk.attempt \/ disk.txn = "ReceiptsPersisted"
PriorConfirmedButUnchecked(p) == disk.receipts \cup disk.replies
PriorConfirmed(p) ==
    {i \in disk.plan \cap seen[p] :
        \/ i \in disk.receipts /\ InlineConfirmed
        \/ i \in disk.replies
        \/ i \in Replies /\ ~disk.attempt}

Remaining(p, of) == (disk.plan \cap of) \ confirmed[p]
Direct(p) == disk.plan # {} /\ Remaining(p, Inline) = {}

ReadPrior(p) ==
    /\ confirmed' = [confirmed EXCEPT ![p] = PriorConfirmed(p)]
    /\ Go(p, "prior", IF disk.plan # {} /\ disk.plan \subseteq confirmed'[p]
                      THEN "recheck" ELSE "reserve")
    /\ UNCHANGED <<seen, sent, state, disk, net, hub, moved>>

(* reserve_delivery_attempt: create_new on a file nothing ever removes.    *)
(* The file stays even if writing or syncing it fails.                     *)
ReserveButReuses(p) ==
    /\ \E to \in {IF Direct(p) THEN "replies" ELSE "create", "failed"} :
          Go(p, "reserve", to)
    /\ disk' = [disk EXCEPT !.attempt = TRUE]
    /\ UNCHANGED <<seen, confirmed, sent, state, net, hub, moved>>
Reserve(p) ==
    /\ ~disk.attempt
    /\ \E to \in {IF Direct(p) THEN "replies" ELSE "create", "failed"} :
          Go(p, "reserve", to)
    /\ disk' = [disk EXCEPT !.attempt = TRUE]
    /\ UNCHANGED <<seen, confirmed, sent, state, net, hub, moved>>

(***************************************************************************)
(* Remote writes: send, then wait for an answer or for the time limit.     *)
(***************************************************************************)
Send(p, kind, item) == /\ wire' = wire \cup {[kind |-> kind, by |-> p, item |-> item]}
                       /\ answer' = [answer EXCEPT ![p] = "none"]
Answered(p) == answer[p] = "ok" /\ UNCHANGED net

SendCreate(p) ==
    /\ Go(p, "create", "await_create")
    /\ Send(p, "create", {})
    /\ UNCHANGED <<seen, confirmed, sent, state, disk, hub, moved>>

Created(p) ==
    /\ Answered(p)
    /\ Go(p, "await_create", "list")
    /\ state' = [state EXCEPT ![p] = "PendingReviewCreated"]
    /\ disk' = [disk EXCEPT !.txn = "PendingReviewCreated"]
    /\ UNCHANGED <<seen, confirmed, sent, hub, moved>>

(* The draft's comments are listed and must be exactly the plan's, in      *)
(* number and content; then the receipts are written.                      *)
ReconcileButCovered(p) ==
    /\ review[p].comments \subseteq Remaining(p, Inline)
    /\ Go(p, "list", "reconciled")
    /\ state' = [state EXCEPT ![p] = "CommentsReconciled"]
    /\ disk' = [disk EXCEPT !.recon = TRUE, !.receipts = Remaining(p, Inline)]
    /\ UNCHANGED <<seen, confirmed, sent, net, hub, moved>>
Reconcile(p) ==
    /\ review[p].phase = "draft"
    /\ review[p].comments = Remaining(p, Inline)
    /\ Go(p, "list", "reconciled")
    /\ state' = [state EXCEPT ![p] = "CommentsReconciled"]
    /\ disk' = [disk EXCEPT !.recon = TRUE, !.receipts = Remaining(p, Inline)]
    /\ UNCHANGED <<seen, confirmed, sent, net, hub, moved>>

PersistReconciled(p) ==
    /\ Go(p, "reconciled", "replies")
    /\ disk' = [disk EXCEPT !.txn = state[p]]
    /\ UNCHANGED <<seen, confirmed, sent, state, net, hub, moved>>

(* execute_reply_deliveries, one reply at a time; each answer adds a       *)
(* receipt and rewrites the receipts file with this poster's receipts.     *)
SendReply(p) ==
    /\ Go(p, "replies", "await_reply")
    /\ \E r \in Remaining(p, Replies) \ sent[p] : Send(p, "reply", {r})
    /\ UNCHANGED <<seen, confirmed, sent, state, disk, hub, moved>>

Asked(p) == {r \in Replies : <<p, r>> \in replied} \ sent[p]
Replied(p) ==
    /\ Answered(p)
    /\ Go(p, "await_reply", "replies")
    /\ sent' = [sent EXCEPT ![p] = @ \cup Asked(p)]
    /\ disk' = [disk EXCEPT !.replies = sent'[p]]
    /\ UNCHANGED <<seen, confirmed, state, hub, moved>>

(* write_retry_decisions: with a draft this comes before the head is read  *)
(* again, without one after it; what is delivered is the same.             *)
Delivered(p) == confirmed[p] \cup sent[p]
                  \cup (IF Direct(p) THEN {} ELSE Remaining(p, Inline))

RepliesDone(p) ==
    /\ Remaining(p, Replies) \subseteq sent[p]
    /\ Go(p, "replies", "recheck")
    /\ disk' = IF Direct(p) THEN disk ELSE [disk EXCEPT !.decided = Delivered(p)]
    /\ UNCHANGED <<seen, confirmed, sent, state, net, hub, moved>>

(* The head is read again: a direct delivery ends here, a draft may be     *)
(* submitted.                                                              *)
Revalidated(p) ==
    /\ Go(p, "recheck", IF Direct(p) THEN "done" ELSE "submit")
    /\ disk' = IF Direct(p) THEN [disk EXCEPT !.decided = Delivered(p)]
                            ELSE [disk EXCEPT !.txn = "HeadRevalidated"]
    /\ state' = IF Direct(p) THEN state ELSE [state EXCEPT ![p] = "HeadRevalidated"]
    /\ UNCHANGED <<seen, confirmed, sent, net, hub, moved>>
RecheckButTrusted(p) == Revalidated(p)
Recheck(p) == ~moved /\ Revalidated(p)

SendSubmit(p) ==
    /\ Go(p, "submit", "await_submit")
    /\ Send(p, "submit", {})
    /\ UNCHANGED <<seen, confirmed, sent, state, disk, hub, moved>>

Submitted(p) ==
    /\ Answered(p)
    /\ Go(p, "await_submit", "persist")
    /\ state' = [state EXCEPT ![p] = "Submitted"]
    /\ UNCHANGED <<seen, confirmed, sent, disk, hub, moved>>

Persist(p) ==
    /\ Go(p, "persist", "done")
    /\ state' = [state EXCEPT ![p] = "ReceiptsPersisted"]
    /\ disk' = [disk EXCEPT !.txn = "ReceiptsPersisted"]
    /\ UNCHANGED <<seen, confirmed, sent, net, hub, moved>>

(***************************************************************************)
(* Failure.  A refusal, a time limit, an answer that cannot be read, a     *)
(* check that fails and a file that cannot be written all end the step     *)
(* with an error.  While planning, and without a draft's transaction, the  *)
(* error is final; otherwise the transaction is closed first.              *)
(***************************************************************************)
FaultButWaits(p) ==
    /\ pc[p] \in (Planning \cup Body) \ Awaits
    /\ pc' = [pc EXCEPT ![p] = IF @ \in Planning \/ Direct(p) THEN "failed" ELSE "abort"]
    /\ UNCHANGED <<seen, confirmed, sent, state, disk, net, hub, moved>>
Fault(p) ==
    /\ pc[p] \in Planning \cup Body
    /\ pc' = [pc EXCEPT ![p] = IF @ \in Planning \/ Direct(p) THEN "failed" ELSE "abort"]
    /\ UNCHANGED <<seen, confirmed, sent, state, disk, net, hub, moved>>

(* A draft this poster knows of is deleted; the deletion's own payload may *)
(* be what cannot be written.                                              *)
Abort(p) ==
    \/ /\ state[p] \in DraftStates
       /\ Go(p, "abort", "await_delete")
       /\ Send(p, "delete", {})
       /\ UNCHANGED <<seen, confirmed, sent, state, disk, hub, moved>>
    \/ /\ Go(p, "abort", "unclean")
       /\ UNCHANGED <<seen, confirmed, sent, state, disk, net, hub, moved>>

AwaitDelete(p) ==
    /\ Go(p, "await_delete", IF answer[p] = "ok" THEN "cleaned" ELSE "unclean")
    /\ UNCHANGED <<seen, confirmed, sent, state, disk, net, hub, moved>>

(* remove_confirmation_artifacts, then the transaction's closing state:    *)
(* record_failure and finish_cleanup for a draft, record_failure alone     *)
(* before one, record_post_submission_failure after it.  Removing and      *)
(* writing may both fail, unreported.                                      *)
SettleButForgiving(p) ==
    /\ pc[p] \in {"cleaned", "unclean"}
    /\ pc' = [pc EXCEPT ![p] = "failed"]
    /\ state' = [state EXCEPT ![p] = IF @ \in DraftStates THEN "CleanedUp" ELSE "Failed"]
    /\ \E removed, written \in BOOLEAN :
          disk' = [disk EXCEPT !.recon = @ /\ ~removed,
                               !.receipts = IF removed THEN {} ELSE @,
                               !.txn = IF written THEN state'[p] ELSE @]
    /\ UNCHANGED <<seen, confirmed, sent, net, hub, moved>>
Settle(p) ==
    /\ pc[p] \in {"cleaned", "unclean"}
    /\ pc' = [pc EXCEPT ![p] = "failed"]
    /\ state' = [state EXCEPT ![p] = IF pc[p] = "cleaned" THEN "CleanedUp" ELSE "Failed"]
    /\ \E removed, written \in BOOLEAN :
          disk' = [disk EXCEPT !.recon = @ /\ ~removed,
                               !.receipts = IF removed THEN {} ELSE @,
                               !.txn = IF written THEN state'[p] ELSE @]
    /\ UNCHANGED <<seen, confirmed, sent, net, hub, moved>>

Crash(p) ==
    /\ pc[p] \notin Ended \cup {"start"}
    /\ pc' = [pc EXCEPT ![p] = "dead"]
    /\ UNCHANGED <<seen, confirmed, sent, state, disk, net, hub, moved>>

(***************************************************************************)
(* GitHub, as the adapter relies on it.  It handles a request at any time  *)
(* after it was sent, whether or not the poster still waits; it may keep   *)
(* fewer comments than it was sent; it submits and deletes only a draft.   *)
(***************************************************************************)
Reply(m, word) ==
    LET heard == pc[m.by] \in Awaits /\ Kind[pc[m.by]] = m.kind
    IN /\ wire' = wire \ {m}
       /\ answer' = IF heard THEN [answer EXCEPT ![m.by] = word] ELSE answer

HubCreates(m) ==
    /\ m.kind = "create"
    /\ \E kept \in SUBSET Remaining(m.by, Inline) :
          review' = [review EXCEPT ![m.by] = [phase |-> "draft", comments |-> kept]]
    /\ Reply(m, "ok")
    /\ UNCHANGED replied

HubReplies(m) ==
    /\ m.kind = "reply"
    /\ replied' = replied \cup {<<m.by, r>> : r \in m.item}
    /\ Reply(m, "ok")
    /\ UNCHANGED review

HubSubmits(m) ==
    /\ m.kind = "submit"
    /\ review[m.by].phase = "draft"
    /\ review' = [review EXCEPT ![m.by].phase = "published"]
    /\ Reply(m, "ok")
    /\ UNCHANGED replied

HubDeletes(m) ==
    /\ m.kind = "delete"
    /\ review[m.by].phase = "draft"
    /\ review' = [review EXCEPT ![m.by].phase = "deleted"]
    /\ Reply(m, "ok")
    /\ UNCHANGED replied

HubRefuses(m) == Reply(m, "refused") /\ UNCHANGED hub

Hub == /\ \E m \in wire : \/ HubCreates(m) \/ HubReplies(m) \/ HubSubmits(m)
                          \/ HubDeletes(m) \/ HubRefuses(m)
       /\ UNCHANGED <<post, disk, moved>>

MoveHead == ~moved /\ moved' = TRUE /\ UNCHANGED <<post, disk, net, hub>>

Step(p) ==
    \/ Start(p) \/ FetchExisting(p) \/ ReadPrior(p) \/ Reserve(p)
    \/ SendCreate(p) \/ Created(p) \/ Reconcile(p) \/ PersistReconciled(p)
    \/ SendReply(p) \/ Replied(p) \/ RepliesDone(p) \/ Recheck(p)
    \/ SendSubmit(p) \/ Submitted(p) \/ Persist(p)
    \/ Fault(p) \/ Abort(p) \/ AwaitDelete(p) \/ Settle(p)

Next == (\E p \in Posters : Step(p) \/ Crash(p)) \/ Hub \/ MoveHead

Spec == Init /\ [][Next]_vars

(* A poster that lives keeps running: its waits are bounded by curl.       *)
FairSpec == Spec /\ \A p \in Posters : WF_vars(Step(p))

-----------------------------------------------------------------------------
(* Every variable has its type (the files and fields of the adapter).      *)
TypeOK ==
    /\ pc \in [Posters -> Planning \cup Body \cup Closing \cup Ended]
    /\ seen \in [Posters -> SUBSET Items]
    /\ confirmed \in [Posters -> SUBSET Items]
    /\ sent \in [Posters -> SUBSET Replies]
    /\ state \in [Posters -> States]
    /\ disk \in [plan : SUBSET Items, attempt : BOOLEAN, recon : BOOLEAN,
                 receipts : SUBSET Inline, replies : SUBSET Replies,
                 txn : States \cup {"Absent"}, decided : SUBSET Items]
    /\ wire \subseteq [kind : {"create", "reply", "submit", "delete"},
                       by : Posters, item : SUBSET Replies]
    /\ answer \in [Posters -> {"none", "ok", "refused"}]
    /\ review \in [Posters -> [phase : {"none", "draft", "published", "deleted"},
                               comments : SUBSET Inline]]
    /\ replied \subseteq Posters \X Replies
    /\ moved \in BOOLEAN

(* reserve_delivery_attempt: "never an automatic retry".  However many     *)
(* times the command runs, dies, or loses an answer, no comment and no     *)
(* reply is public twice, and at most one review is.                       *)
PublishedOnce ==
    \A p, q \in Posters : p # q =>
        /\ ~(Published(p) /\ Published(q))
        /\ \A r \in Replies : ~(<<p, r>> \in replied /\ <<q, r>> \in replied)

(* prior_confirmed_deliveries: a poster that reports success, a retry that *)
(* reports "already_delivered" included, leaves every planned comment and  *)
(* reply public.                                                           *)
SuccessIsPublished == \A p \in Posters : pc[p] = "done" => disk.plan \subseteq Public

(* delivery-transaction.json is believed by later posters: when it says    *)
(* ReceiptsPersisted the review is public with what its receipts list, and *)
(* when it says CleanedUp no review is on the pull request, not even as a  *)
(* draft, and none will be.                                                *)
TransactionTells ==
    /\ disk.txn = "ReceiptsPersisted" =>
          \E p \in Posters : Published(p) /\ disk.receipts \subseteq review[p].comments
    /\ disk.txn = "CleanedUp" =>
          \A p \in Posters : review[p].phase \in {"none", "deleted"}

(* Receipts are evidence of what GitHub holds: a reply's receipt names a   *)
(* public reply, and inline receipts name comments GitHub listed in one    *)
(* review, a draft's included.                                             *)
ReceiptsTrue ==
    /\ disk.replies \subseteq PublicReplies
    /\ disk.recon => \E p \in Posters : /\ review[p].phase # "none"
                                        /\ disk.receipts = review[p].comments

(* execute_pending_review_delivery reads the head again after the comments *)
(* and replies: once the head has moved, a review whose poster has not yet *)
(* done so is never made public.                                           *)
BeforeRecheck == Planning \cup {"create", "await_create", "list", "reconciled",
                                "replies", "await_reply", "recheck"}
StaleHeadNeverPublished ==
    \A p \in Posters :
        [](moved /\ pc[p] \in BeforeRecheck => [](~Published(p)))

(* Every poster that starts stops by itself, whatever the server does.     *)
PostEnds == \A p \in Posters : <>(pc[p] \in Ended)
=============================================================================

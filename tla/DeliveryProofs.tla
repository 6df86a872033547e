--------------------------- MODULE DeliveryProofs ---------------------------
(***************************************************************************)
(* Proofs about Delivery, for any number of posters and any plan.          *)
(*                                                                         *)
(* Nothing is public twice because only one poster ever writes to GitHub.  *)
(* That a poster is the writer can be seen from what it left behind: where *)
(* it is, its requests under way, its review, its replies.  Becoming the   *)
(* writer takes the reservation file, which is never removed.              *)
(*                                                                         *)
(* The rest follows the one writer: a moved head is caught by the second   *)
(* look at it, and what the writer leaves on disk, wherever it is killed,  *)
(* says no more than what GitHub holds.                                    *)
(***************************************************************************)
EXTENDS Delivery, TLAPS

WriterPcs == (Body \ {"recheck"}) \cup Closing

Writer(p) ==
    \/ pc[p] \in WriterPcs
    \/ pc[p] = "recheck" /\ ~Direct(p)
    \/ \E m \in wire : m.by = p
    \/ review[p].phase # "none"
    \/ \E r \in Replies : <<p, r>> \in replied

OneWriter ==
    /\ \A p \in Posters : Writer(p) => disk.attempt
    /\ \A p, q \in Posters : Writer(p) /\ Writer(q) => p = q

(***************************************************************************)
(* Types.                                                                  *)
(***************************************************************************)
USE PlanConstants DEF Items

LEMMA PlanningTyped ==
    ASSUME TypeOK, NEW p \in Posters,
           Start(p) \/ FetchExisting(p) \/ ReadPrior(p) \/ Reserve(p)
    PROVE  TypeOK'
<1>1. CASE Start(p)
  BY <1>1 DEF TypeOK, Start, Go, Planning, Ended, net, hub
<1>2. CASE FetchExisting(p)
  <2>1. Public \subseteq Items
    BY DEF TypeOK, Public, PublicInline, PublicReplies, Published
  <2>. QED BY <1>2, <2>1 DEF TypeOK, FetchExisting, Go, Planning, net, hub
<1>3. CASE ReadPrior(p)
  <2>1. PriorConfirmed(p) \subseteq Items
    BY DEF TypeOK, PriorConfirmed
  <2>. QED BY <1>3, <2>1 DEF TypeOK, ReadPrior, Go, Planning, Body, net, hub
<1>4. CASE Reserve(p)
  BY <1>4 DEF TypeOK, Reserve, Go, Body, Ended, net, hub
<1>. QED BY <1>1, <1>2, <1>3, <1>4

LEMMA DraftTyped ==
    ASSUME TypeOK, NEW p \in Posters,
           SendCreate(p) \/ Created(p) \/ Reconcile(p) \/ PersistReconciled(p)
    PROVE  TypeOK'
<1>1. CASE SendCreate(p)
  BY <1>1 DEF TypeOK, SendCreate, Send, Go, Body, hub
<1>2. CASE Created(p)
  BY <1>2 DEF TypeOK, Created, Answered, Go, Body, States, DraftStates, net, hub
<1>3. CASE Reconcile(p)
  BY <1>3 DEF TypeOK, Reconcile, Remaining, Go, Body, States, DraftStates, net, hub
<1>4. CASE PersistReconciled(p)
  BY <1>4 DEF TypeOK, PersistReconciled, Go, Body, States, net, hub
<1>. QED BY <1>1, <1>2, <1>3, <1>4

LEMMA RepliesTyped ==
    ASSUME TypeOK, NEW p \in Posters,
           SendReply(p) \/ Replied(p) \/ RepliesDone(p)
    PROVE  TypeOK'
<1>1. CASE SendReply(p)
  BY <1>1 DEF TypeOK, SendReply, Send, Remaining, Go, Body, hub
<1>2. CASE Replied(p)
  BY <1>2 DEF TypeOK, Replied, Answered, Asked, Go, Body, net, hub
<1>3. CASE RepliesDone(p)
  BY <1>3 DEF TypeOK, RepliesDone, Delivered, Remaining, Go, Body, net, hub
<1>. QED BY <1>1, <1>2, <1>3

LEMMA SubmissionTyped ==
    ASSUME TypeOK, NEW p \in Posters,
           Recheck(p) \/ SendSubmit(p) \/ Submitted(p) \/ Persist(p)
    PROVE  TypeOK'
<1>1. CASE Recheck(p)
  BY <1>1 DEF TypeOK, Recheck, Revalidated, Delivered, Remaining, Go, Body,
              Ended, States, DraftStates, net, hub
<1>2. CASE SendSubmit(p)
  BY <1>2 DEF TypeOK, SendSubmit, Send, Go, Body, hub
<1>3. CASE Submitted(p)
  BY <1>3 DEF TypeOK, Submitted, Answered, Go, Body, States, net, hub
<1>4. CASE Persist(p)
  BY <1>4 DEF TypeOK, Persist, Go, Ended, States, net, hub
<1>. QED BY <1>1, <1>2, <1>3, <1>4

LEMMA FailureTyped ==
    ASSUME TypeOK, NEW p \in Posters,
           Fault(p) \/ Abort(p) \/ AwaitDelete(p) \/ Settle(p) \/ Crash(p)
    PROVE  TypeOK'
<1>1. CASE Fault(p)
  BY <1>1 DEF TypeOK, Fault, Closing, Ended, net, hub
<1>2. CASE Abort(p)
  <2>1. CASE pc' = [pc EXCEPT ![p] = "await_delete"] /\ Send(p, "delete", {})
             /\ UNCHANGED <<seen, confirmed, sent, state, disk, hub, moved>>
    BY <2>1 DEF TypeOK, Send, Closing, hub
  <2>2. CASE pc' = [pc EXCEPT ![p] = "unclean"]
             /\ UNCHANGED <<seen, confirmed, sent, state, disk, net, hub, moved>>
    BY <2>2 DEF TypeOK, Closing, net, hub
  <2>. QED BY <1>2, <2>1, <2>2 DEF Abort, Go
<1>3. CASE AwaitDelete(p)
  BY <1>3 DEF TypeOK, AwaitDelete, Go, Closing, net, hub
<1>4. CASE Settle(p)
  BY <1>4, ZenonT(60) DEF TypeOK, Settle, Ended, States, net, hub
<1>5. CASE Crash(p)
  BY <1>5 DEF TypeOK, Crash, Ended, net, hub
<1>. QED BY <1>1, <1>2, <1>3, <1>4, <1>5

LEMMA HubTyped ==
    ASSUME TypeOK, Hub \/ MoveHead
    PROVE  TypeOK'
<1>1. CASE Hub
  <2>. SUFFICES ASSUME NEW m \in wire,
                       \/ HubCreates(m) \/ HubReplies(m) \/ HubSubmits(m)
                       \/ HubDeletes(m) \/ HubRefuses(m)
                PROVE  TypeOK'
    BY <1>1 DEF Hub
  <2>. m.by \in Posters /\ m.item \subseteq Replies
    BY DEF TypeOK
  <2>1. UNCHANGED <<post, disk, moved>>
    BY <1>1 DEF Hub
  <2>2. wire' \subseteq wire /\ answer' \in [Posters -> {"none", "ok", "refused"}]
    BY DEF TypeOK, HubCreates, HubReplies, HubSubmits, HubDeletes, HubRefuses, Reply
  <2>3. review' \in [Posters -> [phase : {"none", "draft", "published", "deleted"},
                                 comments : SUBSET Inline]]
    <3>. DEFINE Reviews == [phase : {"none", "draft", "published", "deleted"},
                            comments : SUBSET Inline]
    <3>1. CASE HubCreates(m)
      BY <3>1 DEF HubCreates, Remaining, TypeOK
    <3>2. review[m.by] \in Reviews
      BY DEF TypeOK
    <3>3. [review[m.by] EXCEPT !.phase = "published"] \in Reviews
      BY <3>2
    <3>4. [review[m.by] EXCEPT !.phase = "deleted"] \in Reviews
      BY <3>2
    <3>5. CASE HubSubmits(m)
      BY <3>5, <3>3 DEF HubSubmits, TypeOK
    <3>6. CASE HubDeletes(m)
      BY <3>6, <3>4 DEF HubDeletes, TypeOK
    <3>7. CASE HubReplies(m) \/ HubRefuses(m)
      BY <3>7 DEF HubReplies, HubRefuses, hub, TypeOK
    <3>. QED BY <3>1, <3>5, <3>6, <3>7
  <2>4. replied' \subseteq Posters \X Replies
    <3>1. replied' = replied \/ replied' = replied \cup {<<m.by, r>> : r \in m.item}
      BY DEF HubCreates, HubReplies, HubSubmits, HubDeletes, HubRefuses, hub
    <3>2. {<<m.by, r>> : r \in m.item} \subseteq Posters \X Replies
      OBVIOUS
    <3>. QED BY <3>1, <3>2 DEF TypeOK
  <2>. QED BY <2>1, <2>2, <2>3, <2>4 DEF TypeOK, post
<1>2. CASE MoveHead
  BY <1>2 DEF TypeOK, MoveHead, post, net, hub
<1>. QED BY <1>1, <1>2

(* Every variable of the delivery adapter's model keeps its type.          *)
THEOREM TypeCorrect == Spec => []TypeOK
<1>1. Init => TypeOK
  <2>. SUFFICES ASSUME Init PROVE TypeOK
    OBVIOUS
  <2>1. /\ pc \in [Posters -> Planning \cup Body \cup Closing \cup Ended]
        /\ state \in [Posters -> States]
    BY DEF Init, Planning, States
  <2>2. disk \in [plan : SUBSET Items, attempt : BOOLEAN, recon : BOOLEAN,
                 receipts : SUBSET Inline, replies : SUBSET Replies,
                 txn : States \cup {"Absent"}, decided : SUBSET Items]
    BY DEF Init
  <2>3. review \in [Posters -> [phase : {"none", "draft", "published", "deleted"},
                               comments : SUBSET Inline]]
    BY DEF Init
  <2>. QED BY <2>1, <2>2, <2>3 DEF Init, TypeOK
<1>2. TypeOK /\ [Next]_vars => TypeOK'
  <2>. SUFFICES ASSUME TypeOK, [Next]_vars PROVE TypeOK'
    OBVIOUS
  <2>1. CASE \E p \in Posters : Step(p) \/ Crash(p)
    BY <2>1, PlanningTyped, DraftTyped, RepliesTyped, SubmissionTyped, FailureTyped
       DEF Step
  <2>2. CASE Hub \/ MoveHead
    BY <2>2, HubTyped
  <2>3. CASE UNCHANGED vars
    BY <2>3 DEF TypeOK, vars, post, net, hub
  <2>. QED BY <2>1, <2>2, <2>3 DEF Next
<1>. QED BY <1>1, <1>2, PTL DEF Spec

(***************************************************************************)
(* One writer.                                                             *)
(***************************************************************************)
(* A step of a poster changes no other poster's traces, adds to its own    *)
(* only if it was the writer or has just made the reservation, and never   *)
(* changes the plan or takes the reservation back.                         *)
Kept(p) ==
    /\ disk'.plan = disk.plan
    /\ disk.attempt => disk'.attempt
    /\ \A q \in Posters : Writer(q)' => Writer(q) \/ (q = p /\ ~disk.attempt)
    /\ Writer(p)' => disk'.attempt \/ Writer(p)

LEMMA PlanningKeeps ==
    ASSUME TypeOK, NEW p \in Posters,
           Start(p) \/ FetchExisting(p) \/ ReadPrior(p) \/ Reserve(p)
    PROVE  Kept(p)
<1>. pc \in [Posters -> Planning \cup Body \cup Closing \cup Ended]
     /\ confirmed \in [Posters -> SUBSET Items]
  BY DEF TypeOK
<1>1. CASE Start(p)
  BY <1>1 DEF Kept, Writer, WriterPcs, Direct, Remaining, Start, Go, Planning, Body,
              Closing, Ended, net, hub
<1>2. CASE FetchExisting(p)
  BY <1>2 DEF Kept, Writer, WriterPcs, Direct, Remaining, FetchExisting, Go, Planning,
              Body, Closing, Ended, net, hub
<1>3. CASE ReadPrior(p)
  BY <1>3 DEF Kept, Writer, WriterPcs, Direct, Remaining, ReadPrior, Go, Planning, Body,
              Closing, Ended, net, hub
<1>4. CASE Reserve(p)
  <2>1. ~disk.attempt /\ disk'.attempt /\ disk'.plan = disk.plan
    BY <1>4 DEF Reserve, TypeOK
  <2>2. \A q \in Posters : q # p => (Writer(q)' => Writer(q))
    BY <1>4, <2>1 DEF Writer, WriterPcs, Direct, Remaining, Reserve, Go, net, hub
  <2>. QED BY <2>1, <2>2 DEF Kept
<1>. QED BY <1>1, <1>2, <1>3, <1>4

LEMMA WritingKeeps ==
    ASSUME TypeOK, NEW p \in Posters,
           \/ SendCreate(p) \/ Created(p) \/ Reconcile(p) \/ PersistReconciled(p)
           \/ SendReply(p) \/ Replied(p) \/ RepliesDone(p) \/ SendSubmit(p)
           \/ Submitted(p) \/ Persist(p) \/ Abort(p) \/ AwaitDelete(p) \/ Settle(p)
    PROVE  Kept(p)
<1>. pc \in [Posters -> Planning \cup Body \cup Closing \cup Ended]
  BY DEF TypeOK
<1>1. pc[p] \in WriterPcs
  BY DEF SendCreate, Created, Reconcile, PersistReconciled, SendReply, Replied,
         RepliesDone, SendSubmit, Submitted, Persist, Abort, AwaitDelete, Settle,
         Go, WriterPcs, Body, Closing
<1>2. (disk.attempt => disk'.attempt) /\ disk'.plan = disk.plan
  BY DEF TypeOK, SendCreate, Created, Reconcile, PersistReconciled, SendReply, Replied,
         RepliesDone, SendSubmit, Submitted, Persist, Abort, AwaitDelete, Settle
<1>3. \A q \in Posters \ {p} : pc'[q] = pc[q]
  BY DEF SendCreate, Created, Reconcile, PersistReconciled, SendReply, Replied,
         RepliesDone, SendSubmit, Submitted, Persist, Abort, AwaitDelete, Settle, Go
<1>4. UNCHANGED <<confirmed, review, replied>>
  BY DEF SendCreate, Created, Reconcile, PersistReconciled, SendReply, Replied,
         RepliesDone, SendSubmit, Submitted, Persist, Abort, AwaitDelete, Settle, hub
<1>5. \A m \in wire' : m \in wire \/ m.by = p
  <2>1. CASE SendCreate(p) \/ SendSubmit(p)
    BY <2>1 DEF SendCreate, SendSubmit, Send
  <2>2. CASE SendReply(p)
    BY <2>2 DEF SendReply, Send
  <2>3. CASE Abort(p)
    BY <2>3 DEF Abort, Send, net
  <2>4. CASE \/ Created(p) \/ Reconcile(p) \/ PersistReconciled(p) \/ Replied(p)
             \/ RepliesDone(p) \/ Submitted(p) \/ Persist(p) \/ AwaitDelete(p)
             \/ Settle(p)
    BY <2>4 DEF Created, Reconcile, PersistReconciled, Replied, RepliesDone, Submitted,
                Persist, AwaitDelete, Settle, Answered, net
  <2>. QED BY <2>1, <2>2, <2>3, <2>4
<1>. QED BY <1>1, <1>2, <1>3, <1>4, <1>5 DEF Kept, Writer, Direct, Remaining

LEMMA RecheckKeeps ==
    ASSUME TypeOK, NEW p \in Posters, Recheck(p) \/ Fault(p) \/ Crash(p)
    PROVE  Kept(p)
<1>. pc \in [Posters -> Planning \cup Body \cup Closing \cup Ended]
  BY DEF TypeOK
<1>1. CASE Recheck(p)
  <2>1. (disk.attempt => disk'.attempt) /\ disk'.plan = disk.plan
    BY <1>1 DEF TypeOK, Recheck, Revalidated
  <2>. QED
    BY <1>1, <2>1 DEF Kept, Writer, WriterPcs, Direct, Remaining, Recheck,
       Revalidated, Go, Body, Closing, net, hub
<1>2. CASE Fault(p)
  BY <1>2 DEF Kept, Writer, WriterPcs, Direct, Remaining, Fault, Planning, Body, Closing,
              Ended, net, hub
<1>3. CASE Crash(p)
  BY <1>3 DEF Kept, Writer, WriterPcs, Direct, Remaining, Crash, Planning, Body, Closing,
              Ended, net, hub
<1>. QED BY <1>1, <1>2, <1>3

(* GitHub acts only on what a poster sent, so it makes nobody a writer.    *)
LEMMA HubKeeps ==
    ASSUME TypeOK, Hub
    PROVE  disk' = disk /\ \A q \in Posters : Writer(q)' => Writer(q)
<1>. SUFFICES ASSUME NEW m \in wire,
                     \/ HubCreates(m) \/ HubReplies(m) \/ HubSubmits(m)
                     \/ HubDeletes(m) \/ HubRefuses(m),
                     UNCHANGED <<post, disk, moved>>
              PROVE  disk' = disk /\ \A q \in Posters : Writer(q)' => Writer(q)
  BY DEF Hub
<1>1. wire' \subseteq wire
  BY DEF HubCreates, HubReplies, HubSubmits, HubDeletes, HubRefuses, Reply
<1>2. \A q \in Posters : q # m.by => review'[q] = review[q]
  BY DEF HubCreates, HubReplies, HubSubmits, HubDeletes, HubRefuses, hub, TypeOK
<1>3. \A q \in Posters, r \in Replies :
         q # m.by /\ <<q, r>> \in replied' => <<q, r>> \in replied
  BY DEF HubCreates, HubReplies, HubSubmits, HubDeletes, HubRefuses, hub
<1>. QED BY <1>1, <1>2, <1>3 DEF post, Writer, Direct, Remaining

LEMMA OneWriterInductive ==
    ASSUME TypeOK, OneWriter, [Next]_vars
    PROVE  OneWriter'
<1>1. CASE \E p \in Posters : Step(p) \/ Crash(p)
  <2>. PICK p \in Posters : Step(p) \/ Crash(p)
    BY <1>1
  <2>1. Kept(p)
    BY PlanningKeeps, WritingKeeps, RecheckKeeps DEF Step
  <2>2. disk.attempt \/ disk'.attempt \/ ~Writer(p)'
    BY <2>1 DEF Kept, OneWriter
  <2>. QED BY <2>1, <2>2 DEF Kept, OneWriter
<1>2. CASE Hub
  BY <1>2, HubKeeps DEF OneWriter
<1>3. CASE MoveHead
  BY <1>3, SMTT(60) DEF MoveHead, OneWriter, Writer, Direct, Remaining, post, net, hub
<1>4. CASE UNCHANGED vars
  BY <1>4, SMTT(60) DEF vars, OneWriter, Writer, Direct, Remaining, post, net, hub
<1>. QED BY <1>1, <1>2, <1>3, <1>4 DEF Next

(* reserve_delivery_attempt makes publication happen at most once, however *)
(* many posters run, fail, die or are run again.                           *)
THEOREM PublishedAtMostOnce == Spec => []PublishedOnce
<1>1. Init => OneWriter
  BY DEF Init, OneWriter, Writer, WriterPcs, Body, Closing
<1>2. TypeOK /\ OneWriter /\ [Next]_vars => OneWriter'
  BY OneWriterInductive
<1>3. OneWriter => PublishedOnce
  BY DEF OneWriter, Writer, PublishedOnce, Published
<1>. QED BY <1>1, <1>2, <1>3, TypeCorrect, PTL DEF Spec

(***************************************************************************)
(* The head is read again.                                                 *)
(***************************************************************************)
Submits(p) == \E m \in wire : m.by = p /\ m.kind = "submit"

(* Before its second look at the head a poster has not asked to submit.    *)
NotAsked == \A p \in Posters :
                pc[p] \in BeforeRecheck => ~Submits(p) /\ ~Published(p)

(* A poster the move of the head has caught never asks.                    *)
Caught(p) ==
    /\ moved
    /\ pc[p] \notin {"submit", "await_submit"}
    /\ ~Submits(p)
    /\ ~Published(p)

(* A poster's step sends a submission only from "submit", where only a     *)
(* second look at a head that has not moved leads, and never goes back.    *)
Asks(p) ==
    /\ UNCHANGED <<review, moved>>
    /\ \A q \in Posters : q # p => pc'[q] = pc[q]
    /\ pc'[p] \in BeforeRecheck => pc[p] \in BeforeRecheck
    /\ pc'[p] = "submit" => ~moved
    /\ pc'[p] = "await_submit" => pc[p] = "submit"
    /\ \A m \in wire' : m \in wire \/ (m.by = p /\ (m.kind = "submit" => pc'[p] = "await_submit"))

LEMMA QuietAsks ==
    ASSUME TypeOK, NEW p \in Posters,
           \/ Start(p) \/ FetchExisting(p) \/ ReadPrior(p) \/ Reserve(p)
           \/ Created(p) \/ Reconcile(p) \/ PersistReconciled(p) \/ Replied(p)
           \/ RepliesDone(p) \/ Recheck(p) \/ Submitted(p) \/ Persist(p)
           \/ Fault(p) \/ AwaitDelete(p) \/ Settle(p) \/ Crash(p)
    PROVE  Asks(p)
<1>. pc \in [Posters -> Planning \cup Body \cup Closing \cup Ended]
  BY DEF TypeOK
<1>1. wire' \subseteq wire /\ UNCHANGED <<review, moved>>
  BY DEF Start, FetchExisting, ReadPrior, Reserve, Created, Reconcile, PersistReconciled,
         Replied, RepliesDone, Recheck, Revalidated, Submitted, Persist, Fault, AwaitDelete,
         Settle, Crash, Answered, net, hub
<1>2. /\ \A q \in Posters : q # p => pc'[q] = pc[q]
      /\ pc'[p] \in BeforeRecheck => pc[p] \in BeforeRecheck
      /\ pc'[p] = "submit" => ~moved
      /\ pc'[p] # "await_submit"
  <2>1. CASE Start(p) \/ FetchExisting(p) \/ ReadPrior(p) \/ Reserve(p)
    BY <2>1 DEF Start, FetchExisting, ReadPrior, Reserve, Go, BeforeRecheck, Planning
  <2>2. CASE Created(p) \/ Reconcile(p) \/ PersistReconciled(p) \/ Replied(p) \/ RepliesDone(p)
    BY <2>2 DEF Created, Reconcile, PersistReconciled, Replied, RepliesDone, Go,
                BeforeRecheck, Planning
  <2>3. CASE Recheck(p)
    BY <2>3 DEF Recheck, Revalidated, Go, BeforeRecheck, Planning
  <2>4. CASE Submitted(p) \/ Persist(p) \/ AwaitDelete(p) \/ Settle(p) \/ Crash(p)
    BY <2>4 DEF Submitted, Persist, AwaitDelete, Settle, Crash, Go, BeforeRecheck, Planning
  <2>5. CASE Fault(p)
    BY <2>5 DEF Fault, BeforeRecheck, Planning
  <2>. QED BY <2>1, <2>2, <2>3, <2>4, <2>5
<1>. QED BY <1>1, <1>2 DEF Asks

LEMMA SendingAsks ==
    ASSUME TypeOK, NEW p \in Posters,
           SendCreate(p) \/ SendReply(p) \/ SendSubmit(p) \/ Abort(p)
    PROVE  Asks(p)
<1>. pc \in [Posters -> Planning \cup Body \cup Closing \cup Ended]
  BY DEF TypeOK
<1>1. CASE SendCreate(p) \/ SendSubmit(p)
  BY <1>1 DEF SendCreate, SendSubmit, Send, Go, Asks, BeforeRecheck, Planning, hub
<1>2. CASE SendReply(p)
  BY <1>2 DEF SendReply, Send, Go, Asks, BeforeRecheck, Planning, hub
<1>3. CASE Abort(p)
  BY <1>3 DEF Abort, Send, Go, Asks, BeforeRecheck, Planning, net, hub
<1>. QED BY <1>1, <1>2, <1>3

(* GitHub submits only what a poster asked it to submit.                   *)
LEMMA HubObeys ==
    ASSUME TypeOK, Hub
    PROVE  /\ UNCHANGED <<pc, moved>>
           /\ wire' \subseteq wire
           /\ \A p \in Posters : Published(p)' => Published(p) \/ Submits(p)
<1>. PICK m \in wire : \/ HubCreates(m) \/ HubReplies(m) \/ HubSubmits(m)
                       \/ HubDeletes(m) \/ HubRefuses(m)
  BY DEF Hub
<1>1. wire' \subseteq wire
  BY DEF HubCreates, HubReplies, HubSubmits, HubDeletes, HubRefuses, Reply
<1>2. \A p \in Posters : Published(p)' => Published(p) \/ Submits(p)
  <2>. review \in [Posters -> [phase : {"none", "draft", "published", "deleted"},
                              comments : SUBSET Inline]]
    BY DEF TypeOK
  <2>1. CASE HubCreates(m)
    BY <2>1 DEF HubCreates, Published
  <2>2. CASE HubSubmits(m)
    BY <2>2 DEF HubSubmits, Published, Submits
  <2>3. CASE HubDeletes(m)
    BY <2>3 DEF HubDeletes, Published
  <2>4. CASE HubReplies(m) \/ HubRefuses(m)
    BY <2>4 DEF HubReplies, HubRefuses, hub, Published
  <2>. QED BY <2>1, <2>2, <2>3, <2>4
<1>. QED BY <1>1, <1>2 DEF Hub, post

LEMMA CaughtStays ==
    ASSUME TypeOK, [Next]_vars
    PROVE  /\ NotAsked => NotAsked'
           /\ \A p \in Posters : Caught(p) => Caught(p)'
<1>1. CASE \E p \in Posters : Step(p) \/ Crash(p)
  <2>. PICK p \in Posters : Step(p) \/ Crash(p)
    BY <1>1
  <2>1. Asks(p)
    BY QuietAsks, SendingAsks DEF Step
  <2>. QED BY <2>1 DEF Asks, NotAsked, Caught, Submits, Published, BeforeRecheck, Planning
<1>2. CASE Hub
  BY <1>2, HubObeys DEF NotAsked, Caught, Submits
<1>3. CASE MoveHead \/ UNCHANGED vars
  BY <1>3 DEF MoveHead, vars, NotAsked, Caught, Submits, Published, post, net, hub
<1>. QED BY <1>1, <1>2, <1>3 DEF Next

(* execute_pending_review_delivery: the second look at the head, after the *)
(* comments and the replies, keeps a review of a superseded head private.  *)
THEOREM StaleStaysPrivate == Spec => StaleHeadNeverPublished
<1>. SUFFICES ASSUME NEW p \in Posters
              PROVE  Spec => [](moved /\ pc[p] \in BeforeRecheck => [](~Published(p)))
  BY DEF StaleHeadNeverPublished
<1>1. Init => NotAsked
  BY DEF Init, NotAsked, Submits, Published
<1>2. TypeOK /\ NotAsked /\ [Next]_vars => NotAsked'
  BY CaughtStays
<1>3. TypeOK /\ Caught(p) /\ [Next]_vars => Caught(p)'
  BY CaughtStays
<1>4. NotAsked /\ moved /\ pc[p] \in BeforeRecheck => Caught(p)
  BY DEF NotAsked, Caught, BeforeRecheck, Planning
<1>5. Caught(p) => ~Published(p)
  BY DEF Caught
<1>. QED BY <1>1, <1>2, <1>3, <1>4, <1>5, TypeCorrect, PTL DEF Spec

(***************************************************************************)
(* What a poster leaves behind is true.                                    *)
(***************************************************************************)
(* Before it asks for a draft it has left nothing on the server.           *)
Fresh(p) ==
    pc[p] \in Planning \cup {"create"} =>
        review[p].phase = "none" /\ \A m \in wire : m.by # p

(* It asks for one draft: the request it may still have under way is one   *)
(* nothing has come of.                                                    *)
OneDraft(p) ==
    \A m \in wire : m.by = p /\ m.kind = "create" =>
        m.item = {} /\ review[p].phase = "none"

(* An answer it was given, and what it has concluded from one, are true.   *)
Informed(p) ==
    /\ (pc[p] = "await_submit" /\ answer[p] = "ok") \/ pc[p] = "persist" => Published(p)
    /\ (pc[p] = "await_delete" /\ answer[p] = "ok") \/ pc[p] = "cleaned" =>
          review[p].phase = "deleted"

(* What it takes for delivered is on the pull request.                     *)
Knows(p) ==
    /\ seen[p] \subseteq Public
    /\ confirmed[p] \subseteq Public
    /\ \A r \in sent[p] : <<p, r>> \in replied

(* From the reconciliation on its draft, and the receipts on disk, are the *)
(* plan's; a direct delivery makes no draft and submits none.              *)
Reconciled == {"reconciled", "replies", "await_reply", "recheck",
               "submit", "await_submit", "persist"}
Holds(p) ==
    /\ pc[p] \in Reconciled /\ ~Direct(p) =>
          /\ disk.recon
          /\ disk.receipts = Remaining(p, Inline)
          /\ review[p].comments = Remaining(p, Inline)
          /\ review[p].phase # "none"
    /\ pc[p] = "reconciled" => state[p] = "CommentsReconciled"
    /\ pc[p] \in {"create", "await_create", "list", "reconciled",
                  "submit", "await_submit", "persist"} => ~Direct(p)

(* It looks at the head again only when every reply is sent.               *)
Replying(p) ==
    pc[p] \in {"recheck", "submit", "await_submit", "persist"} =>
        Remaining(p, Replies) \subseteq sent[p]

Succeeds(p) == pc[p] = "done" => disk.plan \subseteq Public

True(p) ==
    /\ Fresh(p) /\ OneDraft(p) /\ Informed(p) /\ Knows(p)
    /\ Holds(p) /\ Replying(p) /\ Succeeds(p)

(* The transaction on disk: a deletion it reports is that of the writer's  *)
(* draft, so that no request for another can be under way.                 *)
TransactionTrue ==
    /\ disk.txn = "ReceiptsPersisted" =>
          \E p \in Posters : Published(p) /\ disk.receipts \subseteq review[p].comments
    /\ disk.txn = "CleanedUp" => \E p \in Posters : review[p].phase = "deleted"

Trail == (\A p \in Posters : True(p)) /\ ReceiptsTrue /\ TransactionTrue

(* A poster's step leaves the server and the other posters alone.          *)
Frame(p) ==
    /\ UNCHANGED hub
    /\ disk'.plan = disk.plan
    /\ \A q \in Posters : q # p =>
          /\ pc'[q] = pc[q] /\ seen'[q] = seen[q] /\ confirmed'[q] = confirmed[q]
          /\ sent'[q] = sent[q] /\ state'[q] = state[q] /\ answer'[q] = answer[q]
    /\ \A m : m.by # p => (m \in wire' <=> m \in wire)
    /\ \/ disk'.recon = disk.recon /\ disk'.receipts = disk.receipts
       \/ pc[p] \in WriterPcs

LEMMA QuietFrame ==
    ASSUME TypeOK, NEW p \in Posters,
           \/ Start(p) \/ FetchExisting(p) \/ ReadPrior(p) \/ Reserve(p)
           \/ Created(p) \/ Reconcile(p) \/ PersistReconciled(p) \/ Replied(p)
           \/ RepliesDone(p) \/ Recheck(p) \/ Submitted(p) \/ Persist(p)
           \/ Fault(p) \/ AwaitDelete(p) \/ Settle(p) \/ Crash(p)
    PROVE  Frame(p)
<1>1. CASE Start(p) \/ FetchExisting(p) \/ ReadPrior(p) \/ Reserve(p)
  BY <1>1 DEF TypeOK, Frame, Start, FetchExisting, ReadPrior, Reserve, Go, net, hub
<1>2. CASE Created(p) \/ Reconcile(p) \/ PersistReconciled(p)
  BY <1>2 DEF TypeOK, Frame, Created, Reconcile, PersistReconciled, Answered, Go, net, hub,
              WriterPcs, Body
<1>3. CASE Replied(p) \/ RepliesDone(p) \/ Recheck(p)
  BY <1>3 DEF TypeOK, Frame, Replied, RepliesDone, Recheck, Revalidated, Answered, Go,
              net, hub
<1>4. CASE Submitted(p) \/ Persist(p)
  BY <1>4 DEF TypeOK, Frame, Submitted, Persist, Answered, Go, net, hub
<1>5. CASE Fault(p) \/ AwaitDelete(p) \/ Crash(p)
  BY <1>5 DEF TypeOK, Frame, Fault, AwaitDelete, Crash, Go, net, hub
<1>6. CASE Settle(p)
  BY <1>6 DEF TypeOK, Frame, Settle, net, hub, WriterPcs, Closing
<1>. QED BY <1>1, <1>2, <1>3, <1>4, <1>5, <1>6

LEMMA SendingFrame ==
    ASSUME TypeOK, NEW p \in Posters,
           SendCreate(p) \/ SendReply(p) \/ SendSubmit(p) \/ Abort(p)
    PROVE  Frame(p)
<1>1. CASE SendCreate(p) \/ SendSubmit(p)
  BY <1>1 DEF TypeOK, SendCreate, SendSubmit, Send, Go, Frame, hub
<1>2. CASE SendReply(p)
  BY <1>2 DEF TypeOK, SendReply, Send, Go, Frame, hub
<1>3. CASE Abort(p)
  BY <1>3 DEF TypeOK, Abort, Send, Go, Frame, net, hub
<1>. QED BY <1>1, <1>2, <1>3

LEMMA FrameKeeps ==
    ASSUME NEW p \in Posters, Frame(p)
    PROVE  /\ Public' = Public
           /\ \A q \in Posters : Published(q)' <=> Published(q)
           /\ \A q \in Posters : confirmed'[q] = confirmed[q] =>
                 /\ Direct(q)' <=> Direct(q)
                 /\ Remaining(q, Inline)' = Remaining(q, Inline)
                 /\ Remaining(q, Replies)' = Remaining(q, Replies)
BY DEF Frame, hub, Public, PublicInline, PublicReplies, Published, Direct, Remaining

(* What is true of the other posters stays true: only the writer changes   *)
(* the receipts.                                                           *)
LEMMA OthersStayTrue ==
    ASSUME TypeOK, OneWriter, NEW p \in Posters, Frame(p),
           NEW q \in Posters, q # p, True(q)
    PROVE  True(q)'
<1>1. /\ Public' = Public /\ (Published(q)' <=> Published(q)) /\ (Direct(q)' <=> Direct(q))
      /\ Remaining(q, Inline)' = Remaining(q, Inline)
      /\ Remaining(q, Replies)' = Remaining(q, Replies)
  BY FrameKeeps DEF Frame
<1>2. Fresh(q)' /\ OneDraft(q)' /\ Informed(q)' /\ Knows(q)' /\ Replying(q)' /\ Succeeds(q)'
  BY <1>1 DEF True, Frame, Fresh, OneDraft, Informed, Knows, Replying, Succeeds, hub
<1>3. Holds(q)'
  <2>1. CASE pc[q] \in Reconciled /\ ~Direct(q)
    <3>1. Writer(q)
      BY <2>1 DEF Writer, WriterPcs, Reconciled, Body
    <3>2. pc[p] \notin WriterPcs
      BY <3>1 DEF OneWriter, Writer
    <3>. QED BY <1>1, <3>2 DEF True, Frame, Holds, hub
  <2>2. CASE ~(pc[q] \in Reconciled /\ ~Direct(q))
    BY <2>2, <1>1 DEF True, Frame, Holds, hub
  <2>. QED BY <2>1, <2>2
<1>. QED BY <1>2, <1>3 DEF True

(* Its own steps.                                                          *)
LEMMA PlanningTrue ==
    ASSUME TypeOK, NEW p \in Posters, Frame(p), True(p),
           Start(p) \/ FetchExisting(p) \/ ReadPrior(p) \/ Reserve(p)
    PROVE  True(p)'
<1>. pc \in [Posters -> Planning \cup Body \cup Closing \cup Ended]
     /\ seen \in [Posters -> SUBSET Items] /\ confirmed \in [Posters -> SUBSET Items]
  BY DEF TypeOK
<1>. Public' = Public /\ UNCHANGED <<review, replied, wire, answer, sent, state>>
  BY FrameKeeps DEF Start, FetchExisting, ReadPrior, Reserve, net, hub
<1>1. CASE Start(p)
  BY <1>1, FrameKeeps
     DEF True, Fresh, OneDraft, Informed, Knows, Holds, Reconciled, Replying, Succeeds,
         Published, Start, Go, Planning
<1>2. CASE FetchExisting(p)
  BY <1>2, FrameKeeps
     DEF True, Fresh, OneDraft, Informed, Knows, Holds, Reconciled, Replying, Succeeds,
         Published, FetchExisting, Go, Planning
<1>3. CASE ReadPrior(p)
  <2>1. confirmed'[p] = PriorConfirmed(p) /\ PriorConfirmed(p) \subseteq Public
        /\ seen' = seen /\ disk' = disk
    BY <1>3 DEF ReadPrior, True, Knows, PriorConfirmed
  <2>2. pc'[p] = "recheck" => Direct(p)' /\ Remaining(p, Replies)' = {}
    BY <1>3, <2>1 DEF ReadPrior, Go, Direct, Remaining
  <2>3. pc[p] = "prior" /\ pc'[p] \in {"recheck", "reserve"}
    BY <1>3 DEF ReadPrior, Go
  <2>. QED
    BY <2>1, <2>2, <2>3
       DEF True, Fresh, OneDraft, Informed, Knows, Holds, Reconciled, Replying, Succeeds,
           Published, Planning
<1>4. CASE Reserve(p)
  <2>1. pc[p] = "reserve" /\ pc'[p] \in {"replies", "create", "failed"}
        /\ (pc'[p] = "replies" => Direct(p)) /\ (pc'[p] = "create" => ~Direct(p)) /\ seen' = seen /\ confirmed' = confirmed
    BY <1>4 DEF Reserve, Go
  <2>. QED
    BY <2>1, FrameKeeps
       DEF True, Fresh, OneDraft, Informed, Knows, Holds, Reconciled, Replying, Succeeds,
           Published, Planning
<1>. QED BY <1>1, <1>2, <1>3, <1>4

LEMMA DraftTrue ==
    ASSUME TypeOK, NEW p \in Posters, Frame(p), True(p),
           SendCreate(p) \/ Created(p) \/ Reconcile(p) \/ PersistReconciled(p)
    PROVE  True(p)'
<1>. pc \in [Posters -> Planning \cup Body \cup Closing \cup Ended]
     /\ state \in [Posters -> States]
  BY DEF TypeOK
<1>. /\ Public' = Public /\ (Published(p)' <=> Published(p)) /\ (Direct(p)' <=> Direct(p))
     /\ Remaining(p, Inline)' = Remaining(p, Inline)
     /\ UNCHANGED <<review, replied, seen, confirmed, sent>>
  BY FrameKeeps DEF SendCreate, Created, Reconcile, PersistReconciled, hub
<1>1. CASE SendCreate(p)
  <2>1. \A m \in wire' : m \in wire \/ (m.by = p /\ m.kind = "create" /\ m.item = {})
    BY <1>1 DEF SendCreate, Send
  <2>. QED
    BY <1>1, <2>1
       DEF True, Fresh, OneDraft, Informed, Knows, Holds, Reconciled, Replying, Succeeds,
           SendCreate, Go, Planning
<1>2. CASE Created(p)
  BY <1>2 DEF True, Fresh, OneDraft, Informed, Knows, Holds, Reconciled, Replying, Succeeds,
              Created, Go, Planning, Answered, net
<1>3. CASE Reconcile(p)
  <2>1. disk'.recon = TRUE /\ disk'.receipts = Remaining(p, Inline)
        /\ state'[p] = "CommentsReconciled" /\ pc[p] = "list" /\ pc'[p] = "reconciled"
        /\ UNCHANGED <<wire, answer>>
    BY <1>3 DEF Reconcile, TypeOK, Go, net
  <2>2. review[p].phase = "draft" /\ review[p].comments = Remaining(p, Inline)
    BY <1>3 DEF Reconcile
  <2>3. ~Direct(p)
    BY <2>1 DEF True, Holds
  <2>. QED
    BY <2>1, <2>2, <2>3
       DEF True, Fresh, OneDraft, Informed, Knows, Holds, Reconciled, Replying, Succeeds,
           Planning
<1>4. CASE PersistReconciled(p)
  <2>1. disk'.recon = disk.recon /\ disk'.receipts = disk.receipts
        /\ pc[p] = "reconciled" /\ pc'[p] = "replies" /\ UNCHANGED <<wire, answer>>
    BY <1>4 DEF PersistReconciled, TypeOK, Go, net
  <2>. QED
    BY <2>1
       DEF True, Fresh, OneDraft, Informed, Knows, Holds, Reconciled, Replying, Succeeds,
           Planning
<1>. QED BY <1>1, <1>2, <1>3, <1>4

LEMMA RepliesTrue ==
    ASSUME TypeOK, NEW p \in Posters, Frame(p), True(p),
           SendReply(p) \/ Replied(p) \/ RepliesDone(p)
    PROVE  True(p)'
<1>. pc \in [Posters -> Planning \cup Body \cup Closing \cup Ended]
     /\ sent \in [Posters -> SUBSET Replies]
  BY DEF TypeOK
<1>. /\ Public' = Public /\ (Published(p)' <=> Published(p)) /\ (Direct(p)' <=> Direct(p))
     /\ Remaining(p, Inline)' = Remaining(p, Inline)
     /\ Remaining(p, Replies)' = Remaining(p, Replies)
     /\ UNCHANGED <<review, replied, seen, confirmed, state>>
  BY FrameKeeps DEF SendReply, Replied, RepliesDone, hub
<1>0. disk'.recon = disk.recon /\ disk'.receipts = disk.receipts
  BY DEF SendReply, Replied, RepliesDone, TypeOK
<1>1. CASE SendReply(p)
  <2>1. \A m \in wire' : m \in wire \/ (m.by = p /\ m.kind = "reply")
    BY <1>1 DEF SendReply, Send
  <2>2. pc[p] = "replies" /\ pc'[p] = "await_reply" /\ sent' = sent
    BY <1>1 DEF SendReply, Go
  <2>. QED
    BY <1>0, <2>1, <2>2
       DEF True, Fresh, OneDraft, Informed, Knows, Holds, Reconciled, Replying, Succeeds,
           Planning
<1>2. CASE Replied(p)
  <2>1. \A r \in sent'[p] : <<p, r>> \in replied
    BY <1>2 DEF Replied, Asked, True, Knows
  <2>2. pc[p] = "await_reply" /\ pc'[p] = "replies" /\ UNCHANGED <<wire, answer>>
    BY <1>2 DEF Replied, Answered, Go, net
  <2>. QED
    BY <1>0, <2>1, <2>2
       DEF True, Fresh, OneDraft, Informed, Knows, Holds, Reconciled, Replying, Succeeds,
           Planning
<1>3. CASE RepliesDone(p)
  <2>1. pc[p] = "replies" /\ pc'[p] = "recheck" /\ UNCHANGED <<wire, answer, sent>>
        /\ Remaining(p, Replies) \subseteq sent[p]
    BY <1>3 DEF RepliesDone, Go, net
  <2>. QED
    BY <1>0, <2>1
       DEF True, Fresh, OneDraft, Informed, Knows, Holds, Reconciled, Replying, Succeeds,
           Planning
<1>. QED BY <1>1, <1>2, <1>3

(* Where all replies are sent and the rest is public, the plan is.         *)
LEMMA PlanPublic ==
    ASSUME TypeOK, NEW p \in Posters, True(p),
           Remaining(p, Replies) \subseteq sent[p],
           Remaining(p, Inline) \subseteq PublicInline
    PROVE  disk.plan \subseteq Public
<1>1. sent[p] \subseteq PublicReplies
  BY DEF TypeOK, True, Knows, PublicReplies
<1>2. disk.plan \subseteq confirmed[p] \cup Remaining(p, Inline) \cup Remaining(p, Replies)
  BY DEF TypeOK, Remaining
<1>. QED BY <1>1, <1>2 DEF True, Knows, Public

LEMMA SubmissionTrue ==
    ASSUME TypeOK, NEW p \in Posters, Frame(p), True(p),
           Recheck(p) \/ SendSubmit(p) \/ Submitted(p) \/ Persist(p)
    PROVE  True(p)'
<1>. pc \in [Posters -> Planning \cup Body \cup Closing \cup Ended]
     /\ answer \in [Posters -> {"none", "ok", "refused"}]
  BY DEF TypeOK
<1>. /\ Public' = Public /\ (Published(p)' <=> Published(p)) /\ (Direct(p)' <=> Direct(p))
     /\ Remaining(p, Inline)' = Remaining(p, Inline)
     /\ Remaining(p, Replies)' = Remaining(p, Replies)
     /\ disk'.plan = disk.plan
     /\ UNCHANGED <<review, replied, seen, confirmed, sent>>
  BY FrameKeeps DEF Recheck, Revalidated, SendSubmit, Submitted, Persist, Frame, hub
<1>0. disk'.recon = disk.recon /\ disk'.receipts = disk.receipts
  BY DEF Recheck, Revalidated, SendSubmit, Submitted, Persist, TypeOK
<1>1. CASE Recheck(p)
  <2>1. pc[p] = "recheck" /\ pc'[p] = (IF Direct(p) THEN "done" ELSE "submit")
        /\ UNCHANGED <<wire, answer>>
    BY <1>1 DEF Recheck, Revalidated, Go, net
  <2>2. Direct(p) => disk.plan \subseteq Public
    BY <2>1, PlanPublic DEF Direct, True, Replying
  <2>. QED
    BY <1>0, <2>1, <2>2
       DEF True, Fresh, OneDraft, Informed, Knows, Holds, Reconciled, Replying, Succeeds,
           Planning
<1>2. CASE SendSubmit(p)
  <2>1. pc[p] = "submit" /\ pc'[p] = "await_submit" /\ answer'[p] = "none"
    BY <1>2 DEF SendSubmit, Send, Go
  <2>2. \A m \in wire' : m \in wire \/ (m.by = p /\ m.kind = "submit")
    BY <1>2 DEF SendSubmit, Send
  <2>. QED
    BY <1>0, <2>1, <2>2
       DEF True, Fresh, OneDraft, Informed, Knows, Holds, Reconciled, Replying, Succeeds,
           Planning
<1>3. CASE Submitted(p)
  <2>1. pc[p] = "await_submit" /\ pc'[p] = "persist" /\ answer[p] = "ok"
        /\ UNCHANGED <<wire, answer>>
    BY <1>3 DEF Submitted, Answered, Go, net
  <2>. QED
    BY <1>0, <2>1
       DEF True, Fresh, OneDraft, Informed, Knows, Holds, Reconciled, Replying, Succeeds,
           Planning
<1>4. CASE Persist(p)
  <2>1. pc[p] = "persist" /\ pc'[p] = "done" /\ UNCHANGED <<wire, answer>>
    BY <1>4 DEF Persist, Go, net
  <2>2. Published(p) /\ review[p].comments = Remaining(p, Inline)
    BY <2>1 DEF True, Informed, Holds, Reconciled
  <2>3. disk.plan \subseteq Public
    BY <2>1, <2>2, PlanPublic DEF True, Replying, PublicInline
  <2>. QED
    BY <1>0, <2>1, <2>3
       DEF True, Fresh, OneDraft, Informed, Knows, Holds, Reconciled, Replying, Succeeds,
           Planning
<1>. QED BY <1>1, <1>2, <1>3, <1>4

LEMMA FailureTrue ==
    ASSUME TypeOK, NEW p \in Posters, Frame(p), True(p),
           Fault(p) \/ Abort(p) \/ AwaitDelete(p) \/ Settle(p) \/ Crash(p)
    PROVE  True(p)'
<1>. pc \in [Posters -> Planning \cup Body \cup Closing \cup Ended]
     /\ answer \in [Posters -> {"none", "ok", "refused"}]
  BY DEF TypeOK
<1>. /\ Public' = Public /\ (Published(p)' <=> Published(p))
     /\ UNCHANGED <<review, replied, seen, confirmed, sent>>
  BY FrameKeeps DEF Fault, Abort, AwaitDelete, Settle, Crash, hub
<1>1. pc'[p] \notin Planning \cup Reconciled \cup {"create", "await_create", "list", "done"}
  BY DEF Fault, Abort, AwaitDelete, Settle, Crash, Go, Planning, Body, Reconciled
<1>2. \A m \in wire' : m \in wire \/ (m.by = p /\ m.kind = "delete")
  <2>1. CASE Abort(p)
    BY <2>1 DEF Abort, Send, net
  <2>2. CASE Fault(p) \/ AwaitDelete(p) \/ Settle(p) \/ Crash(p)
    BY <2>2 DEF Fault, AwaitDelete, Settle, Crash, net
  <2>. QED BY <2>1, <2>2
<1>3. pc'[p] = "await_delete" => answer'[p] = "none"
  BY DEF Fault, Abort, AwaitDelete, Settle, Crash, Go, Send, Planning, Body, Ended
<1>4. pc'[p] = "cleaned" => pc[p] = "await_delete" /\ answer[p] = "ok"
  BY DEF Fault, Abort, AwaitDelete, Settle, Crash, Go, Planning, Body, Ended
<1>. QED
  BY <1>1, <1>2, <1>3, <1>4
     DEF True, Fresh, OneDraft, Informed, Knows, Holds, Reconciled, Replying, Succeeds

(* GitHub's steps: one creation at most, then the draft is submitted or    *)
(* deleted for good.                                                       *)
Grows ==
    /\ replied \subseteq replied'
    /\ \A p \in Posters : review[p].phase # "none" =>
          review'[p].phase # "none" /\ review'[p].comments = review[p].comments
    /\ \A p \in Posters : review[p].phase \in {"published", "deleted"} =>
          review'[p].phase = review[p].phase

LEMMA GrowsPublic ==
    ASSUME Grows
    PROVE  Public \subseteq Public' /\ PublicReplies \subseteq PublicReplies'
BY ZenonT(60) DEF Grows, Public, PublicInline, PublicReplies, Published

Handles(m) == HubCreates(m) \/ HubReplies(m) \/ HubSubmits(m) \/ HubDeletes(m) \/ HubRefuses(m)

LEMMA HubGrows ==
    ASSUME TypeOK, \A p \in Posters : True(p), NEW m \in wire, Handles(m)
    PROVE  Grows
<1>. m.by \in Posters
     /\ review \in [Posters -> [phase : {"none", "draft", "published", "deleted"},
                                comments : SUBSET Inline]]
  BY DEF TypeOK
<1>1. CASE HubCreates(m)
  <2>1. review[m.by].phase = "none"
    BY <1>1 DEF HubCreates, True, OneDraft
  <2>. QED BY <1>1, <2>1 DEF HubCreates, Grows
<1>2. CASE HubReplies(m) \/ HubRefuses(m)
  BY <1>2 DEF HubReplies, HubRefuses, hub, Grows
<1>3. CASE HubSubmits(m)
  BY <1>3 DEF HubSubmits, Grows
<1>4. CASE HubDeletes(m)
  BY <1>4 DEF HubDeletes, Grows
<1>. QED BY <1>1, <1>2, <1>3, <1>4 DEF Handles

LEMMA HubTrue ==
    ASSUME TypeOK, \A p \in Posters : True(p), NEW m \in wire, Handles(m),
           UNCHANGED <<post, disk>>, NEW q \in Posters
    PROVE  True(q)'
<1>. /\ review \in [Posters -> [phase : {"none", "draft", "published", "deleted"},
                                comments : SUBSET Inline]]
     /\ answer \in [Posters -> {"none", "ok", "refused"}]
     /\ m.by \in Posters
  BY DEF TypeOK
<1>. Grows /\ Public \subseteq Public' /\ True(q)
  BY HubGrows, GrowsPublic
<1>. /\ UNCHANGED <<pc, seen, confirmed, sent, state, disk>> /\ (Direct(q)' <=> Direct(q))
     /\ Remaining(q, Inline)' = Remaining(q, Inline)
     /\ Remaining(q, Replies)' = Remaining(q, Replies)
  BY DEF post, Direct, Remaining
<1>1. wire' = wire \ {m}
  BY DEF Handles, HubCreates, HubReplies, HubSubmits, HubDeletes, HubRefuses, Reply
<1>2. q # m.by => review'[q] = review[q] /\ answer'[q] = answer[q]
  BY DEF Handles, HubCreates, HubReplies, HubSubmits, HubDeletes, HubRefuses, Reply, hub
<1>3. Fresh(q)'
  BY <1>1, <1>2 DEF True, Fresh
<1>4. OneDraft(q)'
  <2>1. CASE HubCreates(m) /\ q = m.by
    <3>. SUFFICES ASSUME NEW n \in wire, n # m, n.by = q, n.kind = "create"
                  PROVE  FALSE
      BY <1>1 DEF OneDraft
    <3>1. m.item = n.item /\ m.kind = n.kind /\ m.by = n.by
      BY <2>1 DEF HubCreates, True, OneDraft
    <3>. QED BY <3>1 DEF TypeOK
  <2>2. CASE HubReplies(m) \/ HubRefuses(m)
    BY <1>1, <2>2 DEF HubReplies, HubRefuses, hub, True, OneDraft
  <2>3. CASE HubSubmits(m) \/ HubDeletes(m)
    BY <1>1, <1>2, <2>3 DEF HubSubmits, HubDeletes, True, OneDraft
  <2>. QED BY <1>1, <1>2, <2>1, <2>2, <2>3 DEF Handles, True, OneDraft
<1>5. Informed(q)'
  <2>1. CASE answer'[q] = answer[q]
    BY <2>1 DEF True, Informed, Published, Grows
  <2>2. CASE answer'[q] # answer[q]
    <3>1. q = m.by /\ pc[q] \in Awaits /\ Kind[pc[q]] = m.kind
      BY <1>2, <2>2 DEF Handles, HubCreates, HubReplies, HubSubmits, HubDeletes, HubRefuses,
                        Reply
    <3>2. CASE HubCreates(m) \/ HubReplies(m)
      BY <3>1, <3>2 DEF HubCreates, HubReplies, Informed, Kind, Awaits
    <3>3. CASE HubSubmits(m)
      BY <3>1, <3>3 DEF HubSubmits, Informed, Published, Kind, Awaits
    <3>4. CASE HubDeletes(m)
      BY <3>1, <3>4 DEF HubDeletes, Informed, Kind, Awaits
    <3>5. CASE HubRefuses(m)
      BY <3>1, <3>5 DEF HubRefuses, Reply, Informed, Kind, Awaits
    <3>. QED BY <3>2, <3>3, <3>4, <3>5 DEF Handles
  <2>. QED BY <2>1, <2>2
<1>6. Knows(q)' /\ Succeeds(q)'
  BY DEF True, Knows, Succeeds, Grows
<1>7. Holds(q)' /\ Replying(q)'
  BY DEF True, Holds, Replying, Grows
<1>. QED BY <1>3, <1>4, <1>5, <1>6, <1>7 DEF True

(* The files.  Receipts come from a reconciliation, and go when a failed   *)
(* poster removes them; only the writer gets that far.                     *)
LEMMA ReceiptsStayTrue ==
    ASSUME TypeOK, ReceiptsTrue, NEW p \in Posters, Frame(p), True(p), True(p)',
           Step(p) \/ Crash(p)
    PROVE  ReceiptsTrue'
<1>. UNCHANGED hub /\ PublicReplies' = PublicReplies
  BY DEF Frame, hub, PublicReplies
<1>1. CASE Reconcile(p)
  <2>1. disk'.recon /\ disk'.receipts = Remaining(p, Inline) /\ disk'.replies = disk.replies
    BY <1>1 DEF Reconcile, TypeOK
  <2>2. review[p].phase = "draft" /\ review[p].comments = Remaining(p, Inline)
    BY <1>1 DEF Reconcile
  <2>. QED BY <2>1, <2>2 DEF ReceiptsTrue, hub
<1>2. CASE Settle(p)
  <2>1. /\ disk'.recon => disk.recon /\ disk'.receipts = disk.receipts
        /\ disk'.replies = disk.replies
    BY <1>2 DEF Settle, TypeOK
  <2>. QED BY <2>1 DEF ReceiptsTrue, hub
<1>3. CASE Replied(p)
  <2>1. /\ disk'.recon = disk.recon /\ disk'.receipts = disk.receipts
        /\ disk'.replies = sent'[p]
    BY <1>3 DEF Replied, TypeOK
  <2>2. sent'[p] \subseteq PublicReplies
    BY <1>3 DEF Replied, Asked, TypeOK, True, Knows, PublicReplies
  <2>. QED BY <2>1, <2>2 DEF ReceiptsTrue, hub
<1>4. CASE ~(Reconcile(p) \/ Settle(p) \/ Replied(p))
  <2>1. /\ disk'.recon = disk.recon /\ disk'.receipts = disk.receipts
        /\ disk'.replies = disk.replies
    BY <1>4 DEF Step, TypeOK, Start, FetchExisting, ReadPrior, Reserve, SendCreate, Created,
       PersistReconciled, SendReply, RepliesDone, Recheck, Revalidated, SendSubmit,
       Submitted, Persist, Fault, Abort, AwaitDelete, Crash
  <2>. QED BY <2>1 DEF ReceiptsTrue, hub
<1>. QED BY <1>1, <1>2, <1>3, <1>4

LEMMA TransactionStaysTrue ==
    ASSUME TypeOK, OneWriter, NotAsked, TransactionTrue,
           NEW p \in Posters, Frame(p), True(p), Step(p) \/ Crash(p)
    PROVE  TransactionTrue'
<1>. UNCHANGED hub /\ \A q \in Posters : Published(q)' <=> Published(q)
  BY FrameKeeps DEF Frame
<1>. state \in [Posters -> States]
  BY DEF TypeOK
<1>1. CASE Reconcile(p)
  <2>1. disk'.txn = disk.txn /\ pc[p] = "list"
    BY <1>1 DEF Reconcile, Go, TypeOK
  <2>2. ~Published(p)
    BY <2>1 DEF NotAsked, BeforeRecheck
  <2>3. \A q \in Posters : ~Published(q)
    <3>1. Writer(p)
      BY <2>1 DEF Writer, WriterPcs, Body
    <3>. QED BY <3>1, <2>2 DEF OneWriter, Writer, Published
  <2>. QED BY <2>1, <2>3 DEF TransactionTrue, hub
<1>2. CASE Created(p) \/ PersistReconciled(p)
  <2>1. disk'.txn \in {"PendingReviewCreated", "CommentsReconciled"}
    BY <1>2 DEF Created, PersistReconciled, Go, TypeOK, True, Holds
  <2>. QED BY <2>1 DEF TransactionTrue
<1>3. CASE Persist(p)
  <2>1. /\ disk'.txn = "ReceiptsPersisted" /\ disk'.receipts = disk.receipts
        /\ pc[p] = "persist"
    BY <1>3 DEF Persist, Go, TypeOK
  <2>2. Published(p) /\ disk.receipts = review[p].comments
    BY <2>1 DEF True, Informed, Holds, Reconciled
  <2>. QED BY <2>1, <2>2 DEF TransactionTrue, hub
<1>4. CASE Settle(p)
  <2>1. /\ disk'.txn = disk.txn \/ disk'.txn = state'[p]
        /\ disk'.receipts = disk.receipts \/ disk'.receipts = {}
        /\ state'[p] = (IF pc[p] = "cleaned" THEN "CleanedUp" ELSE "Failed")
    BY <1>4 DEF Settle, TypeOK
  <2>2. pc[p] = "cleaned" => review[p].phase = "deleted"
    BY DEF True, Informed
  <2>. QED BY <2>1, <2>2 DEF TransactionTrue, hub
<1>5. CASE Recheck(p)
  <2>1. disk'.txn \in {disk.txn, "HeadRevalidated"} /\ disk'.receipts = disk.receipts
    BY <1>5 DEF Recheck, Revalidated, TypeOK
  <2>. QED BY <2>1 DEF TransactionTrue, hub
<1>6. CASE ~(\/ Reconcile(p) \/ Created(p) \/ PersistReconciled(p) \/ Persist(p)
             \/ Settle(p) \/ Recheck(p))
  <2>1. disk'.txn = disk.txn /\ disk'.receipts = disk.receipts
    BY <1>6 DEF Step, TypeOK, Start, FetchExisting, ReadPrior, Reserve, SendCreate,
       SendReply, Replied, RepliesDone, SendSubmit, Submitted, Fault, Abort, AwaitDelete,
       Crash
  <2>. QED BY <2>1 DEF TransactionTrue, hub
<1>. QED BY <1>1, <1>2, <1>3, <1>4, <1>5, <1>6

LEMMA FilesOutlast ==
    ASSUME ReceiptsTrue, TransactionTrue, Grows, UNCHANGED disk
    PROVE  ReceiptsTrue' /\ TransactionTrue'
BY GrowsPublic DEF ReceiptsTrue, TransactionTrue, Grows, Published

LEMMA TrailInductive ==
    ASSUME TypeOK, OneWriter, NotAsked, Trail, [Next]_vars
    PROVE  Trail'
<1>1. CASE \E p \in Posters : Step(p) \/ Crash(p)
  <2>. PICK p \in Posters : Step(p) \/ Crash(p)
    BY <1>1
  <2>1. Frame(p) /\ True(p)
    BY QuietFrame, SendingFrame DEF Step, Trail
  <2>2. True(p)'
    BY <2>1, PlanningTrue, DraftTrue, RepliesTrue, SubmissionTrue, FailureTrue DEF Step
  <2>3. \A q \in Posters : True(q)'
    BY <2>1, <2>2, OthersStayTrue DEF Trail
  <2>4. ReceiptsTrue' /\ TransactionTrue'
    BY <2>1, <2>2, ReceiptsStayTrue, TransactionStaysTrue DEF Trail
  <2>. QED BY <2>3, <2>4 DEF Trail
<1>2. CASE Hub
  <2>. PICK m \in wire : Handles(m)
    BY <1>2 DEF Hub, Handles
  <2>1. UNCHANGED <<post, disk>>
    BY <1>2 DEF Hub
  <2>2. Grows /\ \A q \in Posters : True(q)'
    BY <2>1, HubGrows, HubTrue DEF Trail
  <2>. QED BY <2>1, <2>2, FilesOutlast DEF Trail
<1>3. CASE MoveHead \/ UNCHANGED vars
  <2>1. UNCHANGED <<post, disk, net, hub>>
    BY <1>3 DEF MoveHead, vars
  <2>2. \A q \in Posters : True(q) => True(q)'
    BY <2>1 DEF True, Fresh, OneDraft, Informed, Knows, Holds, Replying, Succeeds, Direct,
       Remaining, Published, Public, PublicInline, PublicReplies, post, net, hub
  <2>3. (ReceiptsTrue => ReceiptsTrue') /\ (TransactionTrue => TransactionTrue')
    BY <2>1 DEF ReceiptsTrue, TransactionTrue, PublicReplies, Published, hub
  <2>. QED BY <2>2, <2>3 DEF Trail
<1>. QED BY <1>1, <1>2, <1>3 DEF Next

LEMMA TrailTells ==
    ASSUME TypeOK, OneWriter, Trail
    PROVE  SuccessIsPublished /\ TransactionTells /\ ReceiptsTrue
<1>1. SuccessIsPublished
  BY DEF Trail, True, Succeeds, SuccessIsPublished
<1>2. disk.txn = "CleanedUp" => \A q \in Posters : review[q].phase \in {"none", "deleted"}
  <2>. SUFFICES ASSUME disk.txn = "CleanedUp", NEW q \in Posters
                PROVE  review[q].phase \in {"none", "deleted"}
    OBVIOUS
  <2>1. PICK p \in Posters : review[p].phase = "deleted"
    BY DEF Trail, TransactionTrue
  <2>. QED BY <2>1 DEF OneWriter, Writer
<1>. QED BY <1>1, <1>2 DEF Trail, TransactionTrue, TransactionTells

LEMMA TrailHolds == Spec => [](TypeOK /\ OneWriter /\ Trail)
<1>1. Init => OneWriter /\ NotAsked /\ Trail
  <2>1. Init => OneWriter /\ NotAsked
    BY DEF Init, OneWriter, Writer, WriterPcs, Body, Closing, NotAsked, Submits, Published
  <2>2. Init => ReceiptsTrue /\ TransactionTrue
    BY DEF Init, ReceiptsTrue, TransactionTrue
  <2>3. Init => \A p \in Posters : True(p)
    BY DEF Init, True, Fresh, OneDraft, Informed, Knows, Holds, Reconciled, Replying,
       Succeeds
  <2>. QED BY <2>1, <2>2, <2>3 DEF Trail
<1>2. TypeOK /\ OneWriter /\ NotAsked /\ Trail /\ [Next]_vars
        => OneWriter' /\ NotAsked' /\ Trail'
  BY OneWriterInductive, CaughtStays, TrailInductive
<1>. QED BY <1>1, <1>2, TypeCorrect, PTL DEF Spec

(* A poster that ends well, by submitting its draft, by its replies alone  *)
(* or because earlier receipts cover the plan, leaves the plan public.     *)
THEOREM SuccessIsReal == Spec => []SuccessIsPublished
BY TrailHolds, TrailTells, PTL

(* delivery-transaction.json, and so what a later poster concludes from    *)
(* it, is right about the pull request whatever was lost, late or killed.  *)
THEOREM TransactionIsReal == Spec => []TransactionTells
BY TrailHolds, TrailTells, PTL

(* The receipts on disk name only what GitHub holds.                       *)
THEOREM ReceiptsAreReal == Spec => []ReceiptsTrue
BY TrailHolds, TrailTells, PTL
=============================================================================

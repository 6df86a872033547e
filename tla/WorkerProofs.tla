------------------------------ MODULE WorkerProofs ------------------------------
(***************************************************************************)
(* Proofs about the standalone worker, for any requests, any number of     *)
(* attempts in one directory, and any failure or kill between two steps.   *)
(***************************************************************************)
EXTENDS Worker, RecorderProofs

--------------------------------------------------------------------------------
Books == [log : [CommandTasks -> Seq(TaskEvent)], expected : [Requests -> Seq(Sided)],
          pending : SUBSET CommandTasks]

HeardOf(b, c) == ToSet(b.log[c])

(***************************************************************************)
(* What the calls of the proof task ledger do to a book.                   *)
(***************************************************************************)
\* No command is credited yet, and what process a command had ended in.
Uncredited(b) == \A c \in CommandTasks : \A e \in HeardOf(b, c) : e.kind # "ReceiptCreated"
Endless(b, c) == \A e \in HeardOf(b, c) : e.kind # "ProcessFinished"

LEMMA CreditsHeard ==
  ASSUME NEW b \in Books, NEW c \in CommandTasks
  PROVE  Credits(b, c) <=> \E e \in HeardOf(b, c) : e.kind = "ReceiptCreated"
BY DEF Credits, Logged, HeardOf, ToSet

\* A command's events are appended to its own log.
LEMMA Logs ==
  ASSUME NEW b \in Books, NEW c \in CommandTasks, NEW es \in Seq(TaskEvent)
  PROVE  /\ Log(b, c, es) \in Books
         /\ Log(b, c, es).pending = b.pending
         /\ \A x \in CommandTasks :
              HeardOf(Log(b, c, es), x) = IF x = c THEN HeardOf(b, c) \cup ToSet(es) ELSE HeardOf(b, x)
<1>1. b.log[c] \o es \in Seq(TaskEvent) /\ ToSet(b.log[c] \o es) = HeardOf(b, c) \cup ToSet(es)
  BY Appending DEF Books, HeardOf
<1>2. Log(b, c, es) = [b EXCEPT !.log = [b.log EXCEPT ![c] = @ \o es]]
  BY DEF Log, Books
<1> QED BY <1>1, <1>2 DEF Books, HeardOf

LEMMA LogsOne ==
  ASSUME NEW b \in Books, NEW c \in CommandTasks, NEW e \in TaskEvent
  PROVE  /\ Log(b, c, <<e>>) \in Books
         /\ Log(b, c, <<e>>).pending = b.pending
         /\ \A x \in CommandTasks :
              HeardOf(Log(b, c, <<e>>), x) = IF x = c THEN HeardOf(b, c) \cup {e} ELSE HeardOf(b, x)
<1>1. <<e>> \in Seq(TaskEvent) /\ ToSet(<<e>>) = {e}
  BY EventLists
<1> DEFINE es == <<e>>
<1> HIDE DEF es
<1>2. es \in Seq(TaskEvent) /\ ToSet(es) = {e}
  BY <1>1 DEF es
<1>3. /\ Log(b, c, es) \in Books /\ Log(b, c, es).pending = b.pending
      /\ \A x \in CommandTasks :
           HeardOf(Log(b, c, es), x) = IF x = c THEN HeardOf(b, c) \cup {e} ELSE HeardOf(b, x)
  BY <1>2, Logs
<1> QED BY <1>3 DEF es

LEMMA Registers ==
  ASSUME NEW b \in Books, NEW c \in CommandTasks
  PROVE  /\ Registered(b, c) \in Books /\ Registered(b, c).pending = b.pending
         /\ \A x \in CommandTasks : HeardOf(Registered(b, c), x) = HeardOf(b, x)
<1>1. c[1] \in Requests /\ c[2] \in Sided
  BY DEF CommandTasks, Sided
<1>2. Append(b.expected[c[1]], c[2]) \in Seq(Sided)
  BY <1>1 DEF Books
<1> QED BY <1>1, <1>2 DEF Registered, Books, HeardOf

\* What b becomes credits no command, and is about no other command than c.
Quiet(b, c, n) ==
  /\ n \in Books
  /\ Uncredited(b) => Uncredited(n)
  /\ \A x \in CommandTasks \ {c} : HeardOf(n, x) = HeardOf(b, x)

\* None of these calls credits a command, and only Finished says how it ended.
LEMMA Calls ==
  ASSUME NEW b \in Books, NEW c \in CommandTasks, NEW d \in Dispositions
  PROVE  /\ Quiet(b, c, Began(b, c)) /\ Began(b, c).pending = b.pending
         /\ Quiet(b, c, Declined(b, c, d)) /\ Declined(b, c, d).pending = b.pending
         /\ Quiet(b, c, Ran(b, c)) /\ Ran(b, c).pending = b.pending
         /\ Quiet(b, c, Finished(b, c, d)) /\ Finished(b, c, d).pending = b.pending
         /\ Quiet(b, c, SetupLost(b, c)) /\ SetupLost(b, c).pending = b.pending \cup {c}
         /\ Quiet(b, c, CleanedUp(b, c)) /\ CleanedUp(b, c).pending = b.pending \cup {c}
         /\ Endless(b, c) => /\ Endless(Began(b, c), c) /\ Endless(Declined(b, c, d), c)
                             /\ Endless(Ran(b, c), c) /\ Endless(SetupLost(b, c), c)
         /\ Endless(b, c) =>
              \A e \in HeardOf(CleanedUp(Finished(b, c, d), c), c) :
                e.kind = "ProcessFinished" => e.disposition = d
<1> DEFINE begun == <<ProposedNow, [kind |-> "Selected"], Event("Queued"),
                      Event("EnteredResourceWait")>> \o AdmitAndSetup
<1>1. /\ begun \in Seq(TaskEvent)
      /\ \A e \in ToSet(begun) : e.kind \notin {"ReceiptCreated", "ProcessFinished"}
  BY BeganList DEF Queueing
<1> HIDE DEF begun
<1>2. Began(b, c) = Log(Registered(b, c), c, begun)
  BY DEF Began, begun
<1>3. /\ Began(b, c) \in Books /\ Began(b, c).pending = b.pending
      /\ \A x \in CommandTasks :
           HeardOf(Began(b, c), x) = IF x = c THEN HeardOf(b, c) \cup ToSet(begun) ELSE HeardOf(b, x)
  BY <1>1, <1>2, Registers, Logs, SMTT(60)
<1>4. /\ Declined(b, c, d) \in Books /\ Declined(b, c, d).pending = b.pending
      /\ \A x \in CommandTasks :
           HeardOf(Declined(b, c, d), x) =
             IF x = c THEN HeardOf(b, c) \cup {ProposedNow, DeclinedNow(d)} ELSE HeardOf(b, x)
  <2>1. ProposedNow \in TaskEvent /\ DeclinedNow(d) \in TaskEvent
    BY TaskEventsAre
  <2>2. /\ <<ProposedNow, DeclinedNow(d)>> \in Seq(TaskEvent)
        /\ ToSet(<<ProposedNow, DeclinedNow(d)>>) = {ProposedNow, DeclinedNow(d)}
    BY <2>1, EventLists
  <2> DEFINE es == <<ProposedNow, DeclinedNow(d)>>
  <2> HIDE DEF es
  <2>3. /\ Log(Registered(b, c), c, es) \in Books
        /\ Log(Registered(b, c), c, es).pending = b.pending
        /\ \A x \in CommandTasks :
             HeardOf(Log(Registered(b, c), c, es), x) =
               IF x = c THEN HeardOf(b, c) \cup ToSet(es) ELSE HeardOf(b, x)
    <3>1. es \in Seq(TaskEvent) /\ Registered(b, c) \in Books
      BY <2>2, Registers DEF es
    <3>2. /\ Log(Registered(b, c), c, es) \in Books
          /\ Log(Registered(b, c), c, es).pending = Registered(b, c).pending
          /\ \A x \in CommandTasks :
               HeardOf(Log(Registered(b, c), c, es), x) =
                 IF x = c THEN HeardOf(Registered(b, c), c) \cup ToSet(es)
                 ELSE HeardOf(Registered(b, c), x)
      BY <3>1, Logs
    <3> QED BY <3>2, Registers
  <2> QED BY <2>2, <2>3 DEF Declined, es
<1>5. /\ Ran(b, c) \in Books /\ Ran(b, c).pending = b.pending
      /\ \A x \in CommandTasks :
           HeardOf(Ran(b, c), x) = IF x = c THEN HeardOf(b, c) \cup {Event("RunStarted")} ELSE HeardOf(b, x)
  <2>1. Event("RunStarted") \in TaskEvent
    BY TaskEventsAre DEF EventKinds
  <2> QED BY <2>1, LogsOne DEF Ran
<1>6. /\ Finished(b, c, d) \in Books /\ Finished(b, c, d).pending = b.pending
      /\ \A x \in CommandTasks :
           HeardOf(Finished(b, c, d), x) = IF x = c THEN HeardOf(b, c) \cup {Concluded(d)} ELSE HeardOf(b, x)
  <2>1. Concluded(d) \in TaskEvent
    BY TaskEventsAre
  <2> QED BY <2>1, LogsOne DEF Finished
<1>7. ASSUME NEW a \in Books
      PROVE  /\ Awaiting(a, c) \in Books /\ Awaiting(a, c).pending = a.pending \cup {c}
             /\ \A x \in CommandTasks : HeardOf(Awaiting(a, c), x) = HeardOf(a, x)
  BY DEF Awaiting, Books, HeardOf
<1>8. /\ SetupLost(b, c) \in Books /\ SetupLost(b, c).pending = b.pending \cup {c}
      /\ \A x \in CommandTasks :
           HeardOf(SetupLost(b, c), x) = IF x = c THEN HeardOf(b, c) \cup {Event("SetupFailed")}
                                       ELSE HeardOf(b, x)
  <2>1. Event("SetupFailed") \in TaskEvent
    BY TaskEventsAre DEF EventKinds
  <2> QED BY <1>7, <2>1, LogsOne DEF SetupLost
<1>9. ASSUME NEW a \in Books
      PROVE  /\ CleanedUp(a, c) \in Books /\ CleanedUp(a, c).pending = a.pending \cup {c}
             /\ \A x \in CommandTasks :
                  HeardOf(CleanedUp(a, c), x) = IF x = c THEN HeardOf(a, c) \cup {Event("CleanupFinished")}
                                              ELSE HeardOf(a, x)
  <2>1. Event("CleanupFinished") \in TaskEvent
    BY TaskEventsAre DEF EventKinds
  <2> QED BY <1>7, <2>1, LogsOne DEF CleanedUp
<1> QED
  <2>1. Quiet(b, c, Began(b, c)) /\ (Endless(b, c) => Endless(Began(b, c), c))
    BY <1>1, <1>3 DEF Uncredited, Endless, Quiet
  <2>2. Quiet(b, c, Declined(b, c, d)) /\ (Endless(b, c) => Endless(Declined(b, c, d), c))
    BY <1>4, KindsOfEvents DEF Uncredited, Endless, Quiet
  <2>3. Quiet(b, c, Ran(b, c)) /\ (Endless(b, c) => Endless(Ran(b, c), c))
    BY <1>5, KindsOfEvents DEF Uncredited, Endless, Quiet
  <2>4. Quiet(b, c, Finished(b, c, d))
    BY <1>6, KindsOfEvents DEF Uncredited, Quiet
  <2>5. Quiet(b, c, SetupLost(b, c)) /\ (Endless(b, c) => Endless(SetupLost(b, c), c))
    BY <1>8, KindsOfEvents DEF Uncredited, Endless, Quiet
  <2>6. Quiet(b, c, CleanedUp(b, c))
    BY <1>9, KindsOfEvents DEF Uncredited, Quiet
  <2>7. ASSUME Endless(b, c), NEW e \in HeardOf(CleanedUp(Finished(b, c, d), c), c),
               e.kind = "ProcessFinished"
        PROVE  e.disposition = d
    BY <1>6, <1>9, <2>7, KindsOfEvents DEF Endless
  <2> QED BY <1>3, <1>4, <1>5, <1>6, <1>8, <1>9, <2>1, <2>2, <2>3, <2>4, <2>5, <2>6, <2>7

\* What is closed is heard once more; giving up credits nothing, reading back
\* credits what was pending.
LEMMA Closing ==
  ASSUME NEW b \in Books, NEW created \in BOOLEAN
  PROVE  /\ Closed(b, created) \in Books
         /\ \A c \in CommandTasks :
              HeardOf(Closed(b, created), c) =
                IF c \in b.pending THEN HeardOf(b, c) \cup ToSet(ReceiptEvents(created))
                ELSE HeardOf(b, c)
<1>1. ReceiptEvents(created) \in Seq(TaskEvent)
  <2>1. \A k \in EventKinds : <<Event(k), Event("ResourcesReleased")>> \in Seq(TaskEvent)
    BY TaskEventsAre, EventLists DEF EventKinds
  <2>2. (IF created THEN "ReceiptCreated" ELSE "ReceiptCreationFailed") \in EventKinds
    BY DEF EventKinds
  <2> QED BY <2>1, <2>2 DEF ReceiptEvents
<1>2. \A c \in CommandTasks :
        /\ b.log[c] \o ReceiptEvents(created) \in Seq(TaskEvent)
        /\ ToSet(b.log[c] \o ReceiptEvents(created)) = HeardOf(b, c) \cup ToSet(ReceiptEvents(created))
  BY <1>1, Appending DEF Books, HeardOf
<1>3. PICK closed \in [CommandTasks -> Seq(TaskEvent)] :
        closed = [t \in CommandTasks |-> IF t \in b.pending THEN b.log[t] \o ReceiptEvents(created)
                                         ELSE b.log[t]]
  BY <1>2 DEF Books
<1>4. Closed(b, created) = [b EXCEPT !.log = closed, !.pending = {}]
  BY <1>3 DEF Closed, Books
<1>5. \A c \in CommandTasks : closed[c] = IF c \in b.pending THEN b.log[c] \o ReceiptEvents(created)
                                          ELSE b.log[c]
  BY <1>3
<1>6. Closed(b, created) \in Books /\ Closed(b, created).log = closed
  BY <1>4 DEF Books
<1> QED BY <1>2, <1>5, <1>6 DEF HeardOf

LEMMA ReceiptKinds ==
  /\ \A e \in ToSet(ReceiptEvents(FALSE)) : e.kind \notin {"ReceiptCreated", "ProcessFinished"}
  /\ \E e \in ToSet(ReceiptEvents(TRUE)) : e.kind = "ReceiptCreated"
  /\ \A e \in ToSet(ReceiptEvents(TRUE)) : e.kind # "ProcessFinished"
<1>1. \A k \in EventKinds :
        ToSet(<<Event(k), Event("ResourcesReleased")>>) = {Event(k), Event("ResourcesReleased")}
  BY TaskEventsAre, EventLists DEF EventKinds
<1>2. /\ ToSet(ReceiptEvents(FALSE)) = {Event("ReceiptCreationFailed"), Event("ResourcesReleased")}
      /\ ToSet(ReceiptEvents(TRUE)) = {Event("ReceiptCreated"), Event("ResourcesReleased")}
  BY <1>1 DEF ReceiptEvents, EventKinds
<1>3. /\ \A k : Event(k).kind = k
  BY KindsOfEvents
<1>4. Event("ReceiptCreationFailed").kind = "ReceiptCreationFailed"
      /\ Event("ReceiptCreated").kind = "ReceiptCreated"
      /\ Event("ResourcesReleased").kind = "ResourcesReleased"
  BY <1>3
<1> QED BY <1>2, <1>4

--------------------------------------------------------------------------------
(***************************************************************************)
(* The invariant.                                                          *)
(***************************************************************************)
Clearing  == {"clear ledger", "clear receipt", "clear lease"}
Running   == {"launch", "wait"}
Checking  == {"stage", "put lease", "put receipt", "check lease", "reconcile"}
Finishing == Checking \cup {"write ledger"}

\* The rows so far: of the preflight, then of the command.
RowOf(side) == [side : {side}, status : {"passed", "failed", "timed_out", "skipped"},
                limit : BOOLEAN]
RowsRead ==
  /\ pc \in Clearing => rows = << >>
  /\ pc \in Running => \/ rows = << >>
                       \/ \E p \in RowOf("nightly-preflight") : rows = <<p>>
  /\ pc \in Finishing => \E p \in RowOf("nightly-preflight"), h \in RowOf("head") : rows = <<p, h>>

Limited == {<<request, rows[i].side>> : i \in {j \in DOMAIN rows : rows[j].limit}}

\* How the row of a command agrees with its log.
RowAgrees(i) ==
  \A e \in HeardOf(book, <<request, rows[i].side>>) :
    e.kind = "ProcessFinished" =>
      \E x \in Endings : x.d = e.disposition /\ x.status = rows[i].status

\* While an attempt is under way its book credits nobody before the receipt is
\* read back, and then exactly the commands with a limit.
BookInv ==
  pc # "idle" =>
    /\ book \in Books
    /\ pc # "write ledger" => Uncredited(book) /\ book.pending = Limited
    /\ pc = "write ledger" => \A c \in CommandTasks : Credits(book, c) <=> c \in Limited
    /\ pc \in Clearing => \A c \in CommandTasks : Endless(book, c)
    /\ pc \in Running => Endless(book, <<request, "head">>)
                         /\ (rows = << >> => Endless(book, <<request, "nightly-preflight">>))
    /\ pc \in Running \cup Finishing => \A i \in DOMAIN rows : RowAgrees(i)

\* The output directory, by the step that is next.
DiskInv ==
  /\ disk = [f \in Files |-> disk[f]]
  /\ pc \notin {"idle", "clear ledger"} => disk["ledger"] = None
  /\ pc \in {"put receipt", "check lease", "reconcile", "write ledger"} => disk["lease"] = Lease
  /\ pc \in {"check lease", "reconcile", "write ledger"} => disk["receipt"] = Receipt

WorkerInv ==
  /\ pc \in {"idle"} \cup Clearing \cup Running \cup Finishing
  /\ attempt \in Nat /\ request \in Requests
  /\ pc # "idle" => attempt # 0 /\ outcome = "none" /\ child # "unconfirmed"
  /\ RowsRead /\ BookInv /\ DiskInv
  /\ SuccessIsOwn /\ CreditIsBacked

--------------------------------------------------------------------------------
(***************************************************************************)
(* The steps.                                                              *)
(***************************************************************************)
Stands == pc \in {"idle"} \cup Clearing \cup Running \cup Finishing

\* An attempt that fails leaves no ledger that credits anybody, or what was
\* there before it touched anything.
LEMMA Aborting ==
  ASSUME WorkerInv, pc # "idle", NEW b \in Books, Uncredited(b), NEW kept, Abort(b, kept),
         kept = Outputs \/ disk["ledger"] = None, UNCHANGED <<attempt, request>>
  PROVE  WorkerInv'
<1>1. book' \in Books /\ Uncredited(book')
  <2>1. book' = Closed(b, FALSE)
    BY DEF Abort, GivenUp
  <2> QED BY <2>1, Closing, ReceiptKinds DEF Uncredited
<1>2. pc' = "idle" /\ outcome' = "failed"
  BY DEF Abort
<1>3. \A c \in CommandTasks : ~Credits(book', c)
  BY <1>1, CreditsHeard DEF Uncredited
<1>4. /\ disk' = [f \in Files |-> disk'[f]]
      /\ \/ disk'["ledger"] = [attempt |-> attempt, book |-> book']
         \/ disk'["ledger"] = None
         \/ disk' = disk
  BY DEF Abort, Ledger, WorkerInv, DiskInv, Files, Outputs
<1>5. CreditIsBacked'
  BY <1>3, <1>4 DEF CreditIsBacked, WorkerInv, None
<1> QED BY <1>2, <1>4, <1>5
    DEF WorkerInv, RowsRead, BookInv, DiskInv, SuccessIsOwn, Clearing, Running, Finishing, Checking

LEMMA WorkerInit == Init => WorkerInv
<1> SUFFICES ASSUME Init PROVE WorkerInv
  OBVIOUS
<1>1. disk["ledger"] = None /\ disk = [f \in Files |-> disk[f]]
  BY DEF Init, Files
<1> QED BY <1>1 DEF Init, WorkerInv, RowsRead, BookInv, DiskInv, SuccessIsOwn, CreditIsBacked,
                    Clearing, Running, Finishing, Checking

LEMMA Starting == WorkerInv /\ Start => WorkerInv'
<1> SUFFICES ASSUME WorkerInv, Start PROVE WorkerInv'
  OBVIOUS
<1>1. book' \in Books /\ book'.pending = {} /\ \A c \in CommandTasks : HeardOf(book', c) = {}
  <2>1. << >> \in Seq(TaskEvent) /\ << >> \in Seq(Sided) /\ ToSet(<< >>) = {}
    BY EventLists
  <2>2. book' = EmptyBook(CommandTasks, Requests)
    BY DEF Start
  <2> QED BY <2>1, <2>2 DEF EmptyBook, Books, HeardOf
<1>2. Uncredited(book') /\ \A c \in CommandTasks : Endless(book', c)
  BY <1>1 DEF Uncredited, Endless
<1>3. Limited' = {}
  <2>1. rows' = << >>
    BY DEF Start
  <2>2. \A j : j \notin DOMAIN << >>
    OBVIOUS
  <2> QED BY <2>1, <2>2 DEF Limited
<1>4. /\ attempt' \in Nat /\ attempt' # 0 /\ request' \in Requests /\ rows' = << >>
      /\ child' = "none" /\ disk' = disk
      /\ \/ pc' = "clear ledger" /\ outcome' = "none"
         \/ pc' = "idle" /\ outcome' = "failed"
  <2>1. attempt \in Nat /\ attempt' = attempt + 1
    BY DEF Start, WorkerInv
  <2>2. attempt' \in Nat /\ attempt' # 0
    BY <2>1
  <2> QED BY <2>2 DEF Start
<1>5. CreditIsBacked'
  <2>1. CreditIsBacked
    BY DEF WorkerInv
  <2> QED BY <1>4, <2>1 DEF CreditIsBacked
<1>6. DiskInv'
  BY <1>4 DEF WorkerInv, DiskInv
<1>7. BookInv' /\ RowsRead'
  BY <1>1, <1>2, <1>3, <1>4 DEF BookInv, RowsRead, Clearing, Running, Finishing, Checking
<1> QED BY <1>4, <1>5, <1>6, <1>7 DEF WorkerInv, SuccessIsOwn, Clearing

LEMMA Clears == ASSUME NEW i \in 1 .. 3, WorkerInv, Clear(i) PROVE WorkerInv'
<1>0. i = 1 \/ i = 2 \/ i = 3
  OBVIOUS
<1>1. /\ pc \in Clearing /\ rows = << >> /\ This \in CommandTasks
      /\ UNCHANGED <<attempt, request, rows, granted, child>>
  <2>1. pc \in Clearing /\ UNCHANGED <<attempt, request, rows, granted, child>>
    <3>1. pc = <<"clear ledger", "clear receipt", "clear lease">>[i]
      BY DEF Clear
    <3>2. \A a, b, c : <<a, b, c>>[i] \in {a, b, c}
      BY <1>0
    <3>3. pc \in Clearing
      BY <3>1, <3>2 DEF Clearing
    <3> QED BY <3>3 DEF Clear
  <2>2. rows = << >> /\ request \in Requests
    BY <2>1 DEF WorkerInv, RowsRead
  <2> QED BY <2>1, <2>2 DEF This, Side, CommandTasks, Sided
<1>2. CASE Abort(SetupLost(Began(book, This), This), Outputs)
  <2>1. book \in Books /\ Uncredited(book)
    BY <1>1 DEF WorkerInv, BookInv, Clearing
  <2>2. Began(book, This) \in Books /\ Uncredited(Began(book, This))
    BY <1>1, <2>1, Calls DEF Quiet, Dispositions
  <2>3. SetupLost(Began(book, This), This) \in Books
        /\ Uncredited(SetupLost(Began(book, This), This))
    BY <1>1, <2>2, Calls DEF Quiet, Dispositions
  <2> QED BY <1>1, <1>2, <2>3, Aborting DEF Clearing
<1>3. CASE /\ disk' = [disk EXCEPT ![Order[i]] = None]
           /\ pc' = <<"clear receipt", "clear lease", "launch">>[i]
           /\ UNCHANGED <<book, outcome>>
  <2>1. /\ disk' = [f \in Files |-> disk'[f]] /\ disk'["ledger"] = None
        /\ pc' \in {"clear receipt", "clear lease", "launch"}
    <3>1. disk = [f \in Files |-> disk[f]] /\ (pc # "clear ledger" => disk["ledger"] = None)
      BY <1>1 DEF WorkerInv, DiskInv, Clearing
    <3>2. CASE i = 1
      BY <1>3, <3>1, <3>2 DEF Clear, Order, Files
    <3>3. CASE i = 2
      BY <1>3, <3>1, <3>3 DEF Clear, Order, Files
    <3>4. CASE i = 3
      BY <1>3, <3>1, <3>4 DEF Clear, Order, Files
    <3> QED BY <1>0, <3>2, <3>3, <3>4
  <2>2. CreditIsBacked' /\ DiskInv'
    BY <2>1 DEF CreditIsBacked, DiskInv
  <2>3. BookInv'
    <3>1. This' = This /\ Limited' = Limited
      BY <1>1 DEF This, Side, Limited
    <3>2. pc # "idle" /\ pc # "write ledger" /\ pc \in Clearing /\ pc' # "write ledger"
          /\ book' = book /\ rows' = << >> /\ request' = request /\ request \in Requests
      BY <1>1, <1>3, <2>1 DEF Clearing, WorkerInv
    <3>3. /\ book \in Books /\ Uncredited(book) /\ book.pending = Limited
          /\ \A c \in CommandTasks : Endless(book, c)
      BY <3>2 DEF WorkerInv, BookInv
    <3>4. <<request, "head">> \in CommandTasks /\ <<request, "nightly-preflight">> \in CommandTasks
      BY <3>2 DEF CommandTasks, Sided
    <3>5. (\A k : k \notin DOMAIN rows') /\ pc' \notin Finishing
      <4>1. \A k : k \notin DOMAIN << >>
        OBVIOUS
      <4> QED BY <3>2, <2>1, <4>1 DEF Finishing, Checking
    <3>6. Endless(book, <<request, "head">>) /\ Endless(book, <<request, "nightly-preflight">>)
      BY <3>3, <3>4
    <3>7. book' = book /\ request' = request /\ Limited' = Limited
      BY <3>1, <3>2
    <3> QED BY <2>1, <3>2, <3>3, <3>5, <3>6, <3>7 DEF BookInv
  <2>4. RowsRead'
    BY <1>1, <2>1 DEF RowsRead, Clearing, Running, Finishing, Checking
  <2>5. outcome' = "none"
    BY <1>1, <1>3 DEF WorkerInv, Clearing
  <2> QED BY <1>1, <2>1, <2>2, <2>3, <2>4, <2>5
      DEF WorkerInv, Clearing, Running, SuccessIsOwn
<1> QED BY <1>2, <1>3 DEF Clear

\* A command that has ended adds its row.
LEMMA Adding ==
  ASSUME WorkerInv, pc \in Running, NEW b \in Books, Quiet(book, This, b),
         NEW status \in {"passed", "failed", "timed_out", "skipped"}, NEW limit \in BOOLEAN,
         b.pending = book.pending \cup (IF limit THEN {This} ELSE {}),
         \A e \in HeardOf(b, This) :
           e.kind = "ProcessFinished" => \E x \in Endings : x.d = e.disposition /\ x.status = status,
         book' = b, Adds(Row(status, limit)),
         UNCHANGED <<attempt, request>>, child' # "unconfirmed"
  PROVE  WorkerInv'
<1> DEFINE row == Row(status, limit)
<1>1. row \in RowOf(Side) /\ row.side = Side /\ row.limit = limit /\ row.status = status
  BY DEF Row, RowOf
<1> HIDE DEF row
<1>2. /\ request \in Requests /\ outcome = "none" /\ attempt # 0 /\ attempt \in Nat
      /\ Uncredited(book) /\ book.pending = Limited /\ Endless(book, <<request, "head">>)
      /\ rows = << >> => Endless(book, <<request, "nightly-preflight">>)
      /\ \A i \in DOMAIN rows : RowAgrees(i)
      /\ disk = [f \in Files |-> disk[f]] /\ disk["ledger"] = None
  BY DEF WorkerInv, BookInv, DiskInv, Running, Finishing, Checking
<1>3. rows' = Append(rows, row) /\ disk' = disk /\ outcome' = "none"
      /\ pc' = IF Side = "head" THEN "stage" ELSE "launch"
  BY <1>2 DEF Adds, row
<1>4. \/ rows = << >> /\ Side = "nightly-preflight" /\ rows' = <<row>> /\ pc' = "launch"
      \/ \E p \in RowOf("nightly-preflight") :
           rows = <<p>> /\ Side = "head" /\ rows' = <<p, row>> /\ pc' = "stage"
  <2>1. rows = << >> \/ \E p \in RowOf("nightly-preflight") : rows = <<p>>
    BY DEF WorkerInv, RowsRead
  <2>2. CASE rows = << >>
    BY <1>3, <2>2 DEF Side
  <2>3. ASSUME NEW p \in RowOf("nightly-preflight"), rows = <<p>>
        PROVE  Side = "head" /\ rows' = <<p, row>> /\ pc' = "stage"
    <3>1. rows # << >>
      BY <2>3
    <3>2. Side = "head"
      BY <3>1 DEF Side
    <3>3. Append(<<p>>, row) = <<p, row>>
      <4>1. <<p>> \in Seq({p, row})
        OBVIOUS
      <4>2. Append(<<p>>, row) \in Seq({p, row}) /\ Len(Append(<<p>>, row)) = 2
            /\ Append(<<p>>, row)[1] = p /\ Append(<<p>>, row)[2] = row
        BY <4>1
      <4>3. \A s \in Seq({p, row}) : Len(s) = 2 => s = <<s[1], s[2]>>
        OBVIOUS
      <4> QED BY <4>2, <4>3
    <3> QED BY <1>3, <2>3, <3>2, <3>3
  <2> QED BY <2>1, <2>2, <2>3
<1>5. RowsRead'
  BY <1>1, <1>4 DEF RowsRead, Clearing, Running, Finishing, Checking
<1>6. Limited' = Limited \cup (IF limit THEN {This} ELSE {})
  <2>1. CASE rows = << >> /\ Side = "nightly-preflight" /\ rows' = <<row>>
    <3>1. DOMAIN rows = {} /\ DOMAIN rows' = {1} /\ rows'[1] = row /\ request' = request
      BY <2>1
    <3> QED BY <1>1, <3>1 DEF Limited, This
  <2>2. CASE \E p \in RowOf("nightly-preflight") :
               rows = <<p>> /\ Side = "head" /\ rows' = <<p, row>>
    <3>1. DOMAIN rows = {1} /\ DOMAIN rows' = {1, 2} /\ rows'[1] = rows[1] /\ rows'[2] = row
          /\ request' = request
      BY <2>2
    <3> QED BY <1>1, <3>1 DEF Limited, This
  <2> QED BY <1>4, <2>1, <2>2
<1>7. Uncredited(book') /\ book' \in Books /\ book'.pending = Limited'
  BY <1>2, <1>6 DEF Quiet
<1>8. ASSUME NEW i \in DOMAIN rows' PROVE RowAgrees(i)'
  <2>1. CASE rows = << >> /\ Side = "nightly-preflight" /\ rows' = <<row>>
    <3>1. rows'[i] = row /\ <<request', row.side>> = This
      BY <2>1, <1>1 DEF This
    <3> QED BY <1>1, <3>1 DEF RowAgrees
  <2>2. CASE \E p \in RowOf("nightly-preflight") :
               rows = <<p>> /\ Side = "head" /\ rows' = <<p, row>>
    <3>1. /\ i \in {1, 2} /\ rows'[1] = rows[1] /\ rows'[2] = row /\ <<request', row.side>> = This
          /\ rows[1].side = "nightly-preflight" /\ 1 \in DOMAIN rows /\ Side = "head"
      BY <2>2, <1>1 DEF This, RowOf
    <3>2. CASE i = 2
      BY <1>1, <3>1, <3>2 DEF RowAgrees
    <3>3. CASE i = 1
      <4>1. HeardOf(book', <<request, "nightly-preflight">>) = HeardOf(book, <<request, "nightly-preflight">>)
        BY <1>2, <3>1 DEF Quiet, This, CommandTasks, Sided
      <4>2. RowAgrees(1)
        BY <1>2, <3>1
      <4> QED BY <3>1, <3>3, <4>1, <4>2 DEF RowAgrees
    <3> QED BY <3>1, <3>2, <3>3
  <2> QED BY <1>4, <2>1, <2>2
<1>9. pc' = "launch" => rows' # << >> /\ Endless(book', <<request', "head">>)
  <2>1. SUFFICES ASSUME pc' = "launch" PROVE rows' # << >> /\ Endless(book', <<request', "head">>)
    OBVIOUS
  <2>2. Side = "nightly-preflight" /\ rows' # << >>
    BY <1>4, <2>1
  <2>3. HeardOf(book', <<request, "head">>) = HeardOf(book, <<request, "head">>)
    BY <1>2, <2>2 DEF Quiet, This, CommandTasks, Sided
  <2> QED BY <1>2, <2>2, <2>3 DEF Endless
<1>10. pc' \in {"launch", "stage"}
  BY <1>3
<1>11. BookInv'
  BY <1>7, <1>8, <1>9, <1>10 DEF BookInv, Clearing, Running, Finishing, Checking
<1>12. DiskInv' /\ CreditIsBacked'
  BY <1>2, <1>3, <1>10 DEF DiskInv, CreditIsBacked
<1> QED BY <1>2, <1>3, <1>5, <1>10, <1>11, <1>12 DEF WorkerInv, SuccessIsOwn, Running, Finishing, Checking

\* Where a command stands: nothing has credited its task.
LEMMA Standing ==
  ASSUME WorkerInv, pc \in Running
  PROVE  /\ This \in CommandTasks /\ book \in Books /\ Uncredited(book) /\ Endless(book, This)
         /\ pc # "idle" /\ disk["ledger"] = None /\ child # "unconfirmed"
<1>1. request \in Requests /\ Endless(book, <<request, "head">>)
      /\ (rows = << >> => Endless(book, <<request, "nightly-preflight">>))
      /\ book \in Books /\ Uncredited(book) /\ disk["ledger"] = None /\ child # "unconfirmed"
  BY DEF WorkerInv, BookInv, DiskInv, Running
<1> QED BY <1>1 DEF This, Side, CommandTasks, Sided, Running

LEMMA Launching == WorkerInv /\ Launch => WorkerInv'
<1> SUFFICES ASSUME WorkerInv, Launch PROVE WorkerInv'
  OBVIOUS
<1>1. pc \in Running /\ UNCHANGED <<attempt, request, granted>>
  BY DEF Launch, Running
<1> DEFINE begun == Began(book, This)
           lost  == SetupLost(begun, This)
<1>2. /\ This \in CommandTasks /\ book \in Books /\ Uncredited(book) /\ Endless(book, This)
      /\ pc # "idle" /\ disk["ledger"] = None /\ child # "unconfirmed"
  BY <1>1, Standing
<1>3. Quiet(book, This, begun) /\ begun.pending = book.pending /\ Endless(begun, This)
  BY <1>2, Calls DEF Dispositions
<1>4. Quiet(begun, This, lost) /\ lost.pending = begun.pending \cup {This} /\ Endless(lost, This)
  <2>1. begun \in Books
    BY <1>3 DEF Quiet
  <2> QED BY <1>2, <1>3, <2>1, Calls DEF Dispositions
<1>5. Quiet(begun, This, Ran(begun, This)) /\ Ran(begun, This).pending = begun.pending
      /\ Endless(Ran(begun, This), This)
  <2>1. begun \in Books
    BY <1>3 DEF Quiet
  <2> QED BY <1>2, <1>3, <2>1, Calls DEF Dispositions
<1>6. \/ Abort(lost, Outputs)
      \/ Ends(lost, Row("skipped", TRUE)) /\ child' = child
      \/ book' = Ran(begun, This) /\ child' = "running" /\ pc' = "wait"
         /\ UNCHANGED <<rows, disk, outcome>>
  BY Zenon DEF Launch
<1> HIDE DEF begun, lost
<1>7. lost \in Books /\ Uncredited(lost) /\ Quiet(book, This, lost)
  BY <1>2, <1>3, <1>4 DEF Quiet
<1>8. CASE Abort(lost, Outputs)
  BY <1>1, <1>2, <1>7, <1>8, Aborting
<1>9. CASE book' = lost /\ Adds(Row("skipped", TRUE)) /\ child' = child
  <2>1. \A e \in HeardOf(lost, This) : e.kind # "ProcessFinished"
    BY <1>4 DEF Endless
  <2>2. lost.pending = book.pending \cup {This} /\ child' # "unconfirmed"
    BY <1>2, <1>3, <1>4, <1>9
  <2> QED BY <1>1, <1>7, <1>9, <2>1, <2>2, Adding
<1>10. CASE book' = Ran(begun, This) /\ child' = "running" /\ pc' = "wait"
            /\ UNCHANGED <<rows, disk, outcome>>
  <2>1. Quiet(book, This, book') /\ book'.pending = book.pending /\ Endless(book', This)
        /\ Uncredited(book') /\ book' \in Books
    BY <1>2, <1>3, <1>5, <1>10 DEF Quiet
  <2>2. RowsRead' /\ Limited' = Limited
    BY <1>1, <1>10 DEF WorkerInv, RowsRead, Limited, Clearing, Running, Finishing, Checking
  <2>3. /\ request \in Requests /\ Endless(book, <<request, "head">>) /\ book.pending = Limited
        /\ \A i \in DOMAIN rows : RowAgrees(i)
    BY <1>1 DEF WorkerInv, BookInv, Running
  <2>4. Endless(book', <<request', "head">>)
        /\ (rows' = << >> => Endless(book', <<request', "nightly-preflight">>))
    <3>1. CASE rows = << >>
      BY <1>1, <1>10, <2>1, <2>3, <3>1 DEF Quiet, This, Side, Endless, CommandTasks, Sided
    <3>2. CASE rows # << >>
      BY <1>1, <1>10, <2>1, <2>3, <3>2 DEF Quiet, This, Side, Endless, CommandTasks, Sided
    <3> QED BY <3>1, <3>2
  <2>5. ASSUME NEW i \in DOMAIN rows' PROVE RowAgrees(i)'
    <3>1. PICK p \in RowOf("nightly-preflight") : rows = <<p>>
      <4>1. rows = << >> \/ \E p \in RowOf("nightly-preflight") : rows = <<p>>
        BY <1>1 DEF WorkerInv, RowsRead
      <4> QED BY <1>10, <2>5, <4>1
    <3>2. i \in DOMAIN rows /\ rows'[i] = rows[i] /\ rows[i].side = "nightly-preflight"
          /\ This = <<request, "head">>
      BY <1>10, <2>5, <3>1 DEF RowOf, This, Side
    <3>3. HeardOf(book', <<request, "nightly-preflight">>) = HeardOf(book, <<request, "nightly-preflight">>)
      BY <2>1, <2>3, <3>2 DEF Quiet, CommandTasks, Sided
    <3>4. RowAgrees(i) /\ request' = request
      BY <1>1, <2>3, <3>2
    <3> QED BY <3>2, <3>3, <3>4 DEF RowAgrees
  <2>6. BookInv'
    BY <1>10, <2>1, <2>2, <2>3, <2>4, <2>5 DEF BookInv, Clearing, Running, Finishing, Checking
  <2>7. DiskInv' /\ CreditIsBacked'
    BY <1>2, <1>10 DEF WorkerInv, DiskInv, CreditIsBacked
  <2>8. attempt \in Nat /\ attempt # 0 /\ outcome = "none"
    BY <1>2 DEF WorkerInv
  <2> QED BY <1>1, <1>10, <2>2, <2>3, <2>6, <2>7, <2>8
      DEF WorkerInv, SuccessIsOwn, Running
<1> QED BY <1>6, <1>8, <1>9, <1>10 DEF Ends

LEMMA Declining == WorkerInv /\ DeclineUnresolved => WorkerInv'
<1> SUFFICES ASSUME WorkerInv, DeclineUnresolved PROVE WorkerInv'
  OBVIOUS
<1>1. pc \in Running /\ UNCHANGED <<attempt, request, child>>
  BY DEF DeclineUnresolved, Running
<1> DEFINE declined == Declined(book, This, "Refused")
<1>2. /\ This \in CommandTasks /\ book \in Books /\ Uncredited(book) /\ Endless(book, This)
      /\ pc # "idle" /\ disk["ledger"] = None /\ child # "unconfirmed"
  BY <1>1, Standing
<1>3. "Refused" \in Dispositions
  BY DEF Dispositions
<1>4. Quiet(book, This, declined) /\ declined.pending = book.pending /\ Endless(declined, This)
  BY <1>2, <1>3, Calls
<1>5. Ends(declined, Row("skipped", FALSE))
  BY DEF DeclineUnresolved
<1> HIDE DEF declined
<1>6. declined \in Books /\ Uncredited(declined)
  BY <1>2, <1>4 DEF Quiet
<1>7. CASE Abort(declined, Outputs)
  BY <1>1, <1>2, <1>6, <1>7, Aborting
<1>8. CASE book' = declined /\ Adds(Row("skipped", FALSE))
  <2>1. declined.pending = book.pending \cup (IF FALSE THEN {This} ELSE {})
        /\ child' # "unconfirmed"
    BY <1>1, <1>2, <1>4
  <2>2. \A e \in HeardOf(declined, This) : e.kind # "ProcessFinished"
    BY <1>4 DEF Endless
  <2>3. ASSUME NEW limit \in BOOLEAN, limit = FALSE,
               NEW status \in {"passed", "failed", "timed_out", "skipped"}, status = "skipped"
        PROVE  WorkerInv'
    <3>1. /\ Adds(Row(status, limit))
          /\ declined.pending = book.pending \cup (IF limit THEN {This} ELSE {})
      BY <1>8, <2>1, <2>3
    <3> QED BY <1>1, <1>4, <1>6, <1>8, <2>1, <2>2, <2>3, <3>1, Adding
  <2> QED BY <2>3
<1> QED BY <1>5, <1>7, <1>8 DEF Ends

LEMMA Exiting == WorkerInv /\ Exit => WorkerInv'
<1> SUFFICES ASSUME WorkerInv, Exit PROVE WorkerInv'
  OBVIOUS
<1>1. pc \in Running /\ UNCHANGED <<attempt, request, granted>> /\ child' = "gone"
  BY DEF Exit, Running
<1>2. /\ This \in CommandTasks /\ book \in Books /\ Uncredited(book) /\ Endless(book, This)
      /\ pc # "idle" /\ disk["ledger"] = None
  BY <1>1, Standing
<1>3. PICK e \in Endings : Ends(CleanedUp(Finished(book, This, e.d), This), Row(e.status, TRUE))
  BY DEF Exit
<1>4. e.d \in Dispositions /\ e.status \in {"passed", "failed", "timed_out", "skipped"}
  BY DEF Endings, Dispositions
<1> DEFINE finished == Finished(book, This, e.d)
           cleaned  == CleanedUp(finished, This)
<1>5. Quiet(book, This, finished) /\ finished.pending = book.pending
      /\ \A x \in HeardOf(cleaned, This) : x.kind = "ProcessFinished" => x.disposition = e.d
  BY <1>2, <1>4, Calls
<1>6. Quiet(finished, This, cleaned) /\ cleaned.pending = finished.pending \cup {This}
  <2>1. finished \in Books
    BY <1>5 DEF Quiet
  <2> QED BY <1>2, <1>4, <2>1, Calls
<1>7. Ends(cleaned, Row(e.status, TRUE))
  BY <1>3
<1> HIDE DEF cleaned, finished
<1>8. cleaned \in Books /\ Uncredited(cleaned) /\ Quiet(book, This, cleaned)
      /\ cleaned.pending = book.pending \cup {This}
  BY <1>2, <1>5, <1>6 DEF Quiet
<1>9. CASE Abort(cleaned, Outputs)
  BY <1>1, <1>2, <1>8, <1>9, Aborting
<1>10. CASE book' = cleaned /\ Adds(Row(e.status, TRUE))
  <2>1. \A x \in HeardOf(cleaned, This) : x.kind = "ProcessFinished" =>
          \E y \in Endings : y.d = x.disposition /\ y.status = e.status
    BY <1>5
  <2> QED BY <1>1, <1>4, <1>8, <1>10, <2>1, Adding
<1> QED BY <1>7, <1>9, <1>10 DEF Ends

LEMMA Losing == WorkerInv /\ LoseChild => WorkerInv'
<1> SUFFICES ASSUME WorkerInv, LoseChild PROVE WorkerInv'
  OBVIOUS
<1>1. pc \in Running /\ UNCHANGED <<attempt, request>> /\ Abort(book, Outputs)
  BY DEF LoseChild, Running
<1> QED BY <1>1, Standing, Aborting

--------------------------------------------------------------------------------
\* A publication that is given up.
LEMMA GivingUp ==
  ASSUME WorkerInv, pc \in Checking, Revoke, UNCHANGED <<attempt, request>>
  PROVE  WorkerInv'
<1>1. PICK kept \in SUBSET Outputs : Abort(book, kept)
  BY DEF Revoke
<1>2. book \in Books /\ Uncredited(book) /\ disk["ledger"] = None /\ pc # "idle"
  BY DEF WorkerInv, BookInv, DiskInv, Checking
<1> QED BY <1>1, <1>2, Aborting

\* A step of the publication, when nothing but the disk has changed.
LEMMA Stepping ==
  ASSUME WorkerInv, NEW from \in Checking, NEW to \in Checking, Step(from, to),
         disk' = [f \in Files |-> disk'[f]], disk'["ledger"] = None,
         to \in {"put receipt", "check lease", "reconcile"} => disk'["lease"] = Lease,
         to \in {"check lease", "reconcile"} => disk'["receipt"] = Receipt
  PROVE  WorkerInv'
<1>1. /\ pc = from /\ pc' = to
      /\ UNCHANGED <<attempt, request, rows, granted, child, book, outcome>>
  BY DEF Step, memory
<1>2. Lease' = Lease /\ Receipt' = Receipt /\ Limited' = Limited
      /\ \A i \in DOMAIN rows : RowAgrees(i)' <=> RowAgrees(i)
  BY <1>1 DEF Lease, Receipt, Classified, Limited, RowAgrees
<1>3. RowsRead'
  BY <1>1 DEF WorkerInv, RowsRead, Clearing, Running, Finishing, Checking
<1>4. BookInv'
  <2>1. /\ book \in Books /\ Uncredited(book) /\ book.pending = Limited
        /\ \A i \in DOMAIN rows : RowAgrees(i)
    BY <1>1 DEF WorkerInv, BookInv, Finishing, Checking
  <2>2. Uncredited(book')
    BY <1>1, <2>1
  <2> QED BY <1>1, <1>2, <2>1, <2>2 DEF BookInv, Clearing, Running, Checking
<1>5. DiskInv'
  BY <1>1, <1>2 DEF DiskInv, Checking
<1>6. CreditIsBacked'
  BY <1>1 DEF CreditIsBacked
<1>7. attempt \in Nat /\ attempt # 0 /\ outcome = "none" /\ request \in Requests
      /\ child # "unconfirmed"
  BY <1>1 DEF WorkerInv, Checking
<1> QED BY <1>1, <1>3, <1>4, <1>5, <1>6, <1>7 DEF WorkerInv, SuccessIsOwn, Finishing

LEMMA Publishing ==
  ASSUME WorkerInv, Stage \/ PutLease \/ PutReceipt \/ CheckLease
  PROVE  WorkerInv'
<1>1. pc \in Checking => disk = [f \in Files |-> disk[f]] /\ disk["ledger"] = None
  BY DEF WorkerInv, DiskInv, Checking
<1>2. ASSUME NEW from \in Checking, GiveUp(from) PROVE WorkerInv'
  BY <1>2, GivingUp DEF GiveUp
<1>3. CASE Stage
  <2>1. CASE Step("stage", "put lease") /\ UNCHANGED disk
    <3>1. pc \in Checking
      BY <2>1 DEF Step, Checking
    <3> QED BY <1>1, <2>1, <3>1, Stepping DEF Checking
  <2> QED BY <1>2, <1>3, <2>1 DEF Stage, Checking
<1>4. CASE PutLease
  <2>1. CASE Step("put lease", "put receipt") /\ disk' = [disk EXCEPT !.lease = Lease]
    <3>1. pc \in Checking
      BY <2>1 DEF Step, Checking
    <3>2. disk' = [f \in Files |-> disk'[f]] /\ disk'["ledger"] = None /\ disk'["lease"] = Lease
      BY <1>1, <2>1, <3>1 DEF Files
    <3> QED BY <2>1, <3>2, Stepping DEF Checking
  <2> QED BY <1>2, <1>4, <2>1 DEF PutLease, Checking
<1>5. CASE PutReceipt
  <2>1. CASE Step("put receipt", "check lease") /\ disk' = [disk EXCEPT !.receipt = Receipt]
    <3>1. pc \in Checking /\ pc = "put receipt"
      BY <2>1 DEF Step, Checking
    <3>2. disk["lease"] = Lease
      BY <3>1 DEF WorkerInv, DiskInv
    <3>3. disk' = [f \in Files |-> disk'[f]] /\ disk'["ledger"] = None /\ disk'["lease"] = Lease
          /\ disk'["receipt"] = Receipt
      BY <1>1, <2>1, <3>1, <3>2 DEF Files
    <3> QED BY <2>1, <3>3, Stepping DEF Checking
  <2> QED BY <1>2, <1>5, <2>1 DEF PutReceipt, Checking
<1>6. CASE CheckLease
  <2>1. CASE Step("check lease", "reconcile") /\ UNCHANGED disk
    <3>1. pc \in Checking /\ pc = "check lease"
      BY <2>1 DEF Step, Checking
    <3>2. disk["lease"] = Lease /\ disk["receipt"] = Receipt
      BY <3>1 DEF WorkerInv, DiskInv
    <3> QED BY <1>1, <2>1, <3>1, <3>2, Stepping DEF Checking
  <2> QED BY <1>2, <1>6, <2>1 DEF CheckLease, Checking
<1> QED BY <1>3, <1>4, <1>5, <1>6

\* The receipt is read back: exactly the commands with a limit are credited.
LEMMA Reconciling == WorkerInv /\ ReconcileReceipt => WorkerInv'
<1> SUFFICES ASSUME WorkerInv, ReconcileReceipt PROVE WorkerInv'
  OBVIOUS
<1>1. CASE GiveUp("reconcile")
  BY <1>1, GivingUp DEF GiveUp, Checking
<1>2. CASE /\ pc = "reconcile" /\ pc' = "write ledger" /\ book' = Reconciled(book)
           /\ UNCHANGED <<attempt, request, rows, granted, child, disk, outcome>>
  <2>1. /\ book \in Books /\ Uncredited(book) /\ book.pending = Limited
        /\ \A i \in DOMAIN rows : RowAgrees(i)
    BY <1>2 DEF WorkerInv, BookInv, Finishing, Checking
  <2>2. /\ book' \in Books
        /\ \A c \in CommandTasks :
             HeardOf(book', c) = IF c \in book.pending THEN HeardOf(book, c) \cup ToSet(ReceiptEvents(TRUE))
                               ELSE HeardOf(book, c)
    <3>1. book' = Closed(book, TRUE)
      BY <1>2 DEF Reconciled
    <3> QED BY <2>1, <3>1, Closing
  <2>3. Limited' = Limited
    BY <1>2 DEF Limited
  <2>4. ASSUME NEW c \in CommandTasks PROVE Credits(book', c) <=> c \in Limited
    BY <2>1, <2>2, CreditsHeard, ReceiptKinds DEF Uncredited
  <2>5. ASSUME NEW i \in DOMAIN rows PROVE RowAgrees(i)'
    <3>1. PICK p \in RowOf("nightly-preflight"), h \in RowOf("head") : rows = <<p, h>>
      BY <1>2 DEF WorkerInv, RowsRead, Finishing, Checking
    <3>2. <<request, rows[i].side>> \in CommandTasks
      BY <3>1 DEF WorkerInv, CommandTasks, Sided, RowOf
    <3>3. RowAgrees(i) /\ rows' = rows /\ request' = request
      BY <1>2, <2>1
    <3>4. \A e \in HeardOf(book', <<request, rows[i].side>>) :
            e.kind = "ProcessFinished" => e \in HeardOf(book, <<request, rows[i].side>>)
      BY <2>2, <3>2, ReceiptKinds
    <3> QED BY <3>3, <3>4 DEF RowAgrees
  <2>6. BookInv'
    BY <1>2, <2>2, <2>3, <2>4, <2>5 DEF BookInv, Clearing, Running
  <2>7. RowsRead'
    BY <1>2 DEF WorkerInv, RowsRead, Clearing, Running, Finishing, Checking
  <2>8. DiskInv' /\ CreditIsBacked'
    <3>1. Lease' = Lease /\ Receipt' = Receipt
      BY <1>2 DEF Lease, Receipt, Classified
    <3>2. disk = [f \in Files |-> disk[f]] /\ disk["ledger"] = None
          /\ disk["lease"] = Lease /\ disk["receipt"] = Receipt
      BY <1>2 DEF WorkerInv, DiskInv
    <3> QED BY <1>2, <3>1, <3>2 DEF DiskInv, CreditIsBacked
  <2>9. attempt \in Nat /\ attempt # 0 /\ outcome = "none" /\ request \in Requests
        /\ child # "unconfirmed"
    BY <1>2 DEF WorkerInv
  <2> QED BY <1>2, <2>6, <2>7, <2>8, <2>9 DEF WorkerInv, SuccessIsOwn, Finishing
<1> QED BY <1>1, <1>2 DEF ReconcileReceipt

\* The ledger is written beside its lease and its receipt.
LEMMA Writing == WorkerInv /\ WriteLedger => WorkerInv'
<1> SUFFICES ASSUME WorkerInv, WriteLedger PROVE WorkerInv'
  OBVIOUS
<1>1. /\ pc = "write ledger" /\ pc' = "idle"
      /\ UNCHANGED <<attempt, request, rows, granted, child, book>>
  BY DEF WriteLedger, memory
<1>2. /\ attempt \in Nat /\ attempt # 0 /\ request \in Requests /\ child # "unconfirmed"
      /\ disk = [f \in Files |-> disk[f]] /\ disk["ledger"] = None
      /\ disk["lease"] = Lease /\ disk["receipt"] = Receipt
  BY <1>1 DEF WorkerInv, DiskInv
<1>3. /\ book \in Books
      /\ \A c \in CommandTasks : Credits(book, c) <=> c \in Limited
      /\ \A i \in DOMAIN rows : RowAgrees(i)
  BY <1>1 DEF WorkerInv, BookInv, Finishing
<1>4. PICK p \in RowOf("nightly-preflight"), h \in RowOf("head") : rows = <<p, h>>
  BY <1>1 DEF WorkerInv, RowsRead, Finishing
<1>5. RowsRead' /\ BookInv'
  BY <1>1 DEF RowsRead, BookInv, Clearing, Running, Finishing, Checking
<1>6. CASE /\ disk' = [disk EXCEPT !.ledger = Ledger(book)] /\ outcome' = "success"
  <2>1. /\ disk' = [f \in Files |-> disk'[f]]
        /\ disk'["ledger"] = Ledger(book) /\ disk'["lease"] = Lease /\ disk'["receipt"] = Receipt
    BY <1>2, <1>6 DEF Files
  <2>2. /\ disk'["ledger"].attempt = attempt /\ disk'["ledger"].book = book
        /\ disk'["lease"].attempt = attempt /\ disk'["lease"].id = request
        /\ disk'["receipt"].attempt = attempt /\ disk'["receipt"].id = request
        /\ disk'["receipt"].rows = rows
    BY <2>1 DEF Ledger, Lease, Receipt
  <2>3. \A i \in DOMAIN rows : Credits(book, <<request, rows[i].side>>) = rows[i].limit
    <3>1. <<request, "nightly-preflight">> \in CommandTasks /\ <<request, "head">> \in CommandTasks
      BY <1>2 DEF CommandTasks, Sided
    <3>2. DOMAIN rows = {1, 2} /\ rows[1] = p /\ rows[2] = h
          /\ p.side = "nightly-preflight" /\ h.side = "head"
          /\ p.limit \in BOOLEAN /\ h.limit \in BOOLEAN
      BY <1>4 DEF RowOf
    <3>3. /\ <<request, "nightly-preflight">> \in Limited <=> p.limit
          /\ <<request, "head">> \in Limited <=> h.limit
      BY <3>2 DEF Limited
    <3>4. /\ Credits(book, <<request, p.side>>) <=> p.limit
          /\ Credits(book, <<request, h.side>>) <=> h.limit
      BY <1>3, <3>1, <3>2, <3>3
    <3>5. Credits(book, <<request, p.side>>) \in BOOLEAN /\ Credits(book, <<request, h.side>>) \in BOOLEAN
      BY DEF Credits, Logged
    <3> QED BY <3>2, <3>4, <3>5
  <2>4. SuccessIsOwn'
    BY <1>1, <1>2, <2>2, <2>3 DEF SuccessIsOwn, Files
  <2>5. ASSUME NEW c \in CommandTasks, Credits(book, c) PROVE Backs(Receipt, c, book.log[c])
    <3>1. PICK i \in DOMAIN rows : c = <<request, rows[i].side>>
      BY <1>3, <2>5 DEF Limited
    <3>2. Receipt.id = request /\ Receipt.rows = rows
      BY DEF Receipt
    <3>3. ASSUME NEW j \in DOMAIN book.log[c], book.log[c][j].kind = "ProcessFinished"
          PROVE  \E e \in Endings : e.d = book.log[c][j].disposition /\ e.status = rows[i].status
      <4>1. book.log[c][j] \in HeardOf(book, c)
        BY <3>3 DEF HeardOf, ToSet
      <4> QED BY <1>3, <3>1, <3>3, <4>1 DEF RowAgrees
    <3> QED BY <3>1, <3>2, <3>3 DEF Backs
  <2>6. CreditIsBacked'
    BY <2>1, <2>2, <2>5 DEF CreditIsBacked
  <2>7. DiskInv'
    BY <1>1, <2>1 DEF DiskInv
  <2> QED BY <1>1, <1>2, <1>5, <2>4, <2>6, <2>7 DEF WorkerInv
<1>7. CASE /\ \E kept \in SUBSET Outputs :
                disk' = [f \in Files |-> IF f \in Outputs \ kept THEN None ELSE disk[f]]
           /\ outcome' = "failed"
  <2>1. disk' = [f \in Files |-> disk'[f]] /\ disk'["ledger"] = None
    BY <1>2, <1>7 DEF Files, Outputs
  <2>2. DiskInv' /\ CreditIsBacked' /\ SuccessIsOwn'
    BY <1>1, <1>7, <2>1 DEF DiskInv, CreditIsBacked, SuccessIsOwn
  <2> QED BY <1>1, <1>2, <1>5, <2>2 DEF WorkerInv
<1> QED BY <1>6, <1>7 DEF WriteLedger

\* A kill leaves the disk as it is.
LEMMA Crashing == WorkerInv /\ Crash => WorkerInv'
<1> SUFFICES ASSUME WorkerInv, Crash PROVE WorkerInv'
  OBVIOUS
<1>1. pc' = "idle" /\ outcome' = "crashed" /\ disk' = disk /\ attempt' = attempt /\ request' = request
  BY DEF Crash, memory
<1>2. CreditIsBacked'
  BY <1>1 DEF WorkerInv, CreditIsBacked
<1>3. DiskInv'
  BY <1>1 DEF WorkerInv, DiskInv
<1> QED BY <1>1, <1>2, <1>3
    DEF WorkerInv, RowsRead, BookInv, SuccessIsOwn, Clearing, Running, Finishing, Checking

LEMMA WorkerIdles == WorkerInv /\ UNCHANGED vars => WorkerInv'
<1> SUFFICES ASSUME WorkerInv, UNCHANGED vars PROVE WorkerInv'
  OBVIOUS
<1>1. /\ pc' = pc /\ attempt' = attempt /\ request' = request /\ rows' = rows
      /\ granted' = granted /\ child' = child /\ book' = book /\ disk' = disk /\ outcome' = outcome
  BY DEF vars
<1>2. Lease' = Lease /\ Receipt' = Receipt /\ Limited' = Limited
      /\ \A i \in DOMAIN rows : RowAgrees(i)' <=> RowAgrees(i)
  BY <1>1 DEF Lease, Receipt, Classified, Limited, RowAgrees
<1>3. RowsRead'
  BY <1>1 DEF WorkerInv, RowsRead
<1>4. BookInv'
  BY <1>1, <1>2 DEF WorkerInv, BookInv, Uncredited, Endless
<1>5. DiskInv'
  BY <1>1, <1>2 DEF WorkerInv, DiskInv
<1>6. CreditIsBacked'
  BY <1>1 DEF WorkerInv, CreditIsBacked
<1>7. SuccessIsOwn'
  BY <1>1 DEF WorkerInv, SuccessIsOwn
<1> QED BY <1>1, <1>3, <1>4, <1>5, <1>6, <1>7 DEF WorkerInv

LEMMA WorkerStep == WorkerInv /\ [Next]_vars => WorkerInv'
BY Starting, Clears, Launching, Declining, Exiting, Losing, Publishing, Reconciling, Writing,
   Crashing, WorkerIdles DEF Next

LEMMA WorkerInvariant == Spec => []WorkerInv
BY WorkerInit, WorkerStep, PTL DEF Spec

\* Whatever the directory held before, whatever fails and whenever the process
\* is killed, an attempt that reports success has left its own lease, its own
\* receipt and a ledger that credits exactly the commands that were run.
THEOREM SuccessAlwaysOwn == Spec => []SuccessIsOwn
<1>1. WorkerInv => SuccessIsOwn
  BY DEF WorkerInv
<1> QED BY <1>1, WorkerInvariant, PTL

\* A ledger on disk that credits a command has beside it, at every moment, the
\* receipt of the same attempt with a row that tells how the command ended.
THEOREM CreditAlwaysBacked == Spec => []CreditIsBacked
<1>1. WorkerInv => CreditIsBacked
  BY DEF WorkerInv
<1> QED BY <1>1, WorkerInvariant, PTL
================================================================================

---------------------------- MODULE RecorderProofs ----------------------------
(***************************************************************************)
(* What the recorder of TaskRecorder makes of the events that are appended *)
(* to it, for its users' proofs: the sensor pools and the proof runner.    *)
(***************************************************************************)
EXTENDS TaskRecorder, NaturalsInduction, WellFoundedInduction, TLAPS

(***************************************************************************)
(* What the recorder makes of the lists of events its users append.  The   *)
(* function Fed chooses exists because the lists are of a known length.    *)
(***************************************************************************)
IsReplay(h, f, es) ==
  h = [n \in 0 .. Len(es) |-> IF n = 0 THEN {f} ELSE FeedEach(h[n - 1], es[n])]

LEMMA FedIsReplay ==
    ASSUME NEW f, NEW es, NEW g, IsReplay(g, f, es)
    PROVE  \E h : IsReplay(h, f, es) /\ Fed(f, es) = h[Len(es)]
<1>. DEFINE P(h) == h = [n \in 0 .. Len(es) |->
                           IF n = 0 THEN {f} ELSE FeedEach(h[n - 1], es[n])]
            fed == CHOOSE h : P(h)
<1>1. Fed(f, es) = fed[Len(es)]
  BY DEF Fed
<1>2. P(fed)
  <2>1. P(g)
    BY DEF IsReplay
  <2>. QED BY <2>1
<1>. HIDE DEF fed
<1>. QED BY <1>1, <1>2 DEF IsReplay

LEMMA FedNone ==
    ASSUME NEW f
    PROVE  Fed(f, << >>) = {f}
<1>. DEFINE g == [n \in 0 .. 0 |-> {f}]
<1>1. IsReplay(g, f, << >>)
  BY DEF IsReplay
<1>2. ASSUME NEW h, IsReplay(h, f, << >>)
      PROVE  h[0] = {f}
  BY <1>2 DEF IsReplay
<1>. HIDE DEF g
<1>3. PICK h : IsReplay(h, f, << >>) /\ Fed(f, << >>) = h[Len(<< >>)]
  BY <1>1, FedIsReplay
<1>. QED BY <1>2, <1>3 DEF FeedEach

LEMMA FedOne ==
    ASSUME NEW f, NEW a
    PROVE  Fed(f, <<a>>) = {FeedOne(f, a)}
<1>. DEFINE first == FeedEach({f}, a)
            g == [n \in 0 .. 1 |-> IF n = 0 THEN {f} ELSE first]
<1>1. IsReplay(g, f, <<a>>)
  BY DEF IsReplay
<1>2. ASSUME NEW h, IsReplay(h, f, <<a>>)
      PROVE  h[0] = {f} /\ h[1] = FeedEach(h[0], a)
  BY <1>2 DEF IsReplay
<1>. HIDE DEF g
<1>3. PICK h : IsReplay(h, f, <<a>>) /\ Fed(f, <<a>>) = h[Len(<<a>>)]
  BY <1>1, FedIsReplay
<1>. QED BY <1>2, <1>3 DEF FeedEach

LEMMA FedTwo ==
    ASSUME NEW f, NEW a, NEW b
    PROVE  Fed(f, <<a, b>>) = {FeedOne(FeedOne(f, a), b)}
<1>. DEFINE first == FeedEach({f}, a)
            second == FeedEach(first, b)
            g == [n \in 0 .. 2 |->
                    IF n = 0 THEN {f} ELSE IF n = 1 THEN first ELSE second]
<1>1. IsReplay(g, f, <<a, b>>)
  BY DEF IsReplay
<1>2. ASSUME NEW h, IsReplay(h, f, <<a, b>>)
      PROVE  h[0] = {f} /\ h[1] = FeedEach(h[0], a) /\ h[2] = FeedEach(h[1], b)
  BY <1>2 DEF IsReplay
<1>. HIDE DEF g
<1>3. PICK h : IsReplay(h, f, <<a, b>>) /\ Fed(f, <<a, b>>) = h[Len(<<a, b>>)]
  BY <1>1, FedIsReplay
<1>. QED BY <1>2, <1>3 DEF FeedEach

LEMMA FedThree ==
    ASSUME NEW f, NEW a, NEW b, NEW c
    PROVE  Fed(f, <<a, b, c>>) = {FeedOne(FeedOne(FeedOne(f, a), b), c)}
<1>. DEFINE first == FeedEach({f}, a)
            second == FeedEach(first, b)
            third == FeedEach(second, c)
            g == [n \in 0 .. 3 |->
                    IF n = 0 THEN {f} ELSE IF n = 1 THEN first ELSE 
                    IF n = 2 THEN second ELSE third]
<1>1. IsReplay(g, f, <<a, b, c>>)
  BY DEF IsReplay
<1>2. ASSUME NEW h, IsReplay(h, f, <<a, b, c>>)
      PROVE  /\ h[0] = {f} /\ h[1] = FeedEach(h[0], a) /\ h[2] = FeedEach(h[1], b)
             /\ h[3] = FeedEach(h[2], c)
  BY <1>2 DEF IsReplay
<1>. HIDE DEF g
<1>3. PICK h : IsReplay(h, f, <<a, b, c>>) /\ Fed(f, <<a, b, c>>) = h[Len(<<a, b, c>>)]
  BY <1>1, FedIsReplay
<1>. QED BY <1>2, <1>3 DEF FeedEach

LEMMA FedFour ==
    ASSUME NEW f, NEW a, NEW b, NEW c, NEW d
    PROVE  Fed(f, <<a, b, c, d>>) = {FeedOne(FeedOne(FeedOne(FeedOne(f, a), b), c), d)}
<1>. DEFINE first == FeedEach({f}, a)
            second == FeedEach(first, b)
            third == FeedEach(second, c)
            fourth == FeedEach(third, d)
            g == [n \in 0 .. 4 |->
                    IF n = 0 THEN {f} ELSE IF n = 1 THEN first ELSE 
                    IF n = 2 THEN second ELSE IF n = 3 THEN third ELSE fourth]
<1>1. IsReplay(g, f, <<a, b, c, d>>)
  BY DEF IsReplay
<1>2. ASSUME NEW h, IsReplay(h, f, <<a, b, c, d>>)
      PROVE  /\ h[0] = {f} /\ h[1] = FeedEach(h[0], a) /\ h[2] = FeedEach(h[1], b)
             /\ h[3] = FeedEach(h[2], c) /\ h[4] = FeedEach(h[3], d)
  BY <1>2 DEF IsReplay
<1>. HIDE DEF g
<1>3. PICK h : IsReplay(h, f, <<a, b, c, d>>) /\ Fed(f, <<a, b, c, d>>) = h[Len(<<a, b, c, d>>)]
  BY <1>1, FedIsReplay
<1>. QED BY <1>2, <1>3 DEF FeedEach

LEMMA JoinedOne ==
    ASSUME NEW a, NEW b
    PROVE  <<a>> \o <<b>> = <<a, b>>
<1>. DEFINE s == <<a>>
            t == <<b>>
            u == <<a, b>>
<1>1. s \in Seq({a}) /\ Len(s) = 1 /\ t \in Seq({b}) /\ Len(t) = 1
  OBVIOUS
<1>2. s[1] = u[1] /\ t[1] = u[2]
  OBVIOUS
<1>3. u = [i \in 1 .. 2 |-> u[i]]
  OBVIOUS
<1>4. s \o t = [i \in 1 .. 2 |-> IF i <= 1 THEN s[i] ELSE t[i - 1]]
  BY <1>1
<1>. HIDE DEF s, t, u
<1>5. s \o t = u
  BY <1>2, <1>3, <1>4
<1>. QED BY <1>5 DEF s, t, u

LEMMA JoinedTwo ==
    ASSUME NEW a, NEW b, NEW c
    PROVE  <<a>> \o <<b, c>> = <<a, b, c>>
<1>. DEFINE s == <<a>>
            t == <<b, c>>
            u == <<a, b, c>>
<1>1. s \in Seq({a}) /\ Len(s) = 1 /\ t \in Seq({b, c}) /\ Len(t) = 2
  OBVIOUS
<1>2. s[1] = u[1] /\ t[1] = u[2] /\ t[2] = u[3]
  OBVIOUS
<1>3. u = [i \in 1 .. 3 |-> u[i]]
  OBVIOUS
<1>4. s \o t = [i \in 1 .. 3 |-> IF i <= 1 THEN s[i] ELSE t[i - 1]]
  BY <1>1
<1>. HIDE DEF s, t, u
<1>5. s \o t = u
  BY <1>2, <1>3, <1>4
<1>. QED BY <1>5 DEF s, t, u

LEMMA JoinedThree ==
    ASSUME NEW a, NEW b, NEW c, NEW d
    PROVE  <<a>> \o <<b, c, d>> = <<a, b, c, d>>
<1>. DEFINE s == <<a>>
            t == <<b, c, d>>
            u == <<a, b, c, d>>
<1>1. s \in Seq({a}) /\ Len(s) = 1 /\ t \in Seq({b, c, d}) /\ Len(t) = 3
  OBVIOUS
<1>2. s[1] = u[1] /\ t[1] = u[2] /\ t[2] = u[3] /\ t[3] = u[4]
  OBVIOUS
<1>3. u = [i \in 1 .. 4 |-> u[i]]
  OBVIOUS
<1>4. s \o t = [i \in 1 .. 4 |-> IF i <= 1 THEN s[i] ELSE t[i - 1]]
  BY <1>1
<1>. HIDE DEF s, t, u
<1>5. s \o t = u
  BY <1>2, <1>3, <1>4
<1>. QED BY <1>5 DEF s, t, u

(***************************************************************************)
(* The reducer at the one instant of the recorder.                         *)
(***************************************************************************)
(* The point the next interval is measured from is stamped, and a receipt  *)
(* is attempted only after everything else.                                *)
Sound(s) ==
  /\ s.last_event_at \in {NoTime, 0}
  /\ \A p \in TimingPoints : s.at[p] \in {NoTime, 0}
  /\ s.state = "Queued" => s.at["queued_at"] = 0
  /\ s.state = "ResourceWait" => s.at["resource_wait_started_at"] = 0
  /\ s.state = "Setup" => s.at["setup_started_at"] = 0
  /\ s.state = "Running" => s.at["process_started_at"] = 0
  /\ s.state = "Cleanup" => s.at["process_finished_at"] = 0
  /\ s.state \notin {"ReleasePending", "ResourcesReleased"} => s.receipt = "none"

Heard(t) == t.ok /\ Sound(t.snap)

PoolKinds ==
  {"Queued", "EnteredResourceWait", "Admitted", "SetupStarted", "RunStarted", "ProcessFinished",
   "SetupFailed", "CleanupFinished", "ReceiptCreated", "ReceiptCreationFailed",
   "ResourcesReleased"}

LEMMA EventHeard ==
    ASSUME NEW t, Heard(t), NEW e, e.kind \in PoolKinds, e.at = 0,
           t.snap.state \in From(e.kind), PayloadValid(t.snap, e),
           e.kind = "ProcessFinished" => e.disposition # "SetupFailed"
    PROVE  /\ Heard(FeedOne(t, e))
           /\ FeedOne(t, e).snap.state = To(t.snap, e.kind)
           /\ FeedOne(t, e).snap.execution = ExecutionAfter(t.snap, e)
           /\ FeedOne(t, e).snap.receipt = ReceiptAfter(t.snap, e)
<1>. DEFINE s == t.snap
            r == Reduced(s, e)
<1>1. FeedOne(t, e).snap = r
  BY DEF FeedOne, Reduce, PoolKinds
<1>2. /\ r.state = To(s, e.kind) /\ r.execution = ExecutionAfter(s, e)
      /\ r.receipt = ReceiptAfter(s, e)
      /\ r.last_event_at = 0
      /\ \A p \in TimingPoints : r.at[p] = IF p \in Stamps(e.kind) THEN 0 ELSE s.at[p]
  BY DEF Reduced, Timed, PoolKinds
<1>3. IntervalsClose(s, e)
  <2>. SUFFICES ASSUME NEW p \in Closes(s, e.kind), ~MayLackStart(e.kind, p)
                PROVE  s.at[StartOf(p)] = 0
    <3>1. \A p \in Closes(s, e.kind) : StartOf(p) \in TimingPoints
      BY DEF Closes, StartOf, TimingPoints, PoolKinds
    <3>. QED BY <3>1 DEF IntervalsClose, Heard, Sound, NoTime
  <2>. QED BY DEF Closes, StartOf, MayLackStart, From, PreRun, PoolKinds, Heard, Sound
<1>4. Accepts(s, e)
  <2>1. s.state # "Absent"
    BY DEF From, PreRun, PoolKinds
  <2>2. Monotone(s, e)
    BY DEF Monotone, Heard, Sound, NoTime
  <2>3. Legal(s, e)
    BY DEF Legal, PoolKinds
  <2>. QED BY <2>1, <2>2, <2>3, <1>3 DEF Accepts, PoolKinds
<1>5. Sound(r)
  <2>. HIDE DEF r
  <2>1. \A p \in TimingPoints : r.at[p] \in {NoTime, 0}
    BY <1>2 DEF Heard, Sound
  <2>2. /\ r.state = "Queued" => r.at["queued_at"] = 0
        /\ r.state = "ResourceWait" => r.at["resource_wait_started_at"] = 0
        /\ r.state = "Setup" => r.at["setup_started_at"] = 0
        /\ r.state = "Running" => r.at["process_started_at"] = 0
        /\ r.state = "Cleanup" => r.at["process_finished_at"] = 0
    <3>1. /\ r.state = "Queued" => e.kind = "Queued"
          /\ r.state = "ResourceWait" => e.kind = "EnteredResourceWait"
          /\ r.state = "Setup" => e.kind = "SetupStarted"
          /\ r.state = "Running" => e.kind = "RunStarted"
          /\ r.state = "Cleanup" => e.kind = "ProcessFinished"
      BY <1>2 DEF To, PoolKinds
    <3>2. /\ e.kind = "Queued" => "queued_at" \in Stamps(e.kind)
          /\ e.kind = "EnteredResourceWait" => "resource_wait_started_at" \in Stamps(e.kind)
          /\ e.kind = "SetupStarted" => "setup_started_at" \in Stamps(e.kind)
          /\ e.kind = "RunStarted" => "process_started_at" \in Stamps(e.kind)
          /\ e.kind = "ProcessFinished" => "process_finished_at" \in Stamps(e.kind)
      BY DEF Stamps
    <3>. QED BY <1>2, <3>1, <3>2 DEF TimingPoints
  <2>3. r.state \notin {"ReleasePending", "ResourcesReleased"} => r.receipt = "none"
    BY <1>2 DEF To, From, ReceiptAfter, PoolKinds, PreRun, Heard, Sound
  <2>. QED BY <1>2, <2>1, <2>2, <2>3 DEF Sound
<1>6. FeedOne(t, e).ok
  BY <1>4 DEF FeedOne, Heard
<1>. HIDE DEF r
<1>. QED BY <1>1, <1>2, <1>5, <1>6 DEF Heard

LEMMA AdmissionHeard ==
    ASSUME NEW t, Heard(t), t.snap.state = "ResourceWait", NEW u \in Fed(t, AdmitAndSetup)
    PROVE  Heard(u) /\ u.snap.state = "Setup"
<1>. DEFINE a == [kind |-> "Admitted", at |-> 0,
                  reservations |-> <<[class |-> "Cpu", units |-> 1]>>]
            b == Event("SetupStarted")
<1>1. u = FeedOne(FeedOne(t, a), b)
  BY FedTwo DEF AdmitAndSetup
<1>2. PayloadValid(t.snap, a)
  BY DEF PayloadValid, ValidReservations
<1>3. Heard(FeedOne(t, a)) /\ FeedOne(t, a).snap.state = "Admitted"
  BY <1>2, EventHeard DEF PoolKinds, From, To
<1>. HIDE DEF a
<1>. QED BY <1>1, <1>3, EventHeard DEF Event, PayloadValid, PoolKinds, From, To

LEMMA StartHeard ==
    ASSUME NEW t, Heard(t), t.snap.state = "Setup", NEW u \in Fed(t, <<Event("RunStarted")>>)
    PROVE  Heard(u) /\ u.snap.state = "Running"
BY FedOne, EventHeard DEF Event, PayloadValid, PoolKinds, From, To

LEMMA ConclusionHeard ==
    ASSUME NEW t, Heard(t), t.snap.state = "Running", NEW d, d # "SetupFailed",
           NEW u \in Fed(t, <<Concluded(d)>>)
    PROVE  Heard(u) /\ u.snap.state = "Cleanup" /\ u.snap.execution = d
BY FedOne, EventHeard DEF Concluded, PayloadValid, PoolKinds, From, To, ExecutionAfter

LEMMA ClosingHeard ==
    ASSUME NEW t, Heard(t), NEW created \in BOOLEAN, NEW k,
           \/ k = "CleanupFinished" /\ t.snap.state = "Cleanup"
           \/ k = "SetupFailed" /\ t.snap.state = "Setup",
           NEW u \in Fed(t, <<Event(k)>> \o ReceiptEvents(created))
    PROVE  /\ Heard(u) /\ u.snap.state = "ResourcesReleased"
           /\ u.snap.receipt = "Created" <=> created
           /\ u.snap.execution = IF k = "SetupFailed" THEN k ELSE t.snap.execution
<1>. DEFINE a == Event(k)
            b == Event(IF created THEN "ReceiptCreated" ELSE "ReceiptCreationFailed")
            c == Event("ResourcesReleased")
            first == FeedOne(t, a)
            second == FeedOne(first, b)
<1>1. <<a>> \o ReceiptEvents(created) = <<a, b, c>>
  <2>1. ReceiptEvents(created) = <<b, c>>
    BY DEF ReceiptEvents
  <2>. HIDE DEF a, b, c
  <2>. QED BY <2>1, JoinedTwo
<1>2. u = FeedOne(second, c)
  <2>1. u \in Fed(t, <<a, b, c>>)
    BY <1>1
  <2>. HIDE DEF a, b, c
  <2>. QED BY <2>1, FedThree
<1>3. /\ Heard(first) /\ first.snap.state = "ReceiptPending"
      /\ first.snap.execution = IF k = "SetupFailed" THEN k ELSE t.snap.execution
  BY EventHeard DEF Event, PayloadValid, PoolKinds, From, To, PreRun, ExecutionAfter
<1>. HIDE DEF first
<1>4. /\ Heard(second) /\ second.snap.state = "ReleasePending"
      /\ second.snap.execution = first.snap.execution
      /\ second.snap.receipt = "Created" <=> created
  BY <1>3, EventHeard DEF Event, PayloadValid, PoolKinds, From, To, ExecutionAfter, ReceiptAfter
<1>. HIDE DEF second
<1>5. /\ Heard(u) /\ u.snap.state = "ResourcesReleased"
      /\ u.snap.execution = second.snap.execution /\ u.snap.receipt = second.snap.receipt
  BY <1>2, <1>4, EventHeard DEF Event, PayloadValid, PoolKinds, From, To, ExecutionAfter,
     ReceiptAfter
<1>. QED BY <1>3, <1>4, <1>5

\* A task that is proposed and queued waits for its resources.
LEMMA ProposalHeard ==
  /\ Heard(FeedOne(Unheard, ProposedNow))
  /\ FeedOne(Unheard, ProposedNow).snap.state = "Proposed"
BY DEF FeedOne, Unheard, ProposedNow, Reduce, Accepts, Proposal, NoSnapshot, Heard, Sound, NoTime

LEMMA SelectionHeard ==
    ASSUME NEW t, Heard(t), t.snap.state = "Proposed"
    PROVE  /\ Heard(FeedOne(t, [kind |-> "Selected"]))
           /\ FeedOne(t, [kind |-> "Selected"]).snap.state = "Selected"
<1>. DEFINE e == [kind |-> "Selected"]
            chosen == FeedOne(t, e)
            r == Reduced(t.snap, e)
<1>0. To(t.snap, e.kind) = "Selected" /\ Stamps(e.kind) = {} /\ ~Timed(e)
  BY DEF To, Stamps, Timed
<1>a. ReceiptAfter(t.snap, e) = t.snap.receipt
  BY DEF ReceiptAfter
<1>b. chosen.snap = r /\ e.kind = "Selected"
  BY DEF FeedOne, Reduce
<1>. HIDE DEF e
<1>c. /\ r.state = To(t.snap, e.kind) /\ r.receipt = ReceiptAfter(t.snap, e)
      /\ r.last_event_at = IF Timed(e) THEN e.at ELSE t.snap.last_event_at
      /\ r.at = [p \in TimingPoints |-> IF p \in Stamps(e.kind) THEN e.at ELSE t.snap.at[p]]
  BY DEF Reduced
<1>. HIDE DEF chosen, r
<1>1. /\ chosen.snap.state = "Selected"
      /\ chosen.snap.last_event_at = t.snap.last_event_at
      /\ chosen.snap.at = [p \in TimingPoints |-> t.snap.at[p]]
      /\ chosen.snap.receipt = t.snap.receipt
  BY <1>0, <1>a, <1>b, <1>c
<1>2. Sound(chosen.snap)
  BY <1>1 DEF Heard, Sound
<1>3. chosen.ok
  BY <1>b, ZenonT(60) DEF chosen, Heard, FeedOne, Accepts, Monotone, Timed, Legal, From,
     IntervalsClose, Closes, PayloadValid
<1>. QED BY <1>1, <1>2, <1>3 DEF Heard, chosen, e

Queueing == <<ProposedNow, [kind |-> "Selected"], Event("Queued"), Event("EnteredResourceWait")>>

LEMMA QueueingHeard ==
    ASSUME NEW u \in Fed(Unheard, Queueing)
    PROVE  Heard(u) /\ u.snap.state = "ResourceWait"
<1>. DEFINE first == FeedOne(Unheard, ProposedNow)
            chosen == FeedOne(first, [kind |-> "Selected"])
            queued == FeedOne(chosen, Event("Queued"))
<1>1. Heard(first) /\ first.snap.state = "Proposed"
  BY ProposalHeard
<1>. HIDE DEF first
<1>2. Heard(chosen) /\ chosen.snap.state = "Selected"
  BY <1>1, SelectionHeard
<1>. HIDE DEF chosen
<1>3. Heard(queued) /\ queued.snap.state = "Queued"
  BY <1>2, EventHeard DEF Event, PayloadValid, PoolKinds, From, To
<1>. HIDE DEF queued
<1>4. u = FeedOne(queued, Event("EnteredResourceWait"))
  BY FedFour DEF queued, chosen, first, Queueing
<1>. QED BY <1>3, <1>4, EventHeard DEF Event, PayloadValid, PoolKinds, From, To

\* A proposal may be declined at once.
LEMMA DecliningHeard ==
    ASSUME NEW t, Heard(t), t.snap.state = "Proposed", NEW d, d # "SatisfiedByExistingReceipt"
    PROVE  /\ Heard(FeedOne(t, DeclinedNow(d)))
           /\ FeedOne(t, DeclinedNow(d)).snap.state = "TerminallyDeclined"
<1>. DEFINE e == DeclinedNow(d)
            u == FeedOne(t, e)
            r == Reduced(t.snap, e)
<1>0. To(t.snap, e.kind) = "TerminallyDeclined" /\ Stamps(e.kind) = {} /\ Timed(e) /\ e.at = 0
  BY DEF To, Stamps, Timed, DeclinedNow
<1>a. ReceiptAfter(t.snap, e) = t.snap.receipt
  BY DEF ReceiptAfter, DeclinedNow
<1>b. u.snap = r
  BY DEF FeedOne, Reduce, DeclinedNow
<1>. HIDE DEF e
<1>c. /\ r.state = To(t.snap, e.kind) /\ r.receipt = ReceiptAfter(t.snap, e)
      /\ r.last_event_at = IF Timed(e) THEN e.at ELSE t.snap.last_event_at
      /\ r.at = [p \in TimingPoints |-> IF p \in Stamps(e.kind) THEN e.at ELSE t.snap.at[p]]
  BY DEF Reduced
<1>. HIDE DEF u, r
<1>1. /\ u.snap.state = "TerminallyDeclined" /\ u.snap.last_event_at = 0
      /\ u.snap.at = [p \in TimingPoints |-> t.snap.at[p]]
      /\ u.snap.receipt = t.snap.receipt
  BY <1>0, <1>a, <1>b, <1>c
<1>2. Accepts(t.snap, e)
  <2>1. Closes(t.snap, e.kind) = {}
    BY DEF Closes, DeclinedNow, e
  <2>2. Monotone(t.snap, e) /\ Legal(t.snap, e) /\ PayloadValid(t.snap, e)
    BY DEF Heard, Sound, Monotone, Legal, From, Unadmitted, PayloadValid, DeclinedNow, NoTime, e
  <2>. QED BY <2>1, <2>2 DEF Accepts, IntervalsClose, DeclinedNow, e
<1>3. u.ok
  BY <1>2 DEF Heard, FeedOne, u
<1>. QED BY <1>1, <1>3 DEF Heard, Sound, u, e

LEMMA RefusalHeard ==
    ASSUME NEW d, d # "SatisfiedByExistingReceipt",
           NEW u \in Fed(Unheard, <<ProposedNow, DeclinedNow(d)>>)
    PROVE  Heard(u) /\ u.snap.state = "TerminallyDeclined"
<1>. DEFINE first == FeedOne(Unheard, ProposedNow)
            e == DeclinedNow(d)
<1>. HIDE DEF first, e
<1>1. u = FeedOne(first, e)
  BY FedTwo DEF first, e
<1>. QED BY <1>1, ProposalHeard, DecliningHeard DEF first, e

\* A set of naturals that is not empty has a least element.
LEMMA LeastOne ==
    ASSUME NEW I \in SUBSET Nat, I # {}
    PROVE  \E i \in I : \A k \in I : i <= k
<1>. DEFINE R == {ss \in Nat \X Nat : ss[1] < ss[2]}
<1>1. IsWellFoundedOn(R, Nat)
  BY NatLessThanWellFounded, Zenon DEF OpToRel
<1>2. \A i, k \in Nat : <<k, i>> \in R <=> k < i
  BY Zenon
<1>. HIDE DEF R
<1>3. PICK i \in I : \A k \in I : ~(<<k, i>> \in R)
  BY <1>1, WFMin
<1>4. ASSUME NEW k \in I
      PROVE  i <= k
  <2>1. i \in Nat /\ k \in Nat
    OBVIOUS
  <2>2. ~(k < i)
    BY <1>2, <1>3, <2>1, Zenon
  <2>. QED BY <2>1, <2>2
<1>. QED BY <1>4

(***************************************************************************)
(* The same, event by event, for logs of any length: a log plays to m when *)
(* its replay, which is unique, ends there.                                *)
(***************************************************************************)
Plays(es, m) == \E h : IsReplay(h, Unheard, es) /\ h[Len(es)] = {m}

LEMMA ReplayUnique ==
    ASSUME NEW f, NEW S, NEW es \in Seq(S), NEW g, IsReplay(g, f, es),
           NEW h, IsReplay(h, f, es)
    PROVE  g[Len(es)] = h[Len(es)]
<1>. DEFINE differ == {n \in 0 .. Len(es) : g[n] # h[n]}
<1>0. Len(es) \in Nat /\ differ \subseteq Nat
  OBVIOUS
<1>1. /\ \A n \in 0 .. Len(es) : g[n] = IF n = 0 THEN {f} ELSE FeedEach(g[n - 1], es[n])
      /\ \A n \in 0 .. Len(es) : h[n] = IF n = 0 THEN {f} ELSE FeedEach(h[n - 1], es[n])
  BY DEF IsReplay
<1>2. ASSUME NEW n \in differ, \A k \in differ : n <= k
      PROVE  FALSE
  <2>1. n \in 0 .. Len(es) /\ g[n] # h[n]
    OBVIOUS
  <2>2. n # 0
    BY <1>1, <2>1
  <2>3. n - 1 \in 0 .. Len(es) /\ ~(n <= n - 1)
    BY <1>0, <2>1, <2>2
  <2>4. g[n - 1] = h[n - 1]
    BY <1>2, <2>3
  <2>. QED BY <1>1, <2>1, <2>2, <2>4
<1>. HIDE DEF differ
<1>3. differ = {}
  BY <1>0, <1>2, LeastOne
<1>. QED BY <1>0, <1>3 DEF differ

LEMMA PlaysIsFed ==
    ASSUME NEW S, NEW es \in Seq(S), NEW m, Plays(es, m)
    PROVE  Fed(Unheard, es) = {m}
<1>1. PICK g : IsReplay(g, Unheard, es) /\ g[Len(es)] = {m}
  BY DEF Plays
<1>2. PICK h : IsReplay(h, Unheard, es) /\ Fed(Unheard, es) = h[Len(es)]
  BY <1>1, FedIsReplay
<1>. QED BY <1>1, <1>2, ReplayUnique

LEMMA PlaysNothing == Plays(<< >>, Unheard)
<1>. DEFINE g == [n \in 0 .. 0 |-> {Unheard}]
<1>1. IsReplay(g, Unheard, << >>) /\ g[Len(<< >>)] = {Unheard}
  BY DEF IsReplay
<1>. QED BY <1>1 DEF Plays

LEMMA PlaysOn ==
    ASSUME NEW S, NEW es \in Seq(S), NEW e \in S, NEW m, Plays(es, m)
    PROVE  Plays(Append(es, e), FeedOne(m, e))
<1>1. PICK h : IsReplay(h, Unheard, es) /\ h[Len(es)] = {m}
  BY DEF Plays
<1>. DEFINE n == Len(es)
            us == Append(es, e)
            last == {FeedOne(m, e)}
            g == [k \in 0 .. n + 1 |-> IF k = n + 1 THEN last ELSE h[k]]
<1>2. n \in Nat /\ Len(us) = n + 1 /\ us[n + 1] = e /\ \A k \in 1 .. n : us[k] = es[k]
  OBVIOUS
<1>3. \A k \in 0 .. n : h[k] = IF k = 0 THEN {Unheard} ELSE FeedEach(h[k - 1], es[k])
  BY <1>1 DEF IsReplay
<1>4. last = FeedEach(h[n], e)
  BY <1>1 DEF FeedEach
<1>. HIDE DEF last, us, n
<1>5. ASSUME NEW k \in 0 .. n + 1
      PROVE  g[k] = IF k = 0 THEN {Unheard} ELSE FeedEach(g[k - 1], us[k])
  <2>1. CASE k = n + 1
    <3>1. g[k] = last /\ g[k - 1] = h[n] /\ us[k] = e /\ k # 0
      BY <1>2, <2>1
    <3>. QED BY <1>4, <3>1
  <2>2. CASE k \in 1 .. n
    <3>1. g[k] = h[k] /\ g[k - 1] = h[k - 1] /\ us[k] = es[k] /\ k # 0
      BY <1>2, <2>2
    <3>. QED BY <1>3, <2>2, <3>1
  <2>3. CASE k = 0
    BY <1>2, <1>3, <2>3
  <2>. QED BY <1>2, <2>1, <2>2, <2>3
<1>6. g = [k \in 0 .. n + 1 |-> IF k = 0 THEN {Unheard} ELSE FeedEach(g[k - 1], us[k])]
  <2>1. g = [k \in 0 .. n + 1 |-> g[k]]
    OBVIOUS
  <2>. HIDE DEF g
  <2>. QED BY <1>5, <2>1
<1>7. g[n + 1] = last
  BY <1>2
<1>. HIDE DEF g
<1>8. IsReplay(g, Unheard, us) /\ g[Len(us)] = last
  BY <1>2, <1>6, <1>7 DEF IsReplay
<1>. QED BY <1>8 DEF Plays, us, last

--------------------------------------------------------------------------------
(***************************************************************************)
(* The events of a log, as a set.                                          *)
(***************************************************************************)
\* What may be appended.
EventKinds == {"Queued", "EnteredResourceWait", "SetupStarted", "SetupFailed", "RunStarted",
               "CleanupFinished", "ReceiptCreated", "ReceiptCreationFailed", "ResourcesReleased"}
Dispositions == {"Succeeded", "DeterministicFailure", "TimedOut", "Cancelled", "Unsupported",
                 "Refused", "BudgetDeferred", "Superseded"}
TaskEvent == {Event(k) : k \in EventKinds} \cup {Concluded(d) : d \in Dispositions}
           \cup {DeclinedNow(d) : d \in Dispositions}
           \cup {ProposedNow, [kind |-> "Selected"], AdmitAndSetup[1]}

\* Appending adds the events appended.
LEMMA Appending ==
  ASSUME NEW s \in Seq(TaskEvent), NEW u \in Seq(TaskEvent)
  PROVE  s \o u \in Seq(TaskEvent) /\ ToSet(s \o u) = ToSet(s) \cup ToSet(u)
<1>1. s \o u \in Seq(TaskEvent) /\ Len(s \o u) = Len(s) + Len(u)
  OBVIOUS
<1>2. \A i \in 1 .. Len(s) + Len(u) :
        (s \o u)[i] = IF i <= Len(s) THEN s[i] ELSE u[i - Len(s)]
  OBVIOUS
<1>3. ASSUME NEW i \in DOMAIN s PROVE s[i] \in ToSet(s \o u)
  BY <1>1, <1>2 DEF ToSet
<1>4. ASSUME NEW i \in DOMAIN u PROVE u[i] \in ToSet(s \o u)
  <2>1. i + Len(s) \in DOMAIN (s \o u) /\ (s \o u)[i + Len(s)] = u[i]
    BY <1>1, <1>2
  <2> QED BY <2>1 DEF ToSet
<1>5. ASSUME NEW i \in DOMAIN (s \o u) PROVE (s \o u)[i] \in ToSet(s) \cup ToSet(u)
  BY <1>1, <1>2 DEF ToSet
<1> QED BY <1>1, <1>3, <1>4, <1>5 DEF ToSet

\* The lists that are appended.
LEMMA EventLists ==
  /\ << >> \in Seq(TaskEvent) /\ ToSet(<< >>) = {}
  /\ \A e \in TaskEvent : <<e>> \in Seq(TaskEvent) /\ ToSet(<<e>>) = {e}
  /\ \A e, f \in TaskEvent : <<e, f>> \in Seq(TaskEvent) /\ ToSet(<<e, f>>) = {e, f}
BY DEF ToSet

LEMMA TaskEventsAre ==
  /\ ProposedNow \in TaskEvent /\ [kind |-> "Selected"] \in TaskEvent
  /\ AdmitAndSetup[1] \in TaskEvent /\ AdmitAndSetup[2] \in TaskEvent
  /\ \A k \in EventKinds : Event(k) \in TaskEvent
  /\ \A d \in Dispositions : Concluded(d) \in TaskEvent /\ DeclinedNow(d) \in TaskEvent
<1>1. \A k \in EventKinds : Event(k) \in TaskEvent
  BY Zenon DEF TaskEvent
<1>2. AdmitAndSetup[2] = Event("SetupStarted")
  BY DEF AdmitAndSetup
<1>3. ProposedNow \in TaskEvent /\ [kind |-> "Selected"] \in TaskEvent /\ AdmitAndSetup[1] \in TaskEvent
  BY Zenon DEF TaskEvent
<1>4. AdmitAndSetup[2] \in TaskEvent
  BY <1>1, <1>2 DEF EventKinds
<1>5. \A d \in Dispositions : Concluded(d) \in TaskEvent /\ DeclinedNow(d) \in TaskEvent
  BY Zenon DEF TaskEvent
<1> QED BY <1>1, <1>3, <1>4, <1>5

LEMMA KindsOfEvents ==
  /\ ProposedNow.kind = "Proposed" /\ AdmitAndSetup[1].kind = "Admitted"
  /\ AdmitAndSetup[2] = Event("SetupStarted")
  /\ \A k : Event(k).kind = k /\ Concluded(k).kind = "ProcessFinished"
            /\ Concluded(k).disposition = k /\ DeclinedNow(k).kind = "TerminallyDeclined"
BY DEF ProposedNow, AdmitAndSetup, Event, Concluded, DeclinedNow

LEMMA BeganList ==
  LET es == Queueing \o AdmitAndSetup
  IN /\ es \in Seq(TaskEvent)
     /\ \A e \in ToSet(es) : e.kind \notin {"ReceiptCreated", "ProcessFinished", "ResourcesReleased"}
<1> DEFINE s == <<ProposedNow, [kind |-> "Selected"], Event("Queued"),
                  Event("EnteredResourceWait")>>
<1>1. \A a, b, c, d \in TaskEvent :
        <<a, b, c, d>> \in Seq(TaskEvent) /\ ToSet(<<a, b, c, d>>) = {a, b, c, d}
  BY DEF ToSet
<1>2. s \in Seq(TaskEvent) /\ ToSet(s) = {ProposedNow, [kind |-> "Selected"], Event("Queued"),
                                      Event("EnteredResourceWait")}
  <2>1. Event("Queued") \in TaskEvent /\ Event("EnteredResourceWait") \in TaskEvent
    BY TaskEventsAre DEF EventKinds
  <2>2. ProposedNow \in TaskEvent /\ [kind |-> "Selected"] \in TaskEvent
    BY TaskEventsAre
  <2> HIDE DEF s
  <2>3. ASSUME NEW a \in TaskEvent, NEW b \in TaskEvent, NEW c \in TaskEvent, NEW d \in TaskEvent,
               s = <<a, b, c, d>>
        PROVE  s \in Seq(TaskEvent) /\ ToSet(s) = {a, b, c, d}
    BY <1>1, <2>3
  <2> QED BY <2>1, <2>2, <2>3 DEF s
<1>3. \A e \in ToSet(s) : e.kind \notin {"ReceiptCreated", "ProcessFinished", "ResourcesReleased"}
  BY <1>2, KindsOfEvents
<1>4. AdmitAndSetup = <<AdmitAndSetup[1], AdmitAndSetup[2]>>
  BY DEF AdmitAndSetup
<1>5. AdmitAndSetup \in Seq(TaskEvent) /\ ToSet(AdmitAndSetup) = {AdmitAndSetup[1], AdmitAndSetup[2]}
  BY <1>4, TaskEventsAre, EventLists
<1>6. \A e \in ToSet(AdmitAndSetup) : e.kind \notin {"ReceiptCreated", "ProcessFinished", "ResourcesReleased"}
  BY <1>5, KindsOfEvents
<1> QED BY <1>2, <1>3, <1>5, <1>6, Appending, ZenonT(60) DEF Queueing

--------------------------------------------------------------------------------
(***************************************************************************)
(* Where a log leaves its task: no event of it is refused, and the last    *)
(* leads to st.                                                            *)
(***************************************************************************)
Reaches(es, st) == \E m : Plays(es, m) /\ Heard(m) /\ m.snap.state = st

LEMMA Appended ==
    ASSUME NEW S, NEW es \in Seq(S), NEW e \in S, NEW u \in S
    PROVE  es \o <<e>> = Append(es, e) /\ es \o <<e, u>> = Append(Append(es, e), u)
<1>0. \A t \in Seq(S) :
        /\ es \o t \in Seq(S) /\ Len(es \o t) = Len(es) + Len(t)
        /\ \A i \in 1 .. Len(es) + Len(t) : (es \o t)[i] = IF i <= Len(es) THEN es[i] ELSE t[i - Len(es)]
  OBVIOUS
<1>. DEFINE n == Len(es)
            one == <<e>>
            two == <<e, u>>
            longer == Append(es, e)
            longest == Append(longer, u)
<1>1. /\ one \in Seq(S) /\ Len(one) = 1 /\ one[1] = e
      /\ two \in Seq(S) /\ Len(two) = 2 /\ two[1] = e /\ two[2] = u
  OBVIOUS
<1>2. /\ n \in Nat /\ longer \in Seq(S) /\ Len(longer) = n + 1 /\ longer[n + 1] = e
      /\ \A i \in 1 .. n : longer[i] = es[i]
  OBVIOUS
<1>. HIDE DEF longer, one, two
<1>3. /\ longest \in Seq(S) /\ Len(longest) = n + 2 /\ longest[n + 2] = u
      /\ \A i \in 1 .. n + 1 : longest[i] = longer[i]
  BY <1>2
<1>. HIDE DEF longest
<1>4. /\ es \o one \in Seq(S) /\ Len(es \o one) = n + 1
      /\ \A i \in 1 .. n + 1 : (es \o one)[i] = IF i <= n THEN es[i] ELSE one[i - n]
      /\ es \o two \in Seq(S) /\ Len(es \o two) = n + 2
      /\ \A i \in 1 .. n + 2 : (es \o two)[i] = IF i <= n THEN es[i] ELSE two[i - n]
  BY <1>0, <1>1
<1>. HIDE DEF n
<1>5. ASSUME NEW i \in 1 .. n + 1
      PROVE  (es \o one)[i] = longer[i]
  <2>1. CASE i = n + 1
    <3>1. ~(i <= n) /\ i - n = 1
      BY <1>2, <2>1
    <3>2. (es \o one)[i] = one[1]
      BY <1>4, <3>1, Zenon
    <3>. QED BY <1>1, <1>2, <2>1, <3>2, Zenon
  <2>2. CASE i \in 1 .. n
    BY <1>1, <1>2, <1>4, <2>2
  <2>3. i = n + 1 \/ i \in 1 .. n
    BY <1>2
  <2>. QED BY <2>1, <2>2, <2>3
<1>6. ASSUME NEW i \in 1 .. n + 2
      PROVE  (es \o two)[i] = longest[i]
  <2>1. CASE i = n + 2
    <3>1. ~(i <= n) /\ i - n = 2
      BY <1>2, <2>1
    <3>2. (es \o two)[i] = two[2]
      BY <1>4, <3>1, Zenon
    <3>. QED BY <1>1, <1>3, <2>1, <3>2, Zenon
  <2>2. CASE i = n + 1
    <3>1. ~(i <= n) /\ i - n = 1 /\ i \in 1 .. n + 1
      BY <1>2, <2>2
    <3>2. (es \o two)[i] = two[1]
      BY <1>4, <3>1, Zenon
    <3>3. longest[i] = longer[i]
      BY <1>3, <3>1, Zenon
    <3>. QED BY <1>1, <1>2, <2>2, <3>2, <3>3, Zenon
  <2>3. CASE i \in 1 .. n
    <3>1. i <= n /\ i \in 1 .. n + 1
      BY <1>2, <2>3
    <3>2. (es \o two)[i] = es[i]
      BY <1>4, <3>1, Zenon
    <3>3. longest[i] = longer[i]
      BY <1>3, <3>1, Zenon
    <3>. QED BY <1>2, <2>3, <3>2, <3>3, Zenon
  <2>4. i = n + 2 \/ i = n + 1 \/ i \in 1 .. n
    BY <1>2
  <2>. QED BY <2>1, <2>2, <2>3, <2>4
<1>7. \A s, t \in Seq(S) : Len(s) = Len(t) /\ (\A i \in 1 .. Len(s) : s[i] = t[i]) => s = t
  OBVIOUS
<1>8. es \o one = longer
  BY <1>2, <1>4, <1>5, <1>7
<1>9. es \o two = longest
  BY <1>2, <1>3, <1>4, <1>6, <1>7
<1>. QED BY <1>8, <1>9 DEF longer, longest, one, two, n

LEMMA ReachesOn ==
    ASSUME NEW S, NEW es \in Seq(S), NEW e \in S, NEW st, Reaches(es, st),
           e.kind \in PoolKinds \ {"Admitted"}, e.at = 0, st \in From(e.kind),
           e.kind = "ProcessFinished" => e.disposition # "SetupFailed"
    PROVE  Reaches(Append(es, e), To([state |-> st], e.kind))
<1>1. PICK m : Plays(es, m) /\ Heard(m) /\ m.snap.state = st
  BY DEF Reaches
<1>2. PayloadValid(m.snap, e)
  BY DEF PayloadValid, PoolKinds
<1>3. Heard(FeedOne(m, e)) /\ FeedOne(m, e).snap.state = To(m.snap, e.kind)
  BY <1>1, <1>2, EventHeard
<1>4. To(m.snap, e.kind) = To([state |-> st], e.kind)
  BY DEF To, PoolKinds
<1>5. Plays(Append(es, e), FeedOne(m, e))
  BY <1>1, PlaysOn
<1>. QED BY <1>3, <1>4, <1>5 DEF Reaches

\* What each list of events the recorder is given leads to.
LEMMA ReachesSetup == Reaches(Queueing \o AdmitAndSetup, "Setup")
<1>. DEFINE P == ProposedNow
            C == [kind |-> "Selected"]
            Q == Event("Queued")
            W == Event("EnteredResourceWait")
            A == AdmitAndSetup[1]
            U == Event("SetupStarted")
            S == {P, C, Q, W, A, U}
            m == FeedOne(FeedOne(FeedOne(FeedOne(Unheard, P), C), Q), W)
<1>1. Queueing \in Seq(S) /\ A \in S /\ U \in S
  BY DEF Queueing
<1>2. AdmitAndSetup = <<A, U>>
  BY DEF AdmitAndSetup
<1>3. Plays(Queueing, m)
  <2>. HIDE DEF P, C, Q, W
  <2>. DEFINE f0 == Unheard
              f1 == FeedOne(f0, P)
              f2 == FeedOne(f1, C)
              f3 == FeedOne(f2, Q)
              f4 == FeedOne(f3, W)
              g == [n \in 0 .. 4 |->
                      IF n = 0 THEN {f0} ELSE IF n = 1 THEN {f1} ELSE
                      IF n = 2 THEN {f2} ELSE IF n = 3 THEN {f3} ELSE {f4}]
  <2>1. {f1} = FeedEach({f0}, P) /\ {f2} = FeedEach({f1}, C) /\ {f3} = FeedEach({f2}, Q)
          /\ {f4} = FeedEach({f3}, W)
    BY DEF FeedEach
  <2>. HIDE DEF f0, f1, f2, f3, f4
  <2>2. IsReplay(g, f0, <<P, C, Q, W>>) /\ g[Len(<<P, C, Q, W>>)] = {f4}
    BY <2>1 DEF IsReplay
  <2>. QED BY <2>2 DEF Plays, Queueing, P, C, Q, W, f0, f1, f2, f3, f4
<1>4. Heard(m) /\ m.snap.state = "ResourceWait"
  <2>1. m \in Fed(Unheard, Queueing)
    BY <1>1, <1>3, PlaysIsFed
  <2>. HIDE DEF m
  <2>. QED BY <2>1, QueueingHeard
<1>5. Fed(m, AdmitAndSetup) = {FeedOne(FeedOne(m, A), U)}
  BY <1>2, FedTwo
<1>. HIDE DEF m, A, U, S
<1>6. /\ Heard(FeedOne(FeedOne(m, A), U))
      /\ FeedOne(FeedOne(m, A), U).snap.state = "Setup"
  BY <1>4, <1>5, AdmissionHeard
<1>7. Plays(Append(Append(Queueing, A), U), FeedOne(FeedOne(m, A), U))
  <2>1. Append(Queueing, A) \in Seq(S)
    BY <1>1
  <2>2. Plays(Append(Queueing, A), FeedOne(m, A))
    BY <1>1, <1>3, PlaysOn
  <2>. QED BY <1>1, <2>1, <2>2, PlaysOn
<1>8. Queueing \o AdmitAndSetup = Append(Append(Queueing, A), U)
  BY <1>1, <1>2, Appended
<1>. QED BY <1>6, <1>7, <1>8 DEF Reaches

LEMMA ReachesRefusal ==
    ASSUME NEW d \in Dispositions
    PROVE  Reaches(<<ProposedNow, DeclinedNow(d)>>, "TerminallyDeclined")
<1>. DEFINE P == ProposedNow
            D == DeclinedNow(d)
            m == FeedOne(FeedOne(Unheard, P), D)
<1>1. Plays(<<P, D>>, m)
  <2>. DEFINE f1 == FeedOne(Unheard, P)
              g == [n \in 0 .. 2 |->
                      IF n = 0 THEN {Unheard} ELSE IF n = 1 THEN {f1} ELSE {m}]
  <2>1. {f1} = FeedEach({Unheard}, P) /\ {m} = FeedEach({f1}, D)
    BY DEF FeedEach
  <2>. HIDE DEF f1, P, D, m
  <2>2. IsReplay(g, Unheard, <<P, D>>) /\ g[Len(<<P, D>>)] = {m}
    BY <2>1 DEF IsReplay
  <2>. QED BY <2>2 DEF Plays
<1>2. d # "SatisfiedByExistingReceipt"
  BY DEF Dispositions
<1>3. Heard(m) /\ m.snap.state = "TerminallyDeclined"
  BY <1>2, ProposalHeard, DecliningHeard
<1>. HIDE DEF m
<1>. QED BY <1>1, <1>3 DEF Reaches

LEMMA ReachesNext ==
    ASSUME NEW es \in Seq(TaskEvent)
    PROVE  /\ Reaches(es, "Setup") => /\ Reaches(es \o <<Event("RunStarted")>>, "Running")
                                      /\ Reaches(es \o <<Event("SetupFailed")>>, "ReceiptPending")
           /\ \A d \in Dispositions :
                Reaches(es, "Running") => Reaches(es \o <<Concluded(d)>>, "Cleanup")
           /\ Reaches(es, "Cleanup") => Reaches(es \o <<Event("CleanupFinished")>>, "ReceiptPending")
<1>1. /\ Event("RunStarted") \in TaskEvent /\ Event("SetupFailed") \in TaskEvent
      /\ Event("CleanupFinished") \in TaskEvent
  BY TaskEventsAre DEF EventKinds
<1>2. ASSUME NEW e \in TaskEvent
      PROVE  es \o <<e>> = Append(es, e)
  BY Appended
<1>3. /\ Reaches(es, "Setup") => Reaches(Append(es, Event("RunStarted")), "Running")
      /\ Reaches(es, "Setup") => Reaches(Append(es, Event("SetupFailed")), "ReceiptPending")
      /\ Reaches(es, "Cleanup") => Reaches(Append(es, Event("CleanupFinished")), "ReceiptPending")
  BY <1>1, ReachesOn DEF Event, PoolKinds, From, PreRun, To
<1>4. ASSUME NEW d \in Dispositions, Reaches(es, "Running")
      PROVE  Reaches(Append(es, Concluded(d)), "Cleanup")
  <2>1. Concluded(d) \in TaskEvent /\ d # "SetupFailed"
    BY TaskEventsAre DEF Dispositions
  <2>. QED BY <1>4, <2>1, ReachesOn DEF Concluded, PoolKinds, From, To
<1>. QED BY <1>1, <1>2, <1>3, <1>4, TaskEventsAre

LEMMA ReachesRelease ==
    ASSUME NEW es \in Seq(TaskEvent), NEW created \in BOOLEAN, Reaches(es, "ReceiptPending")
    PROVE  Reaches(es \o ReceiptEvents(created), "ResourcesReleased")
<1>. DEFINE e == Event(IF created THEN "ReceiptCreated" ELSE "ReceiptCreationFailed")
            u == Event("ResourcesReleased")
            longer == Append(es, e)
<1>1. e \in TaskEvent /\ u \in TaskEvent
  BY TaskEventsAre DEF EventKinds
<1>2. Reaches(longer, "ReleasePending")
  BY <1>1, ReachesOn DEF Event, PoolKinds, From, To
<1>3. longer \in Seq(TaskEvent)
  BY <1>1
<1>4. e.at = 0 /\ u.kind = "ResourcesReleased" /\ u.at = 0
  BY DEF Event
<1>5. ReceiptEvents(created) = <<e, u>>
  BY DEF ReceiptEvents
<1>. HIDE DEF e, u, longer
<1>6. To([state |-> "ReleasePending"], u.kind) = "ResourcesReleased"
  BY <1>4 DEF To
<1>7. u.kind \in PoolKinds \ {"Admitted"} /\ "ReleasePending" \in From(u.kind)
  BY <1>4 DEF PoolKinds, From
<1>8. Reaches(Append(longer, u), "ResourcesReleased")
  BY <1>1, <1>2, <1>3, <1>4, <1>6, <1>7, ReachesOn
<1>9. es \o <<e, u>> = Append(longer, u)
  BY <1>1, Appended DEF longer
<1>. QED BY <1>5, <1>8, <1>9

\* Such a log is accepted by the writer of the ledger.
LEMMA ReachesReplays ==
    ASSUME NEW es \in Seq(TaskEvent), NEW st \in {"ResourcesReleased", "TerminallyDeclined"},
           Reaches(es, st)
    PROVE  \E f \in Fed(Unheard, es) : f.ok /\ Settled(f)
<1>1. PICK m : Plays(es, m) /\ Heard(m) /\ m.snap.state = st
  BY DEF Reaches
<1>2. Fed(Unheard, es) = {m}
  BY <1>1, PlaysIsFed
<1>. QED BY <1>1, <1>2 DEF Heard, Settled

================================================================================

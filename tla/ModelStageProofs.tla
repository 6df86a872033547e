---------------------------- MODULE ModelStageProofs ----------------------------
(***************************************************************************)
(* The reporter's authority and the model calls of a run, for every        *)
(* invocation, provider policy, budget and list of questions; and what     *)
(* becomes of the findings that the models raise, whatever they are.       *)
(*                                                                         *)
(* AuthorityInv follows thread.json: from the start of the coordination    *)
(* on, while nothing has failed, it is absent or names the last turn this  *)
(* run attempted.  WaveInv says where each review lane is while the waves  *)
(* go on, and what has been counted against the budget.  FlowInv says      *)
(* where each finding is at each stage between the lanes and the review.   *)
(***************************************************************************)
EXTENDS ModelStage, FindingFlow, FiniteSetTheorems, NaturalsInduction, SequenceTheorems, WellFoundedInduction, TLAPS

WaveStages == {"preflight", "wave", "running", "planner", "refuter", "reporter"}

\* thread.json grants this run's last turn authority, or none.
Bound == \/ disk.rollup.run = "none"
         \/ disk.rollup.run = "new" /\ disk.rollup.turn + 1 = turns

AuthorityInv ==
  /\ AuthorityCurrent
  /\ stage \in WaveStages \cup {"distill", "questions", "finalize"} => resolution = Unresolved
  /\ stage \in WaveStages => turns = 0 /\ error = FALSE
  /\ stage = "distill" => disk = Cleared /\ turns = 0 /\ error = FALSE
  /\ stage = "questions" =>
       turns = 1 /\ error = FALSE /\ disk.rollup = [run |-> "new", turn |-> 0]
  /\ stage = "finalize" => error = TRUE \/ Bound

LEMMA AuthorityInit == Init => AuthorityInv
BY DEF Init, WaveInit, AuthorityInv, AuthorityCurrent, Unresolved, WaveStages

\* The passes before the reporter leave its state alone.
LEMMA WaveKeeps ==
  ASSUME AuthorityInv, stage \in WaveStages \ {"reporter"},
         stage' \in WaveStages \cup {"aborted"}, UNCHANGED reporterVars
  PROVE  AuthorityInv'
BY DEF AuthorityInv, AuthorityCurrent, WaveStages, reporterVars

\* The follow-up passes leave the decision alone.
LEMMA LaterKeeps ==
  ASSUME AuthorityInv, stage \in {"followup", "reconsider"},
         stage' \in {"followup", "reconsider", "done", "aborted"},
         UNCHANGED <<turns, resolution>>
  PROVE  AuthorityInv'
BY DEF AuthorityInv, AuthorityCurrent, WaveStages

\* What the first and the second turn leave on disk.
LEMMA FirstTurn == disk = Cleared => Written(0).rollup = [run |-> "new", turn |-> 0]
BY DEF Cleared, Written, NoTurns

LEMMA SecondTurn == Written(1).rollup = [run |-> "new", turn |-> 1]
BY DEF Written

\* A failed write leaves no authority, and an error.
LEMMA FailedWrite ==
  ASSUME NEW n, Unwritten(n)
  PROVE  stage' = "finalize" /\ error' = TRUE
BY DEF Unwritten, Coordinated

\* Once the coordination is over, only an error or a bound rollup is left.
LEMMA CoordinationEnds ==
  ASSUME stage' = "finalize", resolution = Unresolved, UNCHANGED resolution,
         error' = TRUE \/ Bound'
  PROVE  AuthorityInv'
BY DEF AuthorityInv, AuthorityCurrent, Unresolved, WaveStages

LEMMA AuthorityStep == AuthorityInv /\ [Next]_vars => AuthorityInv'
<1> SUFFICES ASSUME AuthorityInv, [Next]_vars PROVE AuthorityInv'
  OBVIOUS
<1>1. CASE WaveNext /\ UNCHANGED reporterVars
  <2>1. stage \in {"preflight", "wave", "running"} /\ stage' \in WaveStages
    BY <1>1 DEF WaveNext, Preflights, StartWave, EndWave, Sweep, WaveStages
  <2> QED BY <1>1, <2>1, WaveKeeps DEF WaveStages
<1>2. CASE Planner \/ NoPlanner \/ Refuter
  <2>1. stage \in {"planner", "refuter"} /\ stage' \in WaveStages
    BY <1>2 DEF Planner, NoPlanner, Refuter, WaveStages
  <2>2. UNCHANGED reporterVars
    BY <1>2 DEF Planner, NoPlanner, Refuter, Fixed, reporterVars
  <2> QED BY <2>1, <2>2, WaveKeeps DEF WaveStages
<1>3. CASE Prepare
  <2>1. stage = "reporter" /\ resolution = Unresolved /\ turns = 0 /\ error = FALSE
    BY <1>3 DEF Prepare, AuthorityInv, WaveStages
  <2>2. UNCHANGED <<turns, resolution>>
    BY <1>3 DEF Prepare
  <2>3. CASE stage' = "finalize"
    <3>1. error' = TRUE \/ Bound'
      BY <1>3, <2>1, <2>3 DEF Prepare, Coordinated, Cleared, NoRollup, Bound
    <3> QED BY <2>1, <2>2, <2>3, <3>1, CoordinationEnds
  <2>4. CASE stage' = "distill" /\ disk' = Cleared /\ error' = error
    BY <2>1, <2>2, <2>4 DEF AuthorityInv, AuthorityCurrent, Unresolved, WaveStages
  <2> QED BY <1>3, <2>3, <2>4 DEF Prepare, Coordinated
<1>4. CASE Distill
  <2>1. /\ stage = "distill" /\ resolution = Unresolved /\ UNCHANGED resolution
        /\ disk = Cleared /\ error = FALSE
    BY <1>4 DEF Distill, AuthorityInv
  <2>2. CASE UNCHANGED disk /\ stage' = "finalize"
    <3>1. Bound'
      BY <2>1, <2>2 DEF Bound, Cleared, NoRollup
    <3> QED BY <2>1, <2>2, <3>1, CoordinationEnds
  <2>3. CASE Unwritten(0)
    BY <2>1, <2>3, FailedWrite, CoordinationEnds
  <2>4. CASE disk' = Written(0) /\ stage' = "questions" /\ turns' = 1 /\ UNCHANGED error
    BY <2>1, <2>4, FirstTurn DEF AuthorityInv, AuthorityCurrent, Unresolved, WaveStages
  <2> QED BY <1>4, <2>2, <2>3, <2>4 DEF Distill, Coordinated
<1>5. CASE Question
  BY <1>5 DEF Question, AuthorityInv, AuthorityCurrent, WaveStages, Bound
<1>6. CASE Redistill
  <2>1. /\ stage = "questions" /\ resolution = Unresolved /\ UNCHANGED resolution
        /\ turns = 1 /\ disk.rollup = [run |-> "new", turn |-> 0]
    BY <1>6 DEF Redistill, AuthorityInv
  <2>2. CASE ~Redistills
    <3>1. stage' = "finalize" /\ UNCHANGED <<disk, turns>>
      BY <1>6, <2>2 DEF Redistill, Coordinated
    <3>2. Bound'
      BY <2>1, <3>1 DEF Bound
    <3> QED BY <2>1, <3>1, <3>2, CoordinationEnds
  <2>3. CASE Redistills
    <3>1. turns' = 2
      BY <1>6, <2>3 DEF Redistill
    <3>2. \/ Coordinated(TRUE) \/ Unwritten(1)
          \/ disk' = Written(1) /\ Coordinated(FALSE)
      BY <1>6, <2>3 DEF Redistill
    <3>3. CASE Coordinated(TRUE) \/ Unwritten(1)
      BY <2>1, <3>3, FailedWrite, CoordinationEnds DEF Coordinated
    <3>4. CASE disk' = Written(1) /\ Coordinated(FALSE)
      <4>1. Bound'
        BY <3>1, <3>4, SecondTurn DEF Bound
      <4> QED BY <2>1, <3>4, <4>1, CoordinationEnds DEF Coordinated
    <3> QED BY <3>2, <3>3, <3>4
  <2> QED BY <2>2, <2>3
<1>7. CASE Finalize
  <2>1. /\ stage = "finalize" /\ stage' = "followup" /\ resolution' = Resolved
        /\ UNCHANGED turns /\ (error = TRUE \/ Bound)
    BY <1>7 DEF Finalize, AuthorityInv
  <2>2. CASE error = TRUE
    BY <2>1, <2>2 DEF Resolved, Unresolved, AuthorityInv, AuthorityCurrent, WaveStages
  <2>3. CASE error # TRUE /\ disk.rollup.run = "none"
    BY <2>1, <2>3 DEF Resolved, OnDisk, Unresolved, AuthorityInv, AuthorityCurrent, WaveStages
  <2>4. CASE error # TRUE /\ disk.rollup.run = "new" /\ disk.rollup.turn + 1 = turns
    BY <2>1, <2>4 DEF Resolved, OnDisk, Unresolved, AuthorityInv, AuthorityCurrent, WaveStages
  <2> QED BY <2>1, <2>2, <2>3, <2>4 DEF Bound
<1>8. CASE FollowUp \/ FollowedUp \/ Reconsider
  <2>1. /\ stage \in {"followup", "reconsider"} /\ stage' \in {"followup", "reconsider", "done"}
        /\ UNCHANGED <<turns, resolution>>
    BY <1>8 DEF FollowUp, FollowedUp, Reconsider
  <2> QED BY <2>1, LaterKeeps
<1>9. CASE Abort
  BY <1>9 DEF Abort, reporterVars, AuthorityInv, AuthorityCurrent, WaveStages
<1>10. CASE UNCHANGED vars
  BY <1>10 DEF vars, waveVars, reporterVars, AuthorityInv, AuthorityCurrent, Bound
<1> QED BY <1>1, <1>2, <1>3, <1>4, <1>5, <1>6, <1>7, <1>8, <1>9, <1>10 DEF Next

\* A reporter decision is read as current only if it is the last turn this run
\* attempted, whatever an earlier run left and whichever call or write failed
\* (resolve_reporter_after_coordination).
THEOREM AuthorityAlwaysCurrent == Spec => []AuthorityCurrent
<1>1. AuthorityInv => AuthorityCurrent
  BY DEF AuthorityInv
<1> QED BY <1>1, AuthorityInit, AuthorityStep, PTL DEF Spec

--------------------------------------------------------------------------------
(***************************************************************************)
(* The wave, and the calls of all passes.                                  *)
(***************************************************************************)
Early == {"preflight", "wave", "running"}
Names == Specs \cup {"none"}

LaneStatuses == {"absent", "planned", "running", "ok", "degraded", "failed", "preflight_failed",
                 "missing_key", "skipped", "skipped_budget"}
Receipts == [status : LaneStatuses, spec : Names, fallback_from : BOOLEAN, attempts : Nat,
             thread : BOOLEAN]
Tasks    == [lane : LaneIds, spec : Specs]

WaveTyped ==
  /\ setup \in Setups /\ LaneIds \cap {"proof-planner", "refuter", "none"} = {}
  /\ usable \subseteq {s \in Specs : HasKey(s)}
  /\ receipts \in [AllLanes -> Receipts] /\ issues \in [AllLanes -> Nat]
  /\ pending \in Seq(LaneIds) /\ retry \in Seq(LaneIds)
  /\ forced \in [LaneIds -> Names]
  /\ wave \in Seq(Tasks) /\ pressure \subseteq Providers
  /\ used \in Nat /\ sent \in Nat
  /\ called \in [LaneIds -> Seq(Specs)]

\* Where a review lane is while the wave goes on: it waits, for its first call or
\* for its retry; it is being called; or it is over, and told of if it must be.
Awaits(l) ==
  /\ receipts[l].status = "planned" /\ issues[l] = 0
  /\ \/ l \in ToSet(pending) /\ l \notin ToSet(retry) /\ forced[l] = "none" /\ called[l] = << >>
     \/ /\ l \in ToSet(retry) /\ l \notin ToSet(pending)
        /\ forced[l] = Fallback(l) /\ forced[l] # "none" /\ called[l] = <<PrimaryOf(l)>>

Calling(l) ==
  /\ stage = "running" /\ receipts[l].status = "running" /\ issues[l] = 0
  /\ l \notin ToSet(pending) \cup ToSet(retry)
  /\ called[l] # << >> /\ (forced[l] = "none" => Len(called[l]) = 1)

LaneTold(l) ==
  /\ receipts[l].status \notin {"planned", "running"}
  /\ receipts[l].status = "ok" => issues[l] = 0
  /\ receipts[l].status = "degraded" => issues[l] <= 1
  /\ receipts[l].status \notin {"ok", "degraded"} => issues[l] = 1

LaneAt(l) == Awaits(l) \/ Calling(l) \/ (LaneTold(l) /\ l \notin ToSet(retry))
LanesInv  == IsInjective(pending) /\ IsInjective(retry) /\ \A l \in LaneIds : LaneAt(l)

\* ProvenanceTrue of one lane.
Proven(l) ==
  /\ receipts[l].attempts = Len(called[l]) /\ Len(called[l]) <= 2
  /\ receipts[l].status \in {"ok", "degraded"} => called[l] # << >>
  /\ receipts[l].spec = IF called[l] = << >> THEN PrimaryOf(l) ELSE Last(called[l])
  /\ receipts[l].fallback_from <=> receipts[l].spec # PrimaryOf(l)
  /\ Len(called[l]) = 2 => called[l] = <<PrimaryOf(l), Fallback(l)>>

\* What was sent was counted, and what is counted fits.
CallsInv ==
  /\ calls \in Nat /\ used + calls <= setup.budget /\ sent <= used + calls
  /\ stage \in Early \cup {"planner", "refuter", "reporter", "distill"} => calls = 0
  /\ stage = "distill" => ~Exhausted(used)

WaveInv ==
  /\ WaveTyped /\ ProvenanceTrue /\ LossesTold /\ WaveFits /\ CallsInv
  /\ stage \in Early => LanesInv

LEMMA LeastOne ==
  ASSUME NEW I \in SUBSET Nat, I # {}
  PROVE  \E i \in I : \A k \in I : i <= k
<1> DEFINE R == {p \in Nat \X Nat : p[1] < p[2]}
<1>1. IsWellFoundedOn(R, Nat)
  BY NatLessThanWellFounded, Zenon DEF OpToRel
<1>2. \A i, k \in Nat : <<k, i>> \in R <=> k < i
  BY Zenon
<1> HIDE DEF R
<1>3. PICK i \in I : \A k \in I : ~(<<k, i>> \in R)
  BY <1>1, WFMin
<1>4. ASSUME NEW k \in I
      PROVE  i <= k
  <2>1. i \in Nat /\ k \in Nat
    OBVIOUS
  <2>2. ~(k < i)
    BY <1>2, <1>3, <2>1, Zenon
  <2> QED BY <2>1, <2>2
<1> QED BY <1>4

\* A walk of L steps, the n-th of which leads from F[n - 1] to F[n].
Leads(L, F, G) == \A n \in 1 .. L : \A s \in F[n - 1] : G[n][s] \in F[n]
IsWalk(f, L, F, b, G) ==
  /\ f[0] = b
  /\ \A n \in 1 .. L : f[n] = G[n][f[n - 1]]
  /\ \A n \in 0 .. L : f[n] \in F[n]

LEMMA Walks ==
  ASSUME NEW D, NEW L \in Nat, NEW F \in [0 .. L -> SUBSET D], NEW b \in F[0], NEW G,
         Leads(L, F, G)
  PROVE  \E f \in [0 .. L -> D] : IsWalk(f, L, F, b, G)
<1> DEFINE Reached(n) == \E f \in [0 .. n -> D] :
                            /\ f[0] = b
                            /\ \A k \in 1 .. n : f[k] = G[k][f[k - 1]]
                            /\ \A k \in 0 .. n : f[k] \in F[k]
           bad == {n \in 0 .. L : ~Reached(n)}
<1>1. Reached(0)
  <2> DEFINE f == [k \in 0 .. 0 |-> b]
  <2>1. b \in D
    OBVIOUS
  <2>2. f \in [0 .. 0 -> D] /\ \A k \in 0 .. 0 : f[k] = b /\ k = 0
    BY <2>1
  <2> HIDE DEF f
  <2> QED BY <2>2
<1>2. ASSUME NEW n \in 1 .. L, Reached(n - 1)
      PROVE  Reached(n)
  <2>1. PICK f \in [0 .. n - 1 -> D] : /\ f[0] = b
                                       /\ \A k \in 1 .. n - 1 : f[k] = G[k][f[k - 1]]
                                       /\ \A k \in 0 .. n - 1 : f[k] \in F[k]
    BY <1>2
  <2> DEFINE last == G[n][f[n - 1]]
             g == [k \in 0 .. n |-> IF k = n THEN last ELSE f[k]]
  <2>2. last \in F[n] /\ last \in D
    <3>1. n - 1 \in 0 .. n - 1 /\ n \in 0 .. L
      OBVIOUS
    <3>2. f[n - 1] \in F[n - 1]
      BY <2>1, <3>1
    <3> QED BY <3>1, <3>2 DEF Leads
  <2>3. last = G[n][f[n - 1]] /\ n \in Nat /\ n # 0
    OBVIOUS
  <2> HIDE DEF last
  <2>4. /\ \A k \in 0 .. n - 1 : g[k] = f[k] /\ g[k] \in D
        /\ g[n] = last
    <3>1. \A k \in 0 .. n - 1 : k \in 0 .. n /\ k # n /\ f[k] \in D
      BY <2>1, <2>3
    <3> QED BY <2>3, <3>1
  <2>5. g \in [0 .. n -> D]
    BY <2>1, <2>2
  <2> HIDE DEF g
  <2>6. \A k \in 1 .. n : g[k] = G[k][g[k - 1]]
    <3> SUFFICES ASSUME NEW k \in 1 .. n PROVE g[k] = G[k][g[k - 1]]
      OBVIOUS
    <3>1. k - 1 \in 0 .. n - 1 /\ g[k - 1] = f[k - 1]
      BY <2>4
    <3>2. CASE k = n
      BY <2>3, <2>4, <3>1, <3>2
    <3>3. CASE k # n
      <4>1. k \in 1 .. n - 1 /\ k \in 0 .. n - 1
        BY <3>3
      <4> QED BY <2>1, <2>4, <3>1, <4>1
    <3> QED BY <3>2, <3>3
  <2>7. \A k \in 0 .. n : g[k] \in F[k]
    BY <2>1, <2>2, <2>4
  <2>8. g[0] = b
    BY <2>1, <2>3, <2>4
  <2> QED BY <2>5, <2>6, <2>7, <2>8
<1>3. bad = {}
  <2>1. bad \in SUBSET Nat
    OBVIOUS
  <2>2. ASSUME NEW n \in bad, \A k \in bad : n <= k
        PROVE  FALSE
    <3> HIDE DEF Reached
    <3>1. n \in 1 .. L /\ n - 1 \in 0 .. L /\ ~(n <= n - 1)
      BY <1>1
    <3>2. Reached(n - 1)
      BY <2>2, <3>1
    <3> QED BY <1>2, <3>1, <3>2
  <2> HIDE DEF bad
  <2> QED BY <2>1, <2>2, LeastOne
<1>4. L \in 0 .. L
  OBVIOUS
<1> HIDE DEF Reached
<1>5. Reached(L)
  BY <1>3, <1>4
<1> QED BY <1>5 DEF Reached, IsWalk

\* Where a scan of a queue ends, if its n-th lane leads from F[n - 1] to F[n].
LEMMA RetriesEnd ==
  ASSUME NEW D, NEW lanes, NEW L \in Nat, Len(lanes) = L, NEW F \in [0 .. L -> SUBSET D],
         NEW first \in F[0],
         \A n \in 1 .. L : \A s \in F[n - 1] : ScanRetry(s, lanes[n]) \in F[n]
  PROVE  RetriesScanned(first, lanes) \in F[L]
<1> DEFINE Is(g) == g = [n \in 0 .. Len(lanes) |->
                           IF n = 0 THEN first ELSE ScanRetry(g[n - 1], lanes[n])]
           scan == CHOOSE g : Is(g)
           G == [n \in 1 .. L |-> [s \in D |-> ScanRetry(s, lanes[n])]]
<1>1. RetriesScanned(first, lanes) = scan[L]
  BY DEF RetriesScanned
<1>2. ASSUME NEW n \in 1 .. L, NEW s \in F[n - 1]
      PROVE  G[n][s] = ScanRetry(s, lanes[n])
  <2>1. n - 1 \in 0 .. L
    OBVIOUS
  <2> QED BY <2>1
<1> HIDE DEF G
<1>3. Leads(L, F, G)
  BY <1>2 DEF Leads
<1>4. PICK f \in [0 .. L -> D] : /\ f[0] = first
                                 /\ \A n \in 1 .. L : f[n] = G[n][f[n - 1]]
                                 /\ \A n \in 0 .. L : f[n] \in F[n]
  <2> HIDE DEF scan, Is
  <2>1. \E f \in [0 .. L -> D] : IsWalk(f, L, F, first, G)
    BY <1>3, Walks
  <2> QED BY <2>1 DEF IsWalk
<1>5. ASSUME NEW n \in 1 .. L
      PROVE  f[n] = ScanRetry(f[n - 1], lanes[n])
  <2>1. n - 1 \in 0 .. L
    OBVIOUS
  <2> QED BY <1>2, <1>4, <2>1
<1>6. Is(scan)
  <2>1. \A n \in 0 .. L : f[n] = IF n = 0 THEN first ELSE ScanRetry(f[n - 1], lanes[n])
    BY <1>4, <1>5
  <2>2. Is(f)
    BY <2>1
  <2> HIDE DEF Is
  <2> QED BY <2>2
<1>7. scan = [n \in 0 .. L |-> IF n = 0 THEN first ELSE ScanRetry(scan[n - 1], lanes[n])]
  <2> HIDE DEF scan
  <2> QED BY <1>6
<1> HIDE DEF scan
<1>8. /\ scan[0] = first
      /\ \A n \in 1 .. L : scan[n] = ScanRetry(scan[n - 1], lanes[n])
  BY <1>7
<1> DEFINE bad == {n \in 0 .. L : scan[n] # f[n]}
<1>9. bad = {}
  <2>1. bad \in SUBSET Nat
    OBVIOUS
  <2>2. ASSUME NEW n \in bad, \A k \in bad : n <= k
        PROVE  FALSE
    <3>1. n \in 1 .. L /\ n - 1 \in 0 .. L /\ ~(n <= n - 1)
      BY <1>4, <1>8
    <3>2. scan[n - 1] = f[n - 1]
      BY <2>2, <3>1
    <3> QED BY <1>5, <1>8, <3>1, <3>2
  <2> HIDE DEF bad
  <2> QED BY <2>1, <2>2, LeastOne
<1> QED BY <1>1, <1>4, <1>9

LEMMA PendingEnd ==
  ASSUME NEW D, NEW lanes, NEW L \in Nat, Len(lanes) = L, NEW F \in [0 .. L -> SUBSET D],
         NEW first \in F[0],
         \A n \in 1 .. L : \A s \in F[n - 1] : ScanPending(s, lanes[n]) \in F[n]
  PROVE  PendingScanned(first, lanes) \in F[L]
<1> DEFINE Is(g) == g = [n \in 0 .. Len(lanes) |->
                           IF n = 0 THEN first ELSE ScanPending(g[n - 1], lanes[n])]
           scan == CHOOSE g : Is(g)
           G == [n \in 1 .. L |-> [s \in D |-> ScanPending(s, lanes[n])]]
<1>1. PendingScanned(first, lanes) = scan[L]
  BY DEF PendingScanned
<1>2. ASSUME NEW n \in 1 .. L, NEW s \in F[n - 1]
      PROVE  G[n][s] = ScanPending(s, lanes[n])
  <2>1. n - 1 \in 0 .. L
    OBVIOUS
  <2> QED BY <2>1
<1> HIDE DEF G
<1>3. Leads(L, F, G)
  BY <1>2 DEF Leads
<1>4. PICK f \in [0 .. L -> D] : /\ f[0] = first
                                 /\ \A n \in 1 .. L : f[n] = G[n][f[n - 1]]
                                 /\ \A n \in 0 .. L : f[n] \in F[n]
  <2> HIDE DEF scan, Is
  <2>1. \E f \in [0 .. L -> D] : IsWalk(f, L, F, first, G)
    BY <1>3, Walks
  <2> QED BY <2>1 DEF IsWalk
<1>5. ASSUME NEW n \in 1 .. L
      PROVE  f[n] = ScanPending(f[n - 1], lanes[n])
  <2>1. n - 1 \in 0 .. L
    OBVIOUS
  <2> QED BY <1>2, <1>4, <2>1
<1>6. Is(scan)
  <2>1. \A n \in 0 .. L : f[n] = IF n = 0 THEN first ELSE ScanPending(f[n - 1], lanes[n])
    BY <1>4, <1>5
  <2>2. Is(f)
    BY <2>1
  <2> HIDE DEF Is
  <2> QED BY <2>2
<1>7. scan = [n \in 0 .. L |-> IF n = 0 THEN first ELSE ScanPending(scan[n - 1], lanes[n])]
  <2> HIDE DEF scan
  <2> QED BY <1>6
<1> HIDE DEF scan
<1>8. /\ scan[0] = first
      /\ \A n \in 1 .. L : scan[n] = ScanPending(scan[n - 1], lanes[n])
  BY <1>7
<1> DEFINE bad == {n \in 0 .. L : scan[n] # f[n]}
<1>9. bad = {}
  <2>1. bad \in SUBSET Nat
    OBVIOUS
  <2>2. ASSUME NEW n \in bad, \A k \in bad : n <= k
        PROVE  FALSE
    <3>1. n \in 1 .. L /\ n - 1 \in 0 .. L /\ ~(n <= n - 1)
      BY <1>4, <1>8
    <3>2. scan[n - 1] = f[n - 1]
      BY <2>2, <3>1
    <3> QED BY <1>5, <1>8, <3>1, <3>2
  <2> HIDE DEF bad
  <2> QED BY <2>1, <2>2, LeastOne
<1> QED BY <1>1, <1>4, <1>9

\* The same of the answers.
LEMMA AnswersEnd ==
  ASSUME NEW D, NEW lanes, NEW outcome, NEW L \in Nat, Len(lanes) = L, NEW F \in [0 .. L -> SUBSET D],
         NEW first \in F[0],
         \A n \in 1 .. L : \A s \in F[n - 1] : Answer(s, lanes[n], outcome) \in F[n]
  PROVE  Applied(first, lanes, outcome) \in F[L]
<1> DEFINE Is(g) == g = [n \in 0 .. Len(lanes) |->
                           IF n = 0 THEN first ELSE Answer(g[n - 1], lanes[n], outcome)]
           scan == CHOOSE g : Is(g)
           G == [n \in 1 .. L |-> [s \in D |-> Answer(s, lanes[n], outcome)]]
<1>1. Applied(first, lanes, outcome) = scan[L]
  BY DEF Applied
<1>2. ASSUME NEW n \in 1 .. L, NEW s \in F[n - 1]
      PROVE  G[n][s] = Answer(s, lanes[n], outcome)
  <2>1. n - 1 \in 0 .. L
    OBVIOUS
  <2> QED BY <2>1
<1> HIDE DEF G
<1>3. Leads(L, F, G)
  BY <1>2 DEF Leads
<1>4. PICK f \in [0 .. L -> D] : /\ f[0] = first
                                 /\ \A n \in 1 .. L : f[n] = G[n][f[n - 1]]
                                 /\ \A n \in 0 .. L : f[n] \in F[n]
  <2> HIDE DEF scan, Is
  <2>1. \E f \in [0 .. L -> D] : IsWalk(f, L, F, first, G)
    BY <1>3, Walks
  <2> QED BY <2>1 DEF IsWalk
<1>5. ASSUME NEW n \in 1 .. L
      PROVE  f[n] = Answer(f[n - 1], lanes[n], outcome)
  <2>1. n - 1 \in 0 .. L
    OBVIOUS
  <2> QED BY <1>2, <1>4, <2>1
<1>6. Is(scan)
  <2>1. \A n \in 0 .. L : f[n] = IF n = 0 THEN first ELSE Answer(f[n - 1], lanes[n], outcome)
    BY <1>4, <1>5
  <2>2. Is(f)
    BY <2>1
  <2> HIDE DEF Is
  <2> QED BY <2>2
<1>7. scan = [n \in 0 .. L |-> IF n = 0 THEN first ELSE Answer(scan[n - 1], lanes[n], outcome)]
  <2> HIDE DEF scan
  <2> QED BY <1>6
<1> HIDE DEF scan
<1>8. /\ scan[0] = first
      /\ \A n \in 1 .. L : scan[n] = Answer(scan[n - 1], lanes[n], outcome)
  BY <1>7
<1> DEFINE bad == {n \in 0 .. L : scan[n] # f[n]}
<1>9. bad = {}
  <2>1. bad \in SUBSET Nat
    OBVIOUS
  <2>2. ASSUME NEW n \in bad, \A k \in bad : n <= k
        PROVE  FALSE
    <3>1. n \in 1 .. L /\ n - 1 \in 0 .. L /\ ~(n <= n - 1)
      BY <1>4, <1>8
    <3>2. scan[n - 1] = f[n - 1]
      BY <2>2, <3>1
    <3> QED BY <1>5, <1>8, <3>1, <3>2
  <2> HIDE DEF bad
  <2> QED BY <2>1, <2>2, LeastOne
<1> QED BY <1>1, <1>4, <1>9

\* Queues of lanes: what joining one adds, and what putting two together gives.
LEMMA Queued ==
  ASSUME NEW S, NEW q \in Seq(S), NEW m \in S
  PROVE  /\ Append(q, m) \in Seq(S)
         /\ ToSet(Append(q, m)) = ToSet(q) \cup {m}
         /\ IsInjective(q) /\ m \notin ToSet(q) => IsInjective(Append(q, m))
<1>1. /\ Append(q, m) \in Seq(S) /\ Len(Append(q, m)) = Len(q) + 1 /\ Len(q) \in Nat
      /\ DOMAIN q = 1 .. Len(q) /\ DOMAIN Append(q, m) = 1 .. Len(q) + 1
  OBVIOUS
<1>2. /\ \A i \in 1 .. Len(q) : Append(q, m)[i] = q[i]
      /\ Append(q, m)[Len(q) + 1] = m
  OBVIOUS
<1> DEFINE r == Append(q, m)
<1>3. /\ r \in Seq(S) /\ DOMAIN r = 1 .. Len(q) + 1
      /\ \A i \in 1 .. Len(q) : r[i] = q[i]
      /\ r[Len(q) + 1] = m
  BY <1>1, <1>2
<1>4. r = Append(q, m)
  OBVIOUS
<1> HIDE DEF r
<1>5. ToSet(r) = ToSet(q) \cup {m}
  <2>1. \A i \in DOMAIN q : i \in DOMAIN r /\ r[i] = q[i]
    BY <1>1, <1>3
  <2>2. Len(q) + 1 \in DOMAIN r
    BY <1>1, <1>3
  <2>3. \A i \in DOMAIN r : i \in DOMAIN q \/ i = Len(q) + 1
    BY <1>1, <1>3
  <2> QED BY <1>3, <2>1, <2>2, <2>3 DEF ToSet
<1>6. ASSUME IsInjective(q), m \notin ToSet(q), NEW i \in DOMAIN r, NEW j \in DOMAIN r, r[i] = r[j]
      PROVE  i = j
  <2>1. \A k \in DOMAIN q : q[k] # m
    BY <1>6 DEF ToSet
  <2>2. \A k \in DOMAIN r : k \in DOMAIN q \/ k = Len(q) + 1
    BY <1>1, <1>3
  <2>3. \A k \in DOMAIN q : r[k] = q[k]
    BY <1>1, <1>3
  <2> QED BY <1>3, <1>6, <2>1, <2>2, <2>3 DEF IsInjective
<1> QED BY <1>3, <1>4, <1>5, <1>6 DEF IsInjective

LEMMA Joint ==
  ASSUME NEW S, NEW p \in Seq(S), NEW q \in Seq(S)
  PROVE  /\ p \o q \in Seq(S)
         /\ ToSet(p \o q) = ToSet(p) \cup ToSet(q)
         /\ IsInjective(p) /\ IsInjective(q) /\ ToSet(p) \cap ToSet(q) = {} => IsInjective(p \o q)
<1> DEFINE r == p \o q
<1>1. /\ r \in Seq(S) /\ Len(p) \in Nat /\ Len(q) \in Nat
      /\ DOMAIN r = 1 .. Len(p) + Len(q) /\ DOMAIN p = 1 .. Len(p) /\ DOMAIN q = 1 .. Len(q)
  OBVIOUS
<1>2. /\ \A i \in DOMAIN p : i \in DOMAIN r /\ r[i] = p[i]
      /\ \A i \in DOMAIN q : Len(p) + i \in DOMAIN r /\ r[Len(p) + i] = q[i]
  BY <1>1
<1>3. \A i \in DOMAIN r : i \in DOMAIN p \/ \E k \in DOMAIN q : i = Len(p) + k
  <2> SUFFICES ASSUME NEW i \in DOMAIN r, i \notin DOMAIN p
               PROVE  \E k \in DOMAIN q : i = Len(p) + k
    OBVIOUS
  <2>1. i - Len(p) \in DOMAIN q /\ i = Len(p) + (i - Len(p))
    BY <1>1
  <2> QED BY <2>1
<1>4. r = p \o q
  OBVIOUS
<1> HIDE DEF r
<1>5. ToSet(r) = ToSet(p) \cup ToSet(q)
  BY <1>2, <1>3 DEF ToSet
<1>6. ASSUME IsInjective(p), IsInjective(q), ToSet(p) \cap ToSet(q) = {},
             NEW i \in DOMAIN r, NEW j \in DOMAIN r, r[i] = r[j]
      PROVE  i = j
  <2>1. \A k \in DOMAIN p : p[k] \notin ToSet(q)
    BY <1>6 DEF ToSet
  <2>2. \A k \in DOMAIN q : q[k] \in ToSet(q)
    BY DEF ToSet
  <2>3. CASE i \in DOMAIN p
    <3>1. j \in DOMAIN p
      BY <1>2, <1>3, <1>6, <2>1, <2>2, <2>3
    <3> QED BY <1>2, <1>6, <2>3, <3>1 DEF IsInjective
  <2>4. CASE i \notin DOMAIN p
    <3>1. PICK k \in DOMAIN q : i = Len(p) + k
      BY <1>3, <2>4
    <3>2. j \notin DOMAIN p
      BY <1>2, <1>6, <2>1, <2>2, <3>1
    <3>3. PICK n \in DOMAIN q : j = Len(p) + n
      BY <1>3, <3>2
    <3>4. q[k] = q[n]
      BY <1>2, <1>6, <3>1, <3>3
    <3> QED BY <1>6, <3>1, <3>3, <3>4 DEF IsInjective
  <2> QED BY <2>3, <2>4
<1> QED BY <1>1, <1>4, <1>5, <1>6 DEF IsInjective

\* A task more in a wave.
LEMMA OneMore ==
  ASSUME NEW w \in Seq(Tasks), NEW t \in Tasks, NEW p
  PROVE  /\ InWave(w, p) \in Nat
         /\ ProviderOf(t.spec) # p => InWave(Append(w, t), p) = InWave(w, p)
         /\ InWave(Append(w, t), p) <= InWave(w, p) + 1
<1> DEFINE r  == Append(w, t)
           on == {i \in DOMAIN w : ProviderOf(w[i].spec) = p}
           as == {i \in DOMAIN r : ProviderOf(r[i].spec) = p}
<1>1. /\ Len(w) \in Nat /\ DOMAIN w = 1 .. Len(w) /\ DOMAIN r = 1 .. Len(w) + 1
      /\ \A i \in 1 .. Len(w) : r[i] = w[i]
      /\ r[Len(w) + 1] = t
  OBVIOUS
<1>2. InWave(w, p) = Cardinality(on) /\ InWave(Append(w, t), p) = Cardinality(as)
  BY DEF InWave
<1> HIDE DEF r
<1>3. IsFiniteSet(on) /\ Cardinality(on) \in Nat
  <2>1. IsFiniteSet(1 .. Len(w))
    BY <1>1, FS_Interval
  <2>2. on \subseteq 1 .. Len(w)
    BY <1>1
  <2> HIDE DEF on
  <2> QED BY <2>1, <2>2, FS_Subset, FS_CardinalityType
<1>4. as = IF ProviderOf(t.spec) = p THEN on \cup {Len(w) + 1} ELSE on
  <2>1. \A i : i \in 1 .. Len(w) + 1 <=> i \in 1 .. Len(w) \/ i = Len(w) + 1
    BY <1>1
  <2> QED BY <1>1, <2>1
<1>5. Len(w) + 1 \notin on
  BY <1>1
<1> HIDE DEF on, as
<1>6. Cardinality(on \cup {Len(w) + 1}) = Cardinality(on) + 1
  BY <1>3, <1>5, FS_AddElement
<1> QED BY <1>2, <1>3, <1>4, <1>6

(***************************************************************************)
(* One scan, from b to s: where the lanes H that it reached are.           *)
(***************************************************************************)
ScanSpace == [wave : Seq(Tasks), receipts : [AllLanes -> Receipts], issues : [AllLanes -> Nat],
              left : Seq(LaneIds), deferred : Seq(LaneIds)]

Waits(s) == ToSet(s.left) \cup ToSet(s.deferred)

Apart(s) == /\ IsInjective(s.left) /\ IsInjective(s.deferred)
            /\ ToSet(s.left) \cap ToSet(s.deferred) = {}

Fits(s) == /\ Len(s.wave) <= Concurrency /\ used + Len(s.wave) <= setup.budget
           /\ \A p \in Providers : InWave(s.wave, p) <= LimitFor(p)

\* The lanes in flight are the running ones, each on the spec its receipt shows.
Matched(s) ==
  /\ \A i \in DOMAIN s.wave : /\ s.receipts[s.wave[i].lane].status = "running"
                              /\ s.receipts[s.wave[i].lane].spec = s.wave[i].spec
  /\ \A l \in LaneIds : s.receipts[l].status = "running" =>
       \E i \in DOMAIN s.wave : s.wave[i].lane = l

Kept(b, s, l, H) ==
  /\ s.receipts[l] = b.receipts[l] /\ s.issues[l] = b.issues[l]
  /\ l \in Waits(s) => l \in H
  /\ l \in H /\ b.receipts[l].status = "planned" => l \in Waits(s)

Joined(b, s, l, H, offers) ==
  /\ l \in H /\ l \notin Waits(s) /\ b.receipts[l].status = "planned"
  /\ s.issues[l] = b.issues[l] /\ s.receipts[l].status = "running"
  /\ s.receipts[l].spec \in offers[l]
  /\ s.receipts[l].fallback_from = (s.receipts[l].spec # PrimaryOf(l))
  /\ s.receipts[l].attempts = b.receipts[l].attempts

Dropped(b, s, l, H) ==
  /\ l \in H /\ l \notin Waits(s) /\ b.receipts[l].status = "planned"
  /\ s.issues[l] = b.issues[l] + 1 /\ s.receipts[l].status = "preflight_failed"
  /\ s.receipts[l].spec = b.receipts[l].spec
  /\ s.receipts[l].fallback_from = b.receipts[l].fallback_from
  /\ s.receipts[l].attempts = b.receipts[l].attempts

Fate(b, s, l, H, offers) == Kept(b, s, l, H) \/ Joined(b, s, l, H, offers) \/ Dropped(b, s, l, H)

Scanned(b, s, H, offers) ==
  /\ s \in ScanSpace /\ Apart(s) /\ Fits(s) /\ Matched(s)
  /\ \A l \in LaneIds : Fate(b, s, l, H, offers)

LEMMA OthersKept ==
  ASSUME NEW b, NEW s, NEW t, NEW H, NEW offers, NEW l, NEW m, l # m,
         Fate(b, s, l, H, offers),
         t.receipts[l] = s.receipts[l], t.issues[l] = s.issues[l],
         l \in Waits(t) <=> l \in Waits(s)
  PROVE  Fate(b, t, l, H \cup {m}, offers)
BY DEF Fate, Kept, Joined, Dropped

\* A lane the scan has not reached.
LEMMA Unreached ==
  ASSUME NEW b, NEW s, NEW H, NEW offers, NEW m \in LaneIds, m \notin H,
         Scanned(b, s, H, offers)
  PROVE  /\ s.receipts[m] = b.receipts[m] /\ s.issues[m] = b.issues[m]
         /\ m \notin ToSet(s.left) /\ m \notin ToSet(s.deferred)
BY DEF Scanned, Fate, Kept, Joined, Dropped, Waits

LEMMA ScanLeaves ==
  ASSUME NEW b, NEW s, NEW H, NEW offers, NEW m \in LaneIds, m \notin H,
         Scanned(b, s, H, offers)
  PROVE  Scanned(b, [s EXCEPT !.left = Append(@, m)], H \cup {m}, offers)
<1> DEFINE t == [s EXCEPT !.left = Append(@, m)]
<1>1. s \in ScanSpace
  BY DEF Scanned
<1>2. /\ t.wave = s.wave /\ t.receipts = s.receipts /\ t.issues = s.issues
      /\ t.left = Append(s.left, m) /\ t.deferred = s.deferred
  BY <1>1 DEF ScanSpace
<1>3. /\ s.left \in Seq(LaneIds) /\ s.deferred \in Seq(LaneIds)
      /\ m \notin ToSet(s.left) /\ m \notin ToSet(s.deferred)
  BY <1>1, Unreached DEF ScanSpace
<1>4. t \in ScanSpace
  <2>1. Append(s.left, m) \in Seq(LaneIds)
    BY <1>3
  <2> QED BY <1>1, <2>1 DEF ScanSpace
<1> HIDE DEF t
<1>5. /\ ToSet(t.left) = ToSet(s.left) \cup {m}
      /\ IsInjective(s.left) => IsInjective(t.left)
  BY <1>2, <1>3, Queued
<1>6. Apart(t) /\ Waits(t) = Waits(s) \cup {m}
  BY <1>2, <1>3, <1>5 DEF Apart, Waits, Scanned
<1>7. Fits(t) /\ Matched(t)
  BY <1>2 DEF Fits, Matched, Scanned
<1>8. \A l \in LaneIds : Fate(b, t, l, H \cup {m}, offers)
  <2> SUFFICES ASSUME NEW l \in LaneIds PROVE Fate(b, t, l, H \cup {m}, offers)
    OBVIOUS
  <2>1. CASE l = m
    <3>1. Kept(b, t, m, H \cup {m})
      BY <1>2, <1>6, Unreached DEF Kept
    <3> QED BY <2>1, <3>1 DEF Fate
  <2>2. CASE l # m
    <3>1. Fate(b, s, l, H, offers)
      BY DEF Scanned
    <3> QED BY <1>2, <1>6, <2>2, <3>1, OthersKept
  <2> QED BY <2>1, <2>2
<1> QED BY <1>4, <1>6, <1>7, <1>8 DEF Scanned, t

LEMMA ScanDefers ==
  ASSUME NEW b, NEW s, NEW H, NEW offers, NEW m \in LaneIds, m \notin H,
         Scanned(b, s, H, offers)
  PROVE  Scanned(b, [s EXCEPT !.deferred = Append(@, m)], H \cup {m}, offers)
<1> DEFINE t == [s EXCEPT !.deferred = Append(@, m)]
<1>1. s \in ScanSpace
  BY DEF Scanned
<1>2. /\ t.wave = s.wave /\ t.receipts = s.receipts /\ t.issues = s.issues
      /\ t.deferred = Append(s.deferred, m) /\ t.left = s.left
  BY <1>1 DEF ScanSpace
<1>3. /\ s.left \in Seq(LaneIds) /\ s.deferred \in Seq(LaneIds)
      /\ m \notin ToSet(s.left) /\ m \notin ToSet(s.deferred)
  BY <1>1, Unreached DEF ScanSpace
<1>4. t \in ScanSpace
  <2>1. Append(s.deferred, m) \in Seq(LaneIds)
    BY <1>3
  <2> QED BY <1>1, <2>1 DEF ScanSpace
<1> HIDE DEF t
<1>5. /\ ToSet(t.deferred) = ToSet(s.deferred) \cup {m}
      /\ IsInjective(s.deferred) => IsInjective(t.deferred)
  BY <1>2, <1>3, Queued
<1>6. Apart(t) /\ Waits(t) = Waits(s) \cup {m}
  BY <1>2, <1>3, <1>5 DEF Apart, Waits, Scanned
<1>7. Fits(t) /\ Matched(t)
  BY <1>2 DEF Fits, Matched, Scanned
<1>8. \A l \in LaneIds : Fate(b, t, l, H \cup {m}, offers)
  <2> SUFFICES ASSUME NEW l \in LaneIds PROVE Fate(b, t, l, H \cup {m}, offers)
    OBVIOUS
  <2>1. CASE l = m
    <3>1. Kept(b, t, m, H \cup {m})
      BY <1>2, <1>6, Unreached DEF Kept
    <3> QED BY <2>1, <3>1 DEF Fate
  <2>2. CASE l # m
    <3>1. Fate(b, s, l, H, offers)
      BY DEF Scanned
    <3> QED BY <1>2, <1>6, <2>2, <3>1, OthersKept
  <2> QED BY <2>1, <2>2
<1> QED BY <1>4, <1>6, <1>7, <1>8 DEF Scanned, t

LEMMA ScanDrops ==
  ASSUME NEW b, NEW s, NEW H, NEW offers, NEW m \in LaneIds, m \notin H,
         Scanned(b, s, H, offers), b.receipts[m].status = "planned"
  PROVE  Scanned(b, Lost(s, m, "preflight_failed"), H \cup {m}, offers)
<1> DEFINE t == Lost(s, m, "preflight_failed")
<1>1. s \in ScanSpace
  BY DEF Scanned
<1>0. m \in AllLanes /\ s.receipts \in [AllLanes -> Receipts] /\ s.issues \in [AllLanes -> Nat]
  BY <1>1 DEF ScanSpace, AllLanes
<1>2. /\ t.wave = s.wave /\ t.left = s.left /\ t.deferred = s.deferred
      /\ t.receipts = [s.receipts EXCEPT ![m].status = "preflight_failed"]
      /\ t.issues = [s.issues EXCEPT ![m] = @ + 1]
  BY <1>1 DEF ScanSpace, Lost
<1>3. /\ t.receipts \in [AllLanes -> Receipts] /\ t.issues \in [AllLanes -> Nat]
      /\ \A l \in AllLanes : l # m => /\ t.receipts[l] = s.receipts[l]
                                      /\ t.issues[l] = s.issues[l]
      /\ t.issues[m] = s.issues[m] + 1
      /\ t.receipts[m] = [s.receipts[m] EXCEPT !.status = "preflight_failed"]
  <2>1. s.receipts[m] \in Receipts
    BY <1>0
  <2>2. [s.receipts[m] EXCEPT !.status = "preflight_failed"] \in Receipts
    BY <2>1 DEF Receipts, LaneStatuses
  <2>3. s.issues[m] \in Nat
    BY <1>0
  <2> HIDE DEF t
  <2> QED BY <1>0, <1>2, <2>2, <2>3
<1>4. t \in ScanSpace
  <2>1. /\ s.wave \in Seq(Tasks) /\ s.left \in Seq(LaneIds) /\ s.deferred \in Seq(LaneIds)
    BY <1>1 DEF ScanSpace
  <2> DEFINE R == [s.receipts EXCEPT ![m].status = "preflight_failed"]
             I == [s.issues EXCEPT ![m] = @ + 1]
  <2>2. t = [s EXCEPT !.receipts = R, !.issues = I]
    BY DEF Lost
  <2>3. R \in [AllLanes -> Receipts] /\ I \in [AllLanes -> Nat]
    <3> HIDE DEF t
    <3> QED BY <1>2, <1>3
  <2> HIDE DEF t, R, I
  <2> QED BY <1>1, <2>1, <2>2, <2>3 DEF ScanSpace
<1> HIDE DEF t
<1>5. /\ s.receipts[m] = b.receipts[m] /\ s.issues[m] = b.issues[m]
      /\ m \notin ToSet(s.left) /\ m \notin ToSet(s.deferred)
  BY Unreached
<1>6. Apart(t) /\ Waits(t) = Waits(s) /\ Fits(t)
  BY <1>2 DEF Apart, Waits, Scanned, Fits
<1>7. /\ t.receipts[m].status = "preflight_failed"
      /\ t.receipts[m].spec = s.receipts[m].spec
      /\ t.receipts[m].fallback_from = s.receipts[m].fallback_from
      /\ t.receipts[m].attempts = s.receipts[m].attempts
  <2>1. s.receipts[m] \in Receipts
    BY <1>0
  <2> QED BY <1>3, <2>1 DEF Receipts
<1>8. Matched(t)
  <2>1. Matched(s)
    BY DEF Scanned
  <2>2. s.receipts[m].status = "planned"
    BY <1>5
  <2>3. \A i \in DOMAIN s.wave : s.wave[i].lane \in AllLanes /\ s.wave[i].lane # m
    <3> SUFFICES ASSUME NEW i \in DOMAIN s.wave
                 PROVE  s.wave[i].lane \in AllLanes /\ s.wave[i].lane # m
      OBVIOUS
    <3>1. s.wave[i] \in Tasks
      BY <1>1 DEF ScanSpace
    <3> QED BY <2>1, <2>2, <3>1 DEF Matched, Tasks, AllLanes
  <2>4. \A l \in LaneIds : l \in AllLanes
    BY DEF AllLanes
  <2> QED BY <1>2, <1>3, <1>7, <2>1, <2>3, <2>4, SMTT(60) DEF Matched
<1>9. \A l \in LaneIds : Fate(b, t, l, H \cup {m}, offers)
  <2> SUFFICES ASSUME NEW l \in LaneIds PROVE Fate(b, t, l, H \cup {m}, offers)
    OBVIOUS
  <2>1. CASE l = m
    <3>1. Dropped(b, t, m, H \cup {m})
      BY <1>3, <1>5, <1>6, <1>7 DEF Dropped, Waits
    <3> QED BY <2>1, <3>1 DEF Fate
  <2>2. CASE l # m
    <3>1. Fate(b, s, l, H, offers) /\ l \in AllLanes
      BY DEF Scanned, AllLanes
    <3> QED BY <1>3, <1>6, <2>2, <3>1, OthersKept
  <2> QED BY <2>1, <2>2
<1> QED BY <1>4, <1>6, <1>8, <1>9 DEF Scanned, t

LEMMA ScanAdmits ==
  ASSUME ProviderConstants, setup \in Setups, used \in Nat,
         NEW b, NEW s, NEW H, NEW offers, NEW m \in LaneIds, m \notin H,
         Scanned(b, s, H, offers), b.receipts[m].status = "planned",
         NEW spec \in Specs, spec \in offers[m], WaveHasRoom(s), HasSlot(s, spec)
  PROVE  Scanned(b, Admit(s, m, spec), H \cup {m}, offers)
<1> DEFINE t    == Admit(s, m, spec)
           task == [lane |-> m, spec |-> spec]
<1>1. s \in ScanSpace
  BY DEF Scanned
<1>0. /\ m \in AllLanes /\ s.receipts \in [AllLanes -> Receipts]
      /\ s.issues \in [AllLanes -> Nat] /\ s.wave \in Seq(Tasks) /\ task \in Tasks
  BY <1>1 DEF ScanSpace, AllLanes, Tasks
<1> DEFINE new == [Commit(s.receipts[m], m, spec) EXCEPT !.status = "running"]
<1>2. /\ t.wave = Append(s.wave, task) /\ t.left = s.left /\ t.deferred = s.deferred
      /\ t.receipts = [s.receipts EXCEPT ![m] = new]
      /\ t.issues = s.issues
  BY <1>1 DEF ScanSpace, Admit
<1>3. /\ new \in Receipts /\ new.status = "running" /\ new.spec = spec
      /\ new.fallback_from = (spec # PrimaryOf(m))
      /\ new.attempts = s.receipts[m].attempts
  <2>1. s.receipts[m] \in Receipts /\ spec \in Names
    BY <1>0 DEF Names
  <2>2. (spec # PrimaryOf(m)) \in BOOLEAN
    OBVIOUS
  <2> QED BY <2>1, <2>2 DEF Receipts, LaneStatuses, Commit
<1>4. t \in ScanSpace
  <2>1. Append(s.wave, task) \in Seq(Tasks)
    BY <1>0
  <2>2. /\ s.left \in Seq(LaneIds) /\ s.deferred \in Seq(LaneIds)
        /\ [s.receipts EXCEPT ![m] = new] \in [AllLanes -> Receipts]
    <3> HIDE DEF new
    <3> QED BY <1>0, <1>1, <1>3 DEF ScanSpace
  <2> DEFINE R == [s.receipts EXCEPT ![m] = new]
             w == Append(s.wave, task)
  <2>3. t = [s EXCEPT !.wave = w, !.receipts = R]
    BY DEF Admit
  <2> HIDE DEF t, new, task, R, w
  <2> QED BY <1>1, <2>1, <2>2, <2>3 DEF ScanSpace, R, w
<1>10. task.lane = m /\ task.spec = spec
  OBVIOUS
<1> HIDE DEF t, new, task
<1>5. /\ s.receipts[m] = b.receipts[m] /\ s.issues[m] = b.issues[m]
      /\ m \notin ToSet(s.left) /\ m \notin ToSet(s.deferred)
  BY Unreached
<1>6. Apart(t) /\ Waits(t) = Waits(s)
  BY <1>2 DEF Apart, Waits, Scanned
<1>7. Fits(t)
  <2>1. Len(s.wave) \in Nat /\ Len(t.wave) = Len(s.wave) + 1
    BY <1>0, <1>2
  <2>2. Len(s.wave) < Concurrency /\ ~(used + Len(s.wave) >= setup.budget)
    BY DEF WaveHasRoom, Exhausted
  <2>3. Concurrency \in Nat /\ setup.budget \in Nat
    BY SetupsAssumption DEF ProviderConstants
  <2>4. Len(t.wave) <= Concurrency /\ used + Len(t.wave) <= setup.budget
    BY <2>1, <2>2, <2>3
  <2>5. ASSUME NEW p \in Providers
        PROVE  InWave(t.wave, p) <= LimitFor(p)
    <3>1. /\ InWave(s.wave, p) \in Nat
          /\ ProviderOf(spec) # p => InWave(t.wave, p) = InWave(s.wave, p)
          /\ InWave(t.wave, p) <= InWave(s.wave, p) + 1
          /\ InWave(t.wave, p) \in Nat
      <4>1. Append(s.wave, task) \in Seq(Tasks)
        BY <1>0
      <4>2. InWave(Append(s.wave, task), p) \in Nat
        BY <1>0, <4>1, OneMore
      <4>3. /\ InWave(s.wave, p) \in Nat
            /\ ProviderOf(task.spec) # p =>
                 InWave(Append(s.wave, task), p) = InWave(s.wave, p)
            /\ InWave(Append(s.wave, task), p) <= InWave(s.wave, p) + 1
        BY <1>0, OneMore
      <4> QED BY <1>2, <1>10, <4>2, <4>3
    <3>2. InWave(s.wave, p) <= LimitFor(p)
      BY DEF Scanned, Fits
    <3>3. LimitFor(p) \in Nat
      BY DEF LimitFor, ProviderConstants
    <3>4. ProviderOf(spec) = p => InWave(s.wave, p) < LimitFor(p)
      BY DEF HasSlot
    <3> QED BY <3>1, <3>2, <3>3, <3>4
  <2> QED BY <2>4, <2>5 DEF Fits
<1>8. Matched(t)
  <2>1. Matched(s)
    BY DEF Scanned
  <2>2. /\ DOMAIN t.wave = DOMAIN s.wave \cup {Len(s.wave) + 1}
        /\ \A i \in DOMAIN s.wave : t.wave[i] = s.wave[i]
        /\ t.wave[Len(s.wave) + 1] = task
    BY <1>0, <1>2
  <2>3. \A l \in AllLanes : t.receipts[l] = IF l = m THEN new ELSE s.receipts[l]
    BY <1>0, <1>2
  <2>4. \A i \in DOMAIN s.wave : s.wave[i].lane \in AllLanes /\ s.wave[i].lane # m
    <3> SUFFICES ASSUME NEW i \in DOMAIN s.wave
                 PROVE  s.wave[i].lane \in AllLanes /\ s.wave[i].lane # m
      OBVIOUS
    <3>1. s.wave[i] \in Tasks
      BY <1>1 DEF ScanSpace
    <3> QED BY <1>5, <2>1, <3>1 DEF Matched, Tasks, AllLanes
  <2>5. \A l \in LaneIds : l \in AllLanes
    BY DEF AllLanes
  <2>6. ASSUME NEW i \in DOMAIN t.wave
        PROVE  /\ t.receipts[t.wave[i].lane].status = "running"
               /\ t.receipts[t.wave[i].lane].spec = t.wave[i].spec
    <3>1. CASE i \in DOMAIN s.wave
      BY <2>1, <2>2, <2>3, <2>4, <3>1 DEF Matched
    <3>2. CASE i = Len(s.wave) + 1
      BY <1>0, <1>3, <1>10, <2>2, <2>3, <3>2
    <3> QED BY <2>2, <3>1, <3>2
  <2>7. ASSUME NEW l \in LaneIds, t.receipts[l].status = "running"
        PROVE  \E i \in DOMAIN t.wave : t.wave[i].lane = l
    <3>1. CASE l = m
      BY <1>10, <2>2, <3>1
    <3>2. CASE l # m
      BY <2>1, <2>2, <2>3, <2>5, <2>7, <3>2 DEF Matched
    <3> QED BY <3>1, <3>2
  <2> QED BY <2>6, <2>7 DEF Matched
<1>9. \A l \in LaneIds : Fate(b, t, l, H \cup {m}, offers)
  <2> SUFFICES ASSUME NEW l \in LaneIds PROVE Fate(b, t, l, H \cup {m}, offers)
    OBVIOUS
  <2>1. l \in AllLanes
    BY DEF AllLanes
  <2>2. CASE l = m
    <3>1. t.receipts[m] = new /\ t.issues[m] = s.issues[m]
      BY <1>0, <1>2
    <3>2. Joined(b, t, m, H \cup {m}, offers)
      BY <1>3, <1>5, <1>6, <3>1 DEF Joined, Waits
    <3> QED BY <2>2, <3>2 DEF Fate
  <2>3. CASE l # m
    <3>1. Fate(b, s, l, H, offers)
      BY DEF Scanned
    <3>2. t.receipts[l] = s.receipts[l] /\ t.issues[l] = s.issues[l]
      BY <1>0, <1>2, <2>1, <2>3
    <3> QED BY <1>6, <2>3, <3>1, <3>2, OthersKept
  <2> QED BY <2>2, <2>3
<1> QED BY <1>4, <1>6, <1>7, <1>8, <1>9 DEF Scanned, t

\* What a lane of each queue may be called with.
RetryOffers   == [l \in LaneIds |-> {forced[l]}]
PendingOffers == [l \in LaneIds |-> {PrimaryOf(l), Fallback(l)} \cap usable]

LEMMA ScanStarts ==
  ASSUME NEW b \in ScanSpace, NEW offers, b.left = << >>, b.deferred = << >>, Fits(b), Matched(b)
  PROVE  Scanned(b, b, {}, offers)
<1>1. \A j : j \notin DOMAIN << >>
  OBVIOUS
<1>2. ToSet(<< >>) = {} /\ IsInjective(<< >>)
  BY <1>1 DEF ToSet, IsInjective
<1>3. Apart(b) /\ Waits(b) = {}
  BY <1>2 DEF Apart, Waits
<1> QED BY <1>3 DEF Scanned, Fate, Kept

LEMMA RetryStep ==
  ASSUME ProviderConstants, setup \in Setups, used \in Nat,
         NEW b, NEW s, NEW H, NEW m \in LaneIds, m \notin H, Scanned(b, s, H, RetryOffers),
         b.receipts[m].status = "planned", forced[m] \in Specs
  PROVE  Scanned(b, ScanRetry(s, m), H \cup {m}, RetryOffers)
<1>1. forced[m] \in RetryOffers[m]
  BY DEF RetryOffers
<1>2. CASE ~WaveHasRoom(s)
  BY <1>2, ScanLeaves DEF ScanRetry
<1>3. CASE WaveHasRoom(s) /\ HasSlot(s, forced[m])
  <2>1. ScanRetry(s, m) = Admit(s, m, forced[m])
    BY <1>3 DEF ScanRetry
  <2> QED BY <1>1, <1>3, <2>1, ScanAdmits
<1>4. CASE WaveHasRoom(s) /\ ~HasSlot(s, forced[m])
  BY <1>4, ScanDefers DEF ScanRetry, Defer
<1> QED BY <1>2, <1>3, <1>4

LEMMA PendingStep ==
  ASSUME ProviderConstants, setup \in Setups, used \in Nat,
         usable \subseteq {p \in Specs : HasKey(p)},
         NEW b, NEW s, NEW H, NEW m \in LaneIds, m \notin H, Scanned(b, s, H, PendingOffers)
  PROVE  Scanned(b, ScanPending(s, m), H \cup {m}, PendingOffers)
<1> DEFINE spec == SelectedUnder(PrimaryOf(m), Fallback(m), usable, pressure)
<1>1. spec = "none" \/ (spec \in PendingOffers[m] /\ spec \in Specs /\ HasKey(spec))
  <2>1. spec = "none" \/ spec \in {PrimaryOf(m), Fallback(m)} \cap usable
    BY DEF SelectedUnder, Selected
  <2>2. PendingOffers[m] = {PrimaryOf(m), Fallback(m)} \cap usable
    BY DEF PendingOffers
  <2> HIDE DEF spec
  <2> QED BY <2>1, <2>2
<1>2. ScanPending(s, m) =
        IF ~WaveHasRoom(s) THEN [s EXCEPT !.left = Append(@, m)]
        ELSE IF s.receipts[m].status # "planned" THEN s
        ELSE IF spec = "none" THEN Lost(s, m, "preflight_failed")
        ELSE IF ~HasKey(spec) THEN Lost([s EXCEPT !.receipts[m] = Commit(@, m, spec)],
                                        m, "missing_key")
        ELSE IF HasSlot(s, spec) THEN Admit(s, m, spec)
        ELSE Defer(s, m, spec)
  BY DEF ScanPending
<1> HIDE DEF spec
<1>3. s.receipts[m] = b.receipts[m]
  BY Unreached
<1>4. CASE ~WaveHasRoom(s)
  BY <1>2, <1>4, ScanLeaves
<1>5. CASE WaveHasRoom(s) /\ s.receipts[m].status # "planned"
  <2>1. ScanPending(s, m) = s
    BY <1>2, <1>5
  <2>2. ASSUME NEW l \in LaneIds
        PROVE  Fate(b, s, l, H \cup {m}, PendingOffers)
    <3>1. Fate(b, s, l, H, PendingOffers)
      BY DEF Scanned
    <3>2. CASE l # m
      BY <3>1, <3>2, OthersKept
    <3>3. CASE l = m
      BY <1>3, <1>5, <3>1, <3>3 DEF Fate, Kept, Joined, Dropped
    <3> QED BY <3>2, <3>3
  <2> QED BY <2>1, <2>2 DEF Scanned
<1>6. CASE WaveHasRoom(s) /\ s.receipts[m].status = "planned" /\ spec = "none"
  <2>1. ScanPending(s, m) = Lost(s, m, "preflight_failed")
    BY <1>2, <1>6
  <2> QED BY <1>3, <1>6, <2>1, ScanDrops
<1>7. CASE WaveHasRoom(s) /\ s.receipts[m].status = "planned" /\ spec # "none"
  <2>1. CASE HasSlot(s, spec)
    <3>1. ScanPending(s, m) = Admit(s, m, spec)
      BY <1>1, <1>2, <1>7, <2>1
    <3> QED BY <1>1, <1>3, <1>7, <2>1, <3>1, ScanAdmits
  <2>2. CASE ~HasSlot(s, spec)
    BY <1>1, <1>2, <1>7, <2>2, ScanDefers DEF Defer
  <2> QED BY <2>1, <2>2
<1> QED BY <1>4, <1>5, <1>6, <1>7

\* The lanes among the first n of a queue.
Upto(lanes, n) == {lanes[i] : i \in 1 .. n}

LEMMA Reach ==
  ASSUME NEW S, NEW lanes \in Seq(S), IsInjective(lanes)
  PROVE  /\ Upto(lanes, 0) = {}
         /\ Upto(lanes, Len(lanes)) = ToSet(lanes)
         /\ \A n \in 1 .. Len(lanes) : /\ lanes[n] \in ToSet(lanes) /\ lanes[n] \in S
                                       /\ lanes[n] \notin Upto(lanes, n - 1)
                                       /\ Upto(lanes, n) = Upto(lanes, n - 1) \cup {lanes[n]}
<1>1. DOMAIN lanes = 1 .. Len(lanes) /\ Len(lanes) \in Nat
  OBVIOUS
<1>2. Upto(lanes, 0) = {} /\ Upto(lanes, Len(lanes)) = ToSet(lanes)
  BY <1>1 DEF Upto, ToSet
<1>3. ASSUME NEW n \in 1 .. Len(lanes)
      PROVE  /\ lanes[n] \in ToSet(lanes) /\ lanes[n] \in S
             /\ lanes[n] \notin Upto(lanes, n - 1)
             /\ Upto(lanes, n) = Upto(lanes, n - 1) \cup {lanes[n]}
  <2>1. lanes[n] \in ToSet(lanes) /\ lanes[n] \in S
    BY <1>1 DEF ToSet
  <2>2. ASSUME lanes[n] \in Upto(lanes, n - 1)
        PROVE  FALSE
    <3>1. PICK i \in 1 .. n - 1 : lanes[i] = lanes[n]
      BY <2>2 DEF Upto
    <3>2. i \in DOMAIN lanes /\ n \in DOMAIN lanes /\ i # n
      BY <1>1
    <3> QED BY <3>1, <3>2 DEF IsInjective
  <2>3. \A i : i \in 1 .. n <=> i \in 1 .. n - 1 \/ i = n
    OBVIOUS
  <2>4. Upto(lanes, n) = Upto(lanes, n - 1) \cup {lanes[n]}
    BY <2>3 DEF Upto
  <2> QED BY <2>1, <2>2, <2>4
<1> QED BY <1>2, <1>3

LEMMA RetriesScan ==
  ASSUME ProviderConstants, setup \in Setups, used \in Nat,
         NEW b \in ScanSpace, NEW lanes \in Seq(LaneIds), IsInjective(lanes),
         Scanned(b, b, {}, RetryOffers),
         \A l \in ToSet(lanes) : b.receipts[l].status = "planned" /\ forced[l] \in Specs
  PROVE  Scanned(b, RetriesScanned(b, lanes), ToSet(lanes), RetryOffers)
<1> DEFINE L == Len(lanes)
           F == [n \in 0 .. L |-> {s \in ScanSpace : Scanned(b, s, Upto(lanes, n), RetryOffers)}]
<1>1. L \in Nat /\ F \in [0 .. L -> SUBSET ScanSpace] /\ 0 \in 0 .. L /\ L \in 0 .. L
  OBVIOUS
<1>2. /\ Upto(lanes, 0) = {} /\ Upto(lanes, L) = ToSet(lanes)
      /\ \A n \in 1 .. L : /\ lanes[n] \in ToSet(lanes) /\ lanes[n] \in LaneIds
                           /\ lanes[n] \notin Upto(lanes, n - 1)
                           /\ Upto(lanes, n) = Upto(lanes, n - 1) \cup {lanes[n]}
  BY Reach
<1>3. b \in F[0]
  <2>1. F[0] = {s \in ScanSpace : Scanned(b, s, Upto(lanes, 0), RetryOffers)}
    BY <1>1
  <2>2. Scanned(b, b, Upto(lanes, 0), RetryOffers)
    BY <1>2
  <2> HIDE DEF F
  <2> QED BY <2>1, <2>2
<1>4. ASSUME NEW n \in 1 .. L, NEW s \in F[n - 1]
      PROVE  ScanRetry(s, lanes[n]) \in F[n]
  <2>1. n \in 0 .. L /\ n - 1 \in 0 .. L
    OBVIOUS
  <2>2. Scanned(b, s, Upto(lanes, n - 1), RetryOffers)
    BY <2>1
  <2>3. Scanned(b, ScanRetry(s, lanes[n]), Upto(lanes, n), RetryOffers)
    BY <1>2, <2>2, RetryStep
  <2>4. ScanRetry(s, lanes[n]) \in ScanSpace
    BY <2>3 DEF Scanned
  <2> QED BY <2>1, <2>3, <2>4
<1> HIDE DEF F, L
<1>5. Len(lanes) = L
  BY DEF L
<1>6. RetriesScanned(b, lanes) \in F[L]
  BY <1>1, <1>3, <1>4, <1>5, RetriesEnd
<1> QED BY <1>1, <1>2, <1>6 DEF F

LEMMA PendingScan ==
  ASSUME ProviderConstants, setup \in Setups, used \in Nat,
         usable \subseteq {p \in Specs : HasKey(p)},
         NEW b \in ScanSpace, NEW lanes \in Seq(LaneIds), IsInjective(lanes),
         Scanned(b, b, {}, PendingOffers)
  PROVE  Scanned(b, PendingScanned(b, lanes), ToSet(lanes), PendingOffers)
<1> DEFINE L == Len(lanes)
           F == [n \in 0 .. L |-> {s \in ScanSpace : Scanned(b, s, Upto(lanes, n), PendingOffers)}]
<1>1. L \in Nat /\ F \in [0 .. L -> SUBSET ScanSpace] /\ 0 \in 0 .. L /\ L \in 0 .. L
  OBVIOUS
<1>2. /\ Upto(lanes, 0) = {} /\ Upto(lanes, L) = ToSet(lanes)
      /\ \A n \in 1 .. L : /\ lanes[n] \in ToSet(lanes) /\ lanes[n] \in LaneIds
                           /\ lanes[n] \notin Upto(lanes, n - 1)
                           /\ Upto(lanes, n) = Upto(lanes, n - 1) \cup {lanes[n]}
  BY Reach
<1>3. b \in F[0]
  <2>1. F[0] = {s \in ScanSpace : Scanned(b, s, Upto(lanes, 0), PendingOffers)}
    BY <1>1
  <2>2. Scanned(b, b, Upto(lanes, 0), PendingOffers)
    BY <1>2
  <2> HIDE DEF F
  <2> QED BY <2>1, <2>2
<1>4. ASSUME NEW n \in 1 .. L, NEW s \in F[n - 1]
      PROVE  ScanPending(s, lanes[n]) \in F[n]
  <2>1. n \in 0 .. L /\ n - 1 \in 0 .. L
    OBVIOUS
  <2>2. Scanned(b, s, Upto(lanes, n - 1), PendingOffers)
    BY <2>1
  <2>3. Scanned(b, ScanPending(s, lanes[n]), Upto(lanes, n), PendingOffers)
    BY <1>2, <2>2, PendingStep
  <2>4. ScanPending(s, lanes[n]) \in ScanSpace
    BY <2>3 DEF Scanned
  <2> QED BY <2>1, <2>3, <2>4
<1> HIDE DEF F, L
<1>5. Len(lanes) = L
  BY DEF L
<1>6. PendingScanned(b, lanes) \in F[L]
  BY <1>1, <1>3, <1>4, <1>5, PendingEnd
<1> QED BY <1>1, <1>2, <1>6 DEF F

LEMMA EachProven == ProvenanceTrue <=> \A l \in LaneIds : Proven(l)
BY DEF ProvenanceTrue, Proven

\* The calls of a lane, one at a time.
LEMMA OneCall ==
  ASSUME NEW p \in Specs
  PROVE  /\ Append(<< >>, p) = <<p>> /\ Len(<<p>>) = 1 /\ Last(<<p>>) = p /\ <<p>> # << >>
         /\ \A q \in Specs : /\ Append(<<p>>, q) = <<p, q>> /\ Len(<<p, q>>) = 2
                             /\ Last(<<p, q>>) = q /\ <<p, q>> # << >>
<1>1. Append(<< >>, p) = <<p>> /\ Len(<<p>>) = 1 /\ <<p>>[1] = p /\ <<p>> # << >>
  OBVIOUS
<1>2. ASSUME NEW q \in Specs
      PROVE  /\ Append(<<p>>, q) = <<p, q>> /\ Len(<<p, q>>) = 2
             /\ Last(<<p, q>>) = q /\ <<p, q>> # << >>
  <2> DEFINE a == Append(<<p>>, q)
             c == <<p, q>>
  <2>4. a \in Seq(Specs) /\ Len(a) = 2 /\ a[1] = p /\ a[2] = q
    BY <1>1
  <2>5. c \in Seq(Specs) /\ Len(c) = 2 /\ c[1] = p /\ c[2] = q
    OBVIOUS
  <2>6. a = c
    <3> HIDE DEF a, c
    <3>1. \A i \in 1 .. 2 : i = 1 \/ i = 2
      OBVIOUS
    <3> QED BY <2>4, <2>5, <3>1, SeqEqual
  <2>1. Append(<<p>>, q) = <<p, q>>
    BY <2>6
  <2>2. Len(<<p, q>>) = 2 /\ <<p, q>>[2] = q
    OBVIOUS
  <2>3. <<p, q>> # << >>
    OBVIOUS
  <2> QED BY <2>1, <2>2, <2>3 DEF Last
<1> QED BY <1>1, <1>2 DEF Last

\* Before a wave nothing runs and the calls fit.
LEMMA Before ==
  ASSUME WaveInv, stage = "wave"
  PROVE  /\ \A l \in LaneIds : receipts[l].status # "running"
         /\ \A l \in ToSet(retry) :
              l \in LaneIds /\ receipts[l].status = "planned" /\ forced[l] \in Specs
         /\ calls = 0 /\ used <= setup.budget
<1>1. \A l \in LaneIds : receipts[l].status # "running"
  BY DEF WaveInv, Early, LanesInv, LaneAt, Awaits, Calling, LaneTold
<1>2. ASSUME NEW l \in ToSet(retry)
      PROVE  l \in LaneIds /\ receipts[l].status = "planned" /\ forced[l] \in Specs
  <2>1. l \in LaneIds
    BY DEF WaveInv, WaveTyped, ToSet
  <2>2. Awaits(l)
    BY <2>1 DEF WaveInv, Early, LanesInv, LaneAt, Calling
  <2>3. forced[l] \in Names
    BY <2>1 DEF WaveInv, WaveTyped
  <2> QED BY <2>1, <2>2, <2>3 DEF Awaits, Names
<1>3. calls = 0 /\ used <= setup.budget
  <2>1. calls = 0 /\ used + calls <= setup.budget
    BY DEF WaveInv, CallsInv, Early
  <2>2. used \in Nat /\ setup.budget \in Nat
    BY SetupsAssumption DEF WaveInv, WaveTyped
  <2> QED BY <2>1, <2>2
<1> QED BY <1>1, <1>2, <1>3

\* An empty wave fits.
LEMMA EmptyWave == Len(<< >>) <= Concurrency /\ \A p \in Providers : InWave(<< >>, p) <= LimitFor(p)
<1>1. Len(<< >>) = 0 /\ Concurrency \in Nat
  BY ProviderConstants
<1>2. \A j : j \notin DOMAIN << >>
  OBVIOUS
<1>3. ASSUME NEW p \in Providers
      PROVE  InWave(<< >>, p) <= LimitFor(p)
  <2>1. {i \in DOMAIN << >> : ProviderOf(<< >>[i].spec) = p} = {}
    BY <1>2
  <2>2. InWave(<< >>, p) = 0
    BY <2>1, FS_EmptySet DEF InWave
  <2>3. LimitFor(p) \in Nat
    BY ProviderConstants DEF LimitFor
  <2> QED BY <2>2, <2>3
<1> QED BY <1>1, <1>3

\* The scan begins with an empty wave.
LEMMA FirstScan ==
  ASSUME ProviderConstants, WaveInv, stage = "wave",
         NEW b, b = [wave |-> << >>, receipts |-> receipts, issues |-> issues,
                     left |-> << >>, deferred |-> << >>]
  PROVE  b \in ScanSpace /\ Scanned(b, b, {}, RetryOffers)
<1>1. /\ b.wave = << >> /\ b.receipts = receipts /\ b.issues = issues
      /\ b.left = << >> /\ b.deferred = << >>
  OBVIOUS
<1>2. b \in ScanSpace
  <2>1. << >> \in Seq(LaneIds) /\ << >> \in Seq(Tasks)
    OBVIOUS
  <2>2. receipts \in [AllLanes -> Receipts] /\ issues \in [AllLanes -> Nat]
    BY DEF WaveInv, WaveTyped
  <2> QED BY <2>1, <2>2 DEF ScanSpace
<1>3. \A j : j \notin DOMAIN << >>
  OBVIOUS
<1>4. Fits(b)
  <2>1. Len(<< >>) = 0
    OBVIOUS
  <2>2. used <= setup.budget /\ used \in Nat /\ setup.budget \in Nat
    BY Before, SetupsAssumption DEF WaveInv, WaveTyped
  <2> QED BY <1>1, <2>1, <2>2, EmptyWave DEF Fits
<1>5. Matched(b)
  BY <1>1, <1>3, Before DEF Matched
<1> QED BY <1>1, <1>2, <1>4, <1>5, ScanStarts

\* What a wave that starts makes of a lane.
LEMMA WaveStarts ==
  ASSUME ProviderConstants, WaveInv, StartWave, UNCHANGED calls
  PROVE  WaveInv'
<1> DEFINE first == [wave |-> << >>, receipts |-> receipts, issues |-> issues,
                     left |-> << >>, deferred |-> << >>]
           one   == RetriesScanned(first, retry)
           base  == [one EXCEPT !.left = << >>, !.deferred = << >>]
           all   == PendingScanned(base, pending)
           runs(l) == \E i \in DOMAIN all.wave : all.wave[i].lane = l
           to(l)   == LET i == CHOOSE j \in DOMAIN all.wave : all.wave[j].lane = l
                      IN all.wave[i].spec
<1>1. /\ stage = "wave" /\ setup' = setup /\ usable' = usable /\ forced' = forced
      /\ calls' = calls /\ pressure' = {}
      /\ retry' = one.left \o one.deferred /\ pending' = all.left \o all.deferred
      /\ receipts' = [l \in AllLanes |-> IF runs(l) THEN Attempted(all.receipts[l])
                                         ELSE all.receipts[l]]
      /\ issues' = all.issues /\ wave' = all.wave
      /\ used' = used + Len(all.wave) /\ sent' = sent + Len(all.wave)
      /\ called' = [l \in LaneIds |-> IF runs(l) THEN Append(called[l], to(l)) ELSE called[l]]
      /\ stage' = IF all.wave = << >> THEN "wave" ELSE "running"
  BY DEF StartWave
<1>2. WaveTyped /\ LanesInv
  BY <1>1 DEF WaveInv, Early
<1>3. Scanned(first, one, ToSet(retry), RetryOffers)
  <2>1. first \in ScanSpace /\ Scanned(first, first, {}, RetryOffers)
    BY <1>1, FirstScan
  <2>2. first.receipts = receipts
    OBVIOUS
  <2>3. \A l \in ToSet(retry) : receipts[l].status = "planned" /\ forced[l] \in Specs
    BY <1>1, Before
  <2>4. setup \in Setups /\ used \in Nat /\ retry \in Seq(LaneIds) /\ IsInjective(retry)
    BY <1>2 DEF WaveTyped, LanesInv
  <2> HIDE DEF first
  <2> QED BY <2>1, <2>2, <2>3, <2>4, RetriesScan
<1>4. first.receipts = receipts /\ first.issues = issues
  OBVIOUS
<1> HIDE DEF first, one
<1>5. /\ base.wave = one.wave /\ base.receipts = one.receipts /\ base.issues = one.issues
      /\ base.left = << >> /\ base.deferred = << >> /\ base \in ScanSpace
  <2>1. one \in ScanSpace
    BY <1>3 DEF Scanned
  <2>2. << >> \in Seq(LaneIds)
    OBVIOUS
  <2> QED BY <2>1, <2>2 DEF ScanSpace
<1> HIDE DEF base
<1>6. Scanned(base, all, ToSet(pending), PendingOffers)
  <2>1. Fits(base) /\ Matched(base)
    BY <1>3, <1>5 DEF Scanned, Fits, Matched
  <2>2. Scanned(base, base, {}, PendingOffers)
    BY <1>5, <2>1, ScanStarts
  <2>3. /\ setup \in Setups /\ used \in Nat /\ usable \subseteq {p \in Specs : HasKey(p)}
        /\ pending \in Seq(LaneIds) /\ IsInjective(pending)
    BY <1>2 DEF WaveTyped, LanesInv
  <2> QED BY <1>5, <2>2, <2>3, PendingScan
<1> HIDE DEF all
<1>7. /\ all \in ScanSpace /\ all.wave \in Seq(Tasks) /\ all.issues \in [AllLanes -> Nat]
      /\ all.receipts \in [AllLanes -> Receipts]
      /\ all.left \in Seq(LaneIds) /\ all.deferred \in Seq(LaneIds)
      /\ one.left \in Seq(LaneIds) /\ one.deferred \in Seq(LaneIds)
      /\ Apart(one) /\ Apart(all) /\ Fits(all) /\ Matched(all)
  BY <1>3, <1>6 DEF Scanned, ScanSpace
<1>8. /\ retry' \in Seq(LaneIds) /\ ToSet(retry') = Waits(one) /\ IsInjective(retry')
      /\ pending' \in Seq(LaneIds) /\ ToSet(pending') = Waits(all) /\ IsInjective(pending')
  BY <1>1, <1>7, Joint DEF Apart, Waits
<1>9. ASSUME NEW l \in AllLanes
      PROVE  /\ runs(l) => to(l) \in Specs
             /\ l \in LaneIds => /\ runs(l) <=> all.receipts[l].status = "running"
                                 /\ runs(l) => to(l) = all.receipts[l].spec
             /\ Attempted(all.receipts[l]) \in Receipts /\ all.receipts[l] \in Receipts
  <2>1. ASSUME runs(l)
        PROVE  /\ to(l) \in Specs
               /\ l \in LaneIds => /\ all.receipts[l].status = "running"
                                   /\ to(l) = all.receipts[l].spec
    <3> DEFINE j == CHOOSE i \in DOMAIN all.wave : all.wave[i].lane = l
    <3>1. j \in DOMAIN all.wave /\ all.wave[j].lane = l
      BY <2>1
    <3>2. to(l) = all.wave[j].spec
      OBVIOUS
    <3> HIDE DEF j
    <3>3. all.wave[j] \in Tasks
      BY <1>7, <3>1
    <3> QED BY <1>7, <3>1, <3>2, <3>3 DEF Matched, Tasks
  <2>2. ASSUME l \in LaneIds, all.receipts[l].status = "running"
        PROVE  runs(l)
    BY <1>7, <2>2 DEF Matched
  <2>3. all.receipts[l] \in Receipts
    BY <1>7
  <2>4. Attempted(all.receipts[l]) \in Receipts
    BY <2>3 DEF Attempted, Receipts
  <2> QED BY <2>1, <2>2, <2>3, <2>4
<1> HIDE DEF runs, to
<1>10. /\ LaneIds' = LaneIds /\ AllLanes' = AllLanes /\ Tasks' = Tasks
       /\ \A l : PrimaryOf(l)' = PrimaryOf(l) /\ Fallback(l)' = Fallback(l)
       /\ \A p : HasKey(p)' = HasKey(p)
  BY <1>1 DEF LaneIds, AllLanes, Tasks, PrimaryOf, Fallback, HasKey
<1>11. WaveTyped'
  <2>1. receipts' \in [AllLanes -> Receipts] /\ issues' \in [AllLanes -> Nat]
    BY <1>1, <1>7, <1>9
  <2>2. called' \in [LaneIds -> Seq(Specs)]
    <3>1. ASSUME NEW l \in LaneIds
          PROVE  (IF runs(l) THEN Append(called[l], to(l)) ELSE called[l]) \in Seq(Specs)
      <4>1. called[l] \in Seq(Specs) /\ l \in AllLanes
        BY <1>2 DEF WaveTyped, AllLanes
      <4> QED BY <1>9, <4>1
    <3> QED BY <1>1, <3>1
  <2>3. used' \in Nat /\ sent' \in Nat /\ wave' \in Seq(Tasks)
    <3>1. Len(all.wave) \in Nat
      BY <1>7
    <3> QED BY <1>1, <1>2, <1>7, <3>1 DEF WaveTyped
  <2> QED BY <1>1, <1>2, <1>8, <1>10, <2>1, <2>2, <2>3 DEF WaveTyped
<1>12. CallsInv'
  <2>1. calls = 0 /\ sent <= used + calls
    BY <1>1 DEF WaveInv, CallsInv, Early
  <2>2. /\ Len(all.wave) \in Nat /\ used + Len(all.wave) <= setup.budget
        /\ used \in Nat /\ sent \in Nat /\ setup.budget \in Nat
    BY <1>2, <1>7, SetupsAssumption DEF WaveTyped, Fits
  <2> QED BY <1>1, <2>1, <2>2 DEF CallsInv
<1>13. WaveFits' /\ LossesTold'
  <2>1. WaveFits'
    BY <1>1, <1>7 DEF WaveFits, Fits
  <2>2. ~Swept'
    BY <1>1 DEF Swept
  <2> QED BY <2>1, <2>2 DEF LossesTold
<1>14. ASSUME NEW l \in LaneIds
       PROVE  /\ l \in AllLanes
              /\ receipts'[l].status = all.receipts[l].status
              /\ receipts'[l].spec = all.receipts[l].spec
              /\ receipts'[l].fallback_from = all.receipts[l].fallback_from
              /\ receipts'[l].attempts = IF all.receipts[l].status = "running"
                                         THEN all.receipts[l].attempts + 1
                                         ELSE all.receipts[l].attempts
              /\ called'[l] = IF all.receipts[l].status = "running"
                              THEN Append(called[l], all.receipts[l].spec) ELSE called[l]
              /\ all.receipts[l].status = "running" => stage' = "running"
  <2>1. l \in AllLanes /\ (runs(l) <=> all.receipts[l].status = "running")
    BY <1>9 DEF AllLanes
  <2>2. receipts'[l] = IF runs(l) THEN Attempted(all.receipts[l]) ELSE all.receipts[l]
    BY <1>1, <2>1
  <2>3. all.receipts[l] \in Receipts
    BY <1>9, <2>1
  <2>4. /\ Attempted(all.receipts[l]).status = all.receipts[l].status
        /\ Attempted(all.receipts[l]).spec = all.receipts[l].spec
        /\ Attempted(all.receipts[l]).fallback_from = all.receipts[l].fallback_from
        /\ Attempted(all.receipts[l]).attempts = all.receipts[l].attempts + 1
    BY <2>3 DEF Attempted, Receipts
  <2>5. called'[l] = IF runs(l) THEN Append(called[l], to(l)) ELSE called[l]
    BY <1>1
  <2>6. all.receipts[l].status = "running" => all.wave # << >>
    <3>1. \A j : j \notin DOMAIN << >>
      OBVIOUS
    <3> QED BY <1>7, <3>1 DEF Matched
  <2> QED BY <1>1, <1>9, <2>1, <2>2, <2>4, <2>5, <2>6
<1>15. ASSUME NEW l \in LaneIds
       PROVE  LaneAt(l)' /\ Proven(l)'
  <2>1. Fate(first, one, l, ToSet(retry), RetryOffers)
    BY <1>3 DEF Scanned
  <2>2. Fate(base, all, l, ToSet(pending), PendingOffers)
    BY <1>6 DEF Scanned
  <2>3. LaneAt(l) /\ Proven(l) /\ receipts[l].status # "running"
    BY <1>1, <1>2, Before, EachProven DEF LanesInv, WaveInv
  <2>4. /\ receipts[l] \in Receipts /\ issues[l] \in Nat /\ called[l] \in Seq(Specs)
        /\ PrimaryOf(l) \in Specs
    BY <1>2 DEF WaveTyped, AllLanes, PrimaryOf, Primary, Specs
  <2>5. /\ issues'[l] = all.issues[l] /\ forced'[l] = forced[l]
        /\ l \in ToSet(pending') <=> l \in Waits(all)
        /\ l \in ToSet(retry') <=> l \in Waits(one)
    BY <1>1, <1>8
  <2>6. CASE l \in ToSet(pending) /\ l \notin ToSet(retry) /\ receipts[l].status = "planned"
    <3>1. issues[l] = 0 /\ forced[l] = "none" /\ called[l] = << >>
      BY <2>3, <2>6 DEF LaneAt, Awaits, Calling, LaneTold
    <3>2. one.receipts[l] = receipts[l] /\ one.issues[l] = issues[l] /\ l \notin Waits(one)
      BY <1>4, <2>1, <2>6 DEF Fate, Kept, Joined, Dropped
    <3>3. CASE Kept(base, all, l, ToSet(pending))
      <4>1. all.receipts[l] = receipts[l] /\ all.issues[l] = issues[l] /\ l \in Waits(all)
        BY <1>5, <2>6, <3>2, <3>3 DEF Kept
      <4>2. Awaits(l)'
        BY <1>14, <2>5, <2>6, <3>1, <3>2, <4>1 DEF Awaits
      <4>3. Proven(l)'
        BY <1>10, <1>14, <2>3, <2>6, <4>1 DEF Proven
      <4> QED BY <4>2, <4>3 DEF LaneAt
    <3>4. CASE Joined(base, all, l, ToSet(pending), PendingOffers)
      <4> DEFINE spec == all.receipts[l].spec
      <4>1. /\ all.receipts[l].status = "running" /\ all.issues[l] = 0 /\ l \notin Waits(all)
            /\ all.receipts[l].attempts = receipts[l].attempts
            /\ all.receipts[l].fallback_from = (spec # PrimaryOf(l))
            /\ spec \in PendingOffers[l]
        BY <1>5, <3>1, <3>2, <3>4 DEF Joined
      <4>2. spec \in Specs
        BY <1>2, <4>1 DEF PendingOffers, WaveTyped
      <4> DEFINE only == <<spec>>
      <4>7. /\ Append(<< >>, spec) = only /\ Len(only) = 1 /\ Last(only) = spec
            /\ only # << >>
        <5> HIDE DEF spec
        <5> QED BY <4>2, OneCall
      <4> HIDE DEF only
      <4>3. /\ called'[l] = only /\ Len(only) = 1 /\ Last(only) = spec /\ only # << >>
        BY <1>14, <3>1, <4>1, <4>7
      <4> HIDE DEF spec
      <4>4. receipts'[l].attempts = 1
        <5>1. receipts[l].attempts = 0
          BY <2>3, <3>1 DEF Proven
        <5> QED BY <1>14, <4>1, <5>1
      <4>5. Calling(l)'
        BY <1>14, <2>5, <3>2, <4>1, <4>3 DEF Calling
      <4>6. Proven(l)'
        <5>1. /\ receipts'[l].spec = spec /\ receipts'[l].status = "running"
              /\ receipts'[l].fallback_from = (spec # PrimaryOf(l))
          BY <1>14, <4>1 DEF spec
        <5>2. receipts'[l].fallback_from <=> receipts'[l].spec # PrimaryOf(l)'
          BY <1>10, <5>1
        <5> QED BY <1>10, <4>3, <4>4, <5>1, <5>2 DEF Proven
      <4> QED BY <4>5, <4>6 DEF LaneAt
    <3>5. CASE Dropped(base, all, l, ToSet(pending))
      <4>1. /\ all.receipts[l].status = "preflight_failed" /\ all.issues[l] = 1
            /\ all.receipts[l].attempts = receipts[l].attempts
            /\ all.receipts[l].fallback_from = receipts[l].fallback_from
            /\ all.receipts[l].spec = receipts[l].spec
        BY <1>5, <3>1, <3>2, <3>5 DEF Dropped
      <4>2. LaneTold(l)' /\ l \notin ToSet(retry')
        BY <1>14, <2>5, <3>2, <4>1 DEF LaneTold
      <4>3. Proven(l)'
        BY <1>10, <1>14, <2>3, <4>1 DEF Proven
      <4> QED BY <4>2, <4>3 DEF LaneAt
    <3> QED BY <2>2, <3>3, <3>4, <3>5 DEF Fate
  <2>7. CASE l \in ToSet(retry)
    <3>1. /\ receipts[l].status = "planned" /\ issues[l] = 0 /\ l \notin ToSet(pending)
          /\ forced[l] = Fallback(l) /\ forced[l] # "none" /\ called[l] = <<PrimaryOf(l)>>
      BY <2>3, <2>7 DEF LaneAt, Awaits, Calling
    <3>2. all.receipts[l] = one.receipts[l] /\ all.issues[l] = one.issues[l] /\ l \notin Waits(all)
      BY <1>5, <2>2, <3>1 DEF Fate, Kept, Joined, Dropped
    <3>3. CASE Kept(first, one, l, ToSet(retry))
      <4>1. one.receipts[l] = receipts[l] /\ one.issues[l] = 0 /\ l \in Waits(one)
        BY <1>4, <2>7, <3>1, <3>3 DEF Kept
      <4>2. Awaits(l)'
        BY <1>10, <1>14, <2>5, <3>1, <3>2, <4>1 DEF Awaits
      <4>3. Proven(l)'
        <5>1. /\ called'[l] = called[l]
              /\ receipts'[l].status = receipts[l].status
              /\ receipts'[l].spec = receipts[l].spec
              /\ receipts'[l].fallback_from = receipts[l].fallback_from
              /\ receipts'[l].attempts = receipts[l].attempts
          BY <1>14, <3>1, <3>2, <4>1
        <5> QED BY <1>10, <2>3, <5>1 DEF Proven
      <4> QED BY <4>2, <4>3 DEF LaneAt
    <3>4. CASE Joined(first, one, l, ToSet(retry), RetryOffers)
      <4>1. /\ one.receipts[l].status = "running" /\ one.issues[l] = 0 /\ l \notin Waits(one)
            /\ one.receipts[l].attempts = receipts[l].attempts
            /\ one.receipts[l].fallback_from = (forced[l] # PrimaryOf(l))
            /\ one.receipts[l].spec = forced[l]
        BY <1>4, <3>1, <3>4 DEF Joined, RetryOffers
      <4>2. forced[l] \in Specs
        BY <1>2, <3>1 DEF WaveTyped, Names
      <4> DEFINE both == <<PrimaryOf(l), Fallback(l)>>
      <4>3. called'[l] = both /\ Len(both) = 2 /\ Last(both) = Fallback(l) /\ both # << >>
        <5>1. Fallback(l) \in Specs
          BY <3>1, <4>2
        <5>2. /\ Append(<<PrimaryOf(l)>>, Fallback(l)) = both /\ Len(both) = 2
              /\ Last(both) = Fallback(l) /\ both # << >>
          BY <2>4, <5>1, OneCall
        <5>3. called'[l] = Append(<<PrimaryOf(l)>>, Fallback(l))
          BY <1>14, <3>1, <3>2, <4>1, ZenonT(60)
        <5> QED BY <5>2, <5>3
      <4> HIDE DEF both
      <4>4. receipts'[l].attempts = 2
        <5>1. Len(<<PrimaryOf(l)>>) = 1
          OBVIOUS
        <5>2. receipts[l].attempts = 1
          BY <2>3, <3>1, <5>1 DEF Proven
        <5> QED BY <1>14, <3>2, <4>1, <5>2
      <4>5. Calling(l)'
        BY <1>14, <2>5, <3>1, <3>2, <4>1, <4>3 DEF Calling
      <4>6. Proven(l)'
        <5>1. both = <<PrimaryOf(l)', Fallback(l)'>>
          BY <1>10 DEF both
        <5>2. /\ receipts'[l].spec = Fallback(l) /\ receipts'[l].status = "running"
              /\ receipts'[l].fallback_from = (Fallback(l) # PrimaryOf(l))
          BY <1>14, <3>1, <3>2, <4>1
        <5>3. receipts'[l].fallback_from <=> receipts'[l].spec # PrimaryOf(l)'
          BY <1>10, <5>2
        <5> QED BY <1>10, <4>3, <4>4, <5>1, <5>2, <5>3 DEF Proven
      <4> QED BY <4>5, <4>6 DEF LaneAt
    <3>5. CASE Dropped(first, one, l, ToSet(retry))
      <4>1. /\ one.receipts[l].status = "preflight_failed" /\ one.issues[l] = 1
            /\ one.receipts[l].attempts = receipts[l].attempts
            /\ one.receipts[l].fallback_from = receipts[l].fallback_from
            /\ one.receipts[l].spec = receipts[l].spec /\ l \notin Waits(one)
        BY <1>4, <3>1, <3>5 DEF Dropped
      <4>2. LaneTold(l)' /\ l \notin ToSet(retry')
        BY <1>14, <2>5, <3>2, <4>1 DEF LaneTold
      <4>3. Proven(l)'
        BY <1>10, <1>14, <2>3, <3>2, <4>1 DEF Proven
      <4> QED BY <4>2, <4>3 DEF LaneAt
    <3> QED BY <2>1, <3>3, <3>4, <3>5 DEF Fate
  <2>8. CASE receipts[l].status # "planned" /\ l \notin ToSet(retry)
    <3>1. LaneTold(l)
      BY <2>3, <2>8 DEF LaneAt, Awaits, Calling
    <3>2. one.receipts[l] = receipts[l] /\ one.issues[l] = issues[l] /\ l \notin Waits(one)
      BY <1>4, <2>1, <2>8 DEF Fate, Kept, Joined, Dropped
    <3>3. all.receipts[l] = receipts[l] /\ all.issues[l] = issues[l]
      BY <1>5, <2>2, <2>8, <3>2 DEF Fate, Kept, Joined, Dropped
    <3>4. LaneTold(l)' /\ l \notin ToSet(retry')
      BY <1>14, <2>3, <2>5, <3>1, <3>2, <3>3 DEF LaneTold
    <3>5. Proven(l)'
      BY <1>10, <1>14, <2>3, <3>3 DEF Proven
    <3> QED BY <3>4, <3>5 DEF LaneAt
  <2>9. \/ receipts[l].status # "planned" /\ l \notin ToSet(retry)
        \/ l \in ToSet(retry)
        \/ l \in ToSet(pending) /\ l \notin ToSet(retry) /\ receipts[l].status = "planned"
    BY <2>3 DEF LaneAt, Awaits, Calling, LaneTold
  <2> QED BY <2>6, <2>7, <2>8, <2>9
<1>16. LanesInv' /\ ProvenanceTrue'
  <2>1. ProvenanceTrue' <=> \A l \in LaneIds' : Proven(l)'
    BY DEF ProvenanceTrue, Proven
  <2> QED BY <1>8, <1>10, <1>15, <2>1 DEF LanesInv
<1> QED BY <1>11, <1>12, <1>13, <1>16 DEF WaveInv

(***************************************************************************)
(* The answers of a wave, from the state before them to a: where the lanes *)
(* H that were gone through are.                                           *)
(***************************************************************************)
AnswerSpace == [receipts : [AllLanes -> Receipts], issues : [AllLanes -> Nat],
                retry : Seq(LaneIds), forced : [LaneIds -> Names], pressure : SUBSET Providers]

SameCall(r, s) == r.spec = s.spec /\ r.fallback_from = s.fallback_from /\ r.attempts = s.attempts

Unanswered(a, l, H) ==
  /\ l \notin H \cap Running
  /\ a.receipts[l] = receipts[l] /\ a.issues[l] = issues[l] /\ a.forced[l] = forced[l]
  /\ l \in ToSet(a.retry) <=> l \in ToSet(retry)

Requeued(a, l, H) ==
  /\ l \in H \cap Running /\ l \in ToSet(a.retry)
  /\ a.receipts[l].status = "planned" /\ SameCall(a.receipts[l], receipts[l])
  /\ a.issues[l] = issues[l] /\ a.forced[l] = Fallback(l)
  /\ forced[l] = "none" /\ ~receipts[l].fallback_from /\ Fallback(l) # "none"

Over(a, l, H) ==
  /\ l \in H \cap Running /\ l \notin ToSet(a.retry)
  /\ SameCall(a.receipts[l], receipts[l]) /\ a.forced[l] = forced[l]
  /\ \/ a.receipts[l].status = "ok" /\ a.issues[l] = issues[l]
     \/ a.receipts[l].status = "degraded" /\ a.issues[l] \in {issues[l], issues[l] + 1}
     \/ a.receipts[l].status = "failed" /\ a.issues[l] = issues[l] + 1

AnswerAt(a, l, H) == Unanswered(a, l, H) \/ Requeued(a, l, H) \/ Over(a, l, H)

Answered(a, H) ==
  /\ a \in AnswerSpace /\ IsInjective(a.retry)
  /\ \A l \in LaneIds : AnswerAt(a, l, H)

LEMMA OthersAnswered ==
  ASSUME NEW a, NEW t, NEW H, NEW l, NEW m, l # m, AnswerAt(a, l, H),
         t.receipts[l] = a.receipts[l], t.issues[l] = a.issues[l], t.forced[l] = a.forced[l],
         l \in ToSet(t.retry) <=> l \in ToSet(a.retry)
  PROVE  AnswerAt(t, l, H \cup {m})
BY DEF AnswerAt, Unanswered, Requeued, Over, SameCall

\* A running lane no answer of which was gone through yet.
LEMMA NotYet ==
  ASSUME NEW a, NEW H, NEW m \in LaneIds, m \notin H, Answered(a, H)
  PROVE  /\ m \in AllLanes /\ a.receipts[m] = receipts[m] /\ a.issues[m] = issues[m]
         /\ a.forced[m] = forced[m] /\ (m \in ToSet(a.retry) <=> m \in ToSet(retry))
         /\ a.receipts \in [AllLanes -> Receipts] /\ a.issues \in [AllLanes -> Nat]
         /\ a.receipts[m] \in Receipts /\ a.issues[m] \in Nat
<1>1. m \in AllLanes
  BY DEF AllLanes
<1>2. AnswerAt(a, m, H)
  BY DEF Answered
<1>3. a.receipts \in [AllLanes -> Receipts] /\ a.issues \in [AllLanes -> Nat]
  BY DEF Answered, AnswerSpace
<1> QED BY <1>1, <1>2, <1>3 DEF AnswerAt, Unanswered, Requeued, Over

\* A lane is over with a new status, and one issue more or none.
LEMMA EndsOver ==
  ASSUME NEW a, NEW t \in AnswerSpace, NEW H, NEW m \in Running, m \notin H, Answered(a, H),
         m \notin ToSet(retry), NEW status, NEW told \in {0, 1},
         <<status, told>> \in {<<"ok", 0>>, <<"degraded", 0>>, <<"degraded", 1>>, <<"failed", 1>>},
         t.receipts = [a.receipts EXCEPT ![m].status = status],
         t.issues = [a.issues EXCEPT ![m] = @ + told],
         t.retry = a.retry, t.forced = a.forced
  PROVE  Answered(t, H \cup {m})
<1>1. m \in LaneIds
  BY DEF Running
<1>2. /\ m \in AllLanes /\ a.receipts[m] = receipts[m] /\ a.issues[m] = issues[m]
      /\ a.forced[m] = forced[m] /\ m \notin ToSet(a.retry)
      /\ a.receipts \in [AllLanes -> Receipts] /\ a.issues \in [AllLanes -> Nat]
      /\ a.receipts[m] \in Receipts /\ a.issues[m] \in Nat
  BY <1>1, NotYet
<1>3. /\ \A l \in AllLanes : l # m => t.receipts[l] = a.receipts[l] /\ t.issues[l] = a.issues[l]
      /\ t.receipts[m] = [a.receipts[m] EXCEPT !.status = status]
      /\ t.issues[m] = a.issues[m] + told
  BY <1>2
<1>4. t.receipts[m].status = status /\ SameCall(t.receipts[m], receipts[m])
  BY <1>2, <1>3 DEF Receipts, SameCall
<1>5. \/ status = "ok" /\ told = 0
      \/ status = "degraded" /\ told \in {0, 1}
      \/ status = "failed" /\ told = 1
  BY Zenon
<1>6. Over(t, m, H \cup {m})
  BY <1>2, <1>3, <1>4, <1>5 DEF Over
<1>7. ASSUME NEW l \in LaneIds
      PROVE  AnswerAt(t, l, H \cup {m})
  <2>1. AnswerAt(a, l, H) /\ l \in AllLanes
    BY DEF Answered, AllLanes
  <2>2. CASE l = m
    BY <1>6, <2>2 DEF AnswerAt
  <2>3. CASE l # m
    BY <1>3, <2>1, <2>3, OthersAnswered
  <2> QED BY <2>2, <2>3
<1> QED BY <1>7 DEF Answered

LEMMA EndsQueued ==
  ASSUME NEW a, NEW H, NEW m \in Running, m \notin H, Answered(a, H),
         m \notin ToSet(retry), MayRetry(m, a.receipts[m])
  PROVE  Answered(QueueRetry(a, m), H \cup {m})
<1> DEFINE t == QueueRetry(a, m)
           R == [a.receipts EXCEPT ![m].status = "planned"]
           F == [a.forced EXCEPT ![m] = Fallback(m)]
           q == Append(a.retry, m)
<1>1. m \in LaneIds
  BY DEF Running
<1>2. /\ m \in AllLanes /\ a.receipts[m] = receipts[m] /\ a.issues[m] = issues[m]
      /\ a.forced[m] = forced[m] /\ m \notin ToSet(a.retry)
      /\ a.receipts \in [AllLanes -> Receipts] /\ a.issues \in [AllLanes -> Nat]
      /\ a.receipts[m] \in Receipts /\ a.issues[m] \in Nat
  BY <1>1, NotYet
<1>3. /\ a \in AnswerSpace /\ a.retry \in Seq(LaneIds) /\ a.forced \in [LaneIds -> Names]
      /\ IsInjective(a.retry)
  BY DEF Answered, AnswerSpace
<1>4. t = [a EXCEPT !.receipts = R, !.forced = F, !.retry = q]
  BY DEF QueueRetry
<1>5. /\ q \in Seq(LaneIds) /\ ToSet(q) = ToSet(a.retry) \cup {m} /\ IsInjective(q)
  BY <1>1, <1>2, <1>3, Queued
<1>6. /\ Fallback(m) \in Names /\ Fallback(m) # "none"
      /\ forced[m] = "none" /\ ~receipts[m].fallback_from
  BY <1>2 DEF MayRetry, Fallback, FallbackOf, Names, Specs
<1>7. /\ R \in [AllLanes -> Receipts] /\ R[m].status = "planned"
      /\ SameCall(R[m], receipts[m])
      /\ \A l \in AllLanes : l # m => R[l] = a.receipts[l]
  <2>1. [a.receipts[m] EXCEPT !.status = "planned"] \in Receipts
    BY <1>2 DEF Receipts, LaneStatuses
  <2>2. R[m] = [a.receipts[m] EXCEPT !.status = "planned"]
    BY <1>2
  <2>3. R \in [AllLanes -> Receipts] /\ \A l \in AllLanes : l # m => R[l] = a.receipts[l]
    BY <1>2, <2>1
  <2> HIDE DEF R
  <2> QED BY <1>2, <2>2, <2>3 DEF Receipts, SameCall
<1>8. /\ F \in [LaneIds -> Names] /\ F[m] = Fallback(m)
      /\ \A l \in LaneIds : l # m => F[l] = a.forced[l]
  BY <1>1, <1>3, <1>6
<1> HIDE DEF t, R, F, q
<1>9. /\ t \in AnswerSpace /\ t.receipts = R /\ t.forced = F /\ t.retry = q
      /\ t.issues = a.issues
  BY <1>3, <1>4, <1>5, <1>7, <1>8 DEF AnswerSpace
<1>10. Requeued(t, m, H \cup {m})
  BY <1>2, <1>5, <1>6, <1>7, <1>8, <1>9 DEF Requeued
<1>11. ASSUME NEW l \in LaneIds
       PROVE  AnswerAt(t, l, H \cup {m})
  <2>1. AnswerAt(a, l, H) /\ l \in AllLanes
    BY DEF Answered, AllLanes
  <2>2. CASE l = m
    BY <1>10, <2>2 DEF AnswerAt
  <2>3. CASE l # m
    BY <1>5, <1>7, <1>8, <1>9, <2>1, <2>3, OthersAnswered
  <2> QED BY <2>2, <2>3
<1> QED BY <1>5, <1>9, <1>11 DEF Answered, t

\* A provider that pushes back.
LEMMA Pushed ==
  ASSUME NEW a, NEW H, Answered(a, H), NEW p \in Providers
  PROVE  LET t == [a EXCEPT !.pressure = @ \cup {p}]
         IN Answered(t, H) /\ t.receipts = a.receipts
<1> DEFINE t == [a EXCEPT !.pressure = @ \cup {p}]
<1>1. a \in AnswerSpace
  BY DEF Answered
<1>2. /\ t.receipts = a.receipts /\ t.issues = a.issues /\ t.retry = a.retry
      /\ t.forced = a.forced /\ t \in AnswerSpace
  BY <1>1 DEF AnswerSpace
<1> HIDE DEF t
<1>3. \A l \in LaneIds : AnswerAt(t, l, H)
  BY <1>2 DEF Answered, AnswerAt, Unanswered, Requeued, Over
<1>4. Answered(t, H)
  BY <1>2, <1>3 DEF Answered
<1> QED BY <1>2, <1>4 DEF t

LEMMA LostIsOver ==
  ASSUME NEW a, NEW H, NEW m \in Running, m \notin H, Answered(a, H),
         m \notin ToSet(retry), NEW status \in {"degraded", "failed"}
  PROVE  Answered(Lost(a, m, status), H \cup {m})
<1> DEFINE R == [a.receipts EXCEPT ![m].status = status]
           I == [a.issues EXCEPT ![m] = @ + 1]
           t == Lost(a, m, status)
<1>1. m \in LaneIds
  BY DEF Running
<1>2. /\ m \in AllLanes /\ a.receipts \in [AllLanes -> Receipts] /\ a.issues \in [AllLanes -> Nat]
      /\ a.receipts[m] \in Receipts /\ a.issues[m] \in Nat
  BY <1>1, NotYet
<1>3. R \in [AllLanes -> Receipts] /\ I \in [AllLanes -> Nat]
  <2>1. [a.receipts[m] EXCEPT !.status = status] \in Receipts
    BY <1>2 DEF Receipts, LaneStatuses
  <2> QED BY <1>2, <2>1
<1>4. t = [a EXCEPT !.receipts = R, !.issues = I]
  BY DEF Lost
<1>5. a \in AnswerSpace
  BY DEF Answered
<1>6. /\ t \in AnswerSpace /\ t.receipts = R /\ t.issues = I /\ t.retry = a.retry
      /\ t.forced = a.forced
  <2> HIDE DEF t, R, I
  <2> QED BY <1>3, <1>4, <1>5 DEF AnswerSpace
<1>7. <<status, 1>> \in {<<"ok", 0>>, <<"degraded", 0>>, <<"degraded", 1>>, <<"failed", 1>>}
  OBVIOUS
<1> HIDE DEF t
<1>8. /\ 1 \in {0, 1} /\ t.receipts = [a.receipts EXCEPT ![m].status = status]
      /\ t.issues = [a.issues EXCEPT ![m] = @ + 1]
  BY <1>6
<1>9. Answered(t, H \cup {m})
  BY <1>6, <1>7, <1>8, EndsOver
<1> QED BY <1>9 DEF t

LEMMA AnswersIsOver ==
  ASSUME NEW a, NEW H, NEW m \in Running, m \notin H, Answered(a, H),
         m \notin ToSet(retry), NEW status \in {"ok", "degraded"}
  PROVE  Answered([a EXCEPT !.receipts[m].status = status], H \cup {m})
<1> DEFINE R == [a.receipts EXCEPT ![m].status = status]
           t == [a EXCEPT !.receipts[m].status = status]
<1>1. m \in LaneIds
  BY DEF Running
<1>2. /\ m \in AllLanes /\ a.receipts \in [AllLanes -> Receipts] /\ a.issues \in [AllLanes -> Nat]
      /\ a.receipts[m] \in Receipts /\ a.issues[m] \in Nat
  BY <1>1, NotYet
<1>3. R \in [AllLanes -> Receipts]
  <2>1. [a.receipts[m] EXCEPT !.status = status] \in Receipts
    BY <1>2 DEF Receipts, LaneStatuses
  <2> QED BY <1>2, <2>1
<1>4. t = [a EXCEPT !.receipts = R]
  OBVIOUS
<1>5. a \in AnswerSpace
  BY DEF Answered
<1>6. /\ t \in AnswerSpace /\ t.receipts = R /\ t.issues = a.issues /\ t.retry = a.retry
      /\ t.forced = a.forced
  <2> HIDE DEF t, R
  <2> QED BY <1>3, <1>4, <1>5 DEF AnswerSpace
<1>7. a.issues = [a.issues EXCEPT ![m] = @ + 0]
  BY <1>2
<1>8. <<status, 0>> \in {<<"ok", 0>>, <<"degraded", 0>>, <<"degraded", 1>>, <<"failed", 1>>}
  OBVIOUS
<1> HIDE DEF t
<1>9. /\ 0 \in {0, 1} /\ t.receipts = [a.receipts EXCEPT ![m].status = status]
      /\ t.issues = [a.issues EXCEPT ![m] = @ + 0]
  BY <1>6, <1>7
<1>10. Answered(t, H \cup {m})
  BY <1>6, <1>8, <1>9, EndsOver
<1> QED BY <1>10 DEF t

LEMMA AnswerStep ==
  ASSUME NEW outcome \in [Running -> Outcomes], NEW a, NEW H, NEW m \in LaneIds, m \notin H,
         Answered(a, H), \A l \in Running : l \notin ToSet(retry)
  PROVE  Answered(Answer(a, m, outcome), H \cup {m})
<1>1. CASE m \notin Running
  <2>1. Answer(a, m, outcome) = a
    BY <1>1 DEF Answer
  <2>2. ASSUME NEW l \in LaneIds
        PROVE  AnswerAt(a, l, H \cup {m})
    <3>1. AnswerAt(a, l, H)
      BY DEF Answered
    <3>2. CASE l # m
      BY <3>1, <3>2, OthersAnswered
    <3>3. CASE l = m
      BY <1>1, <3>1, <3>3 DEF AnswerAt, Unanswered, Requeued, Over
    <3> QED BY <3>2, <3>3
  <2> QED BY <2>1, <2>2 DEF Answered
<1>2. CASE m \in Running
  <2>1. Answer(a, m, outcome) = Apply(a, m, outcome[m]) /\ m \notin ToSet(retry)
    BY <1>2 DEF Answer
  <2>2. outcome[m] \in {"ok", "degraded", "audit_lost", "transient", "permanent"}
    BY <1>2 DEF Outcomes
  <2>3. CASE outcome[m] \in {"ok", "degraded"}
    <3> DEFINE status == outcome[m]
    <3>1. Apply(a, m, status) = [a EXCEPT !.receipts[m].status = status]
      BY <2>3 DEF Apply
    <3>2. status \in {"ok", "degraded"} /\ Answer(a, m, outcome) = Apply(a, m, status)
      BY <2>1, <2>3
    <3> HIDE DEF status
    <3>3. Answered([a EXCEPT !.receipts[m].status = status], H \cup {m})
      BY <1>2, <2>1, <3>2, AnswersIsOver
    <3> QED BY <3>1, <3>2, <3>3
  <2>4. CASE outcome[m] = "audit_lost"
    <3>1. Apply(a, m, outcome[m]) = Lost(a, m, "degraded")
      BY <2>4 DEF Apply
    <3> QED BY <1>2, <2>1, <3>1, LostIsOver
  <2>5. CASE outcome[m] = "permanent"
    <3>1. Apply(a, m, outcome[m]) = Lost(a, m, "failed")
      BY <2>5 DEF Apply
    <3> QED BY <1>2, <2>1, <3>1, LostIsOver
  <2>6. CASE outcome[m] = "transient"
    <3> DEFINE pushed == [a EXCEPT !.pressure = @ \cup {ProviderOf(a.receipts[m].spec)}]
    <3>1. Apply(a, m, outcome[m]) = IF MayRetry(m, a.receipts[m])
                                    THEN QueueRetry(pushed, m) ELSE Lost(pushed, m, "failed")
      BY <2>6 DEF Apply
    <3>2. ProviderOf(a.receipts[m].spec) \in Providers
      BY DEF ProviderOf, Providers
    <3>3. Answered(pushed, H) /\ pushed.receipts = a.receipts
      BY <3>2, Pushed
    <3> HIDE DEF pushed
    <3>4. CASE MayRetry(m, a.receipts[m])
      <4>1. Answered(QueueRetry(pushed, m), H \cup {m})
        BY <1>2, <2>1, <3>3, <3>4, EndsQueued
      <4> QED BY <2>1, <3>1, <3>4, <4>1
    <3>5. CASE ~MayRetry(m, a.receipts[m])
      <4>1. Answered(Lost(pushed, m, "failed"), H \cup {m})
        BY <1>2, <2>1, <3>3, LostIsOver
      <4> QED BY <2>1, <3>1, <3>5, <4>1
    <3> QED BY <3>4, <3>5
  <2> QED BY <2>2, <2>3, <2>4, <2>5, <2>6
<1> QED BY <1>1, <1>2

LEMMA AnswersScan ==
  ASSUME NEW outcome \in [Running -> Outcomes], NEW b, NEW lanes \in Seq(LaneIds),
         IsInjective(lanes), Answered(b, {}), \A l \in Running : l \notin ToSet(retry)
  PROVE  Answered(Applied(b, lanes, outcome), ToSet(lanes))
<1> DEFINE L == Len(lanes)
           F == [n \in 0 .. L |-> {a \in AnswerSpace : Answered(a, Upto(lanes, n))}]
<1>1. L \in Nat /\ F \in [0 .. L -> SUBSET AnswerSpace] /\ 0 \in 0 .. L /\ L \in 0 .. L
  OBVIOUS
<1>2. /\ Upto(lanes, 0) = {} /\ Upto(lanes, L) = ToSet(lanes)
      /\ \A n \in 1 .. L : /\ lanes[n] \in ToSet(lanes) /\ lanes[n] \in LaneIds
                           /\ lanes[n] \notin Upto(lanes, n - 1)
                           /\ Upto(lanes, n) = Upto(lanes, n - 1) \cup {lanes[n]}
  BY Reach
<1>3. b \in F[0]
  <2>1. F[0] = {a \in AnswerSpace : Answered(a, Upto(lanes, 0))}
    BY <1>1
  <2>2. Answered(b, Upto(lanes, 0))
    BY <1>2
  <2>3. b \in AnswerSpace
    BY DEF Answered
  <2> HIDE DEF F
  <2> QED BY <2>1, <2>2, <2>3
<1>4. ASSUME NEW n \in 1 .. L, NEW a \in F[n - 1]
      PROVE  Answer(a, lanes[n], outcome) \in F[n]
  <2>1. n \in 0 .. L /\ n - 1 \in 0 .. L
    OBVIOUS
  <2>2. Answered(a, Upto(lanes, n - 1))
    BY <2>1
  <2>3. Answered(Answer(a, lanes[n], outcome), Upto(lanes, n))
    BY <1>2, <2>2, AnswerStep, SMTT(60)
  <2>4. Answer(a, lanes[n], outcome) \in AnswerSpace
    BY <2>3 DEF Answered
  <2> QED BY <2>1, <2>3, <2>4
<1> HIDE DEF F, L
<1>5. Len(lanes) = L
  BY DEF L
<1>6. Applied(b, lanes, outcome) \in F[L]
  BY <1>1, <1>3, <1>4, <1>5, AnswersEnd
<1> QED BY <1>1, <1>2, <1>6 DEF F

\* What the answers of a wave make of the lanes.
LEMMA WaveEnds ==
  ASSUME WaveInv, EndWave, UNCHANGED calls
  PROVE  WaveInv'
<1> DEFINE b == [receipts |-> receipts, issues |-> issues, retry |-> retry,
                 forced |-> forced, pressure |-> pressure]
<1>1. /\ stage = "running" /\ stage' = "wave" /\ wave' = << >> /\ calls' = calls
      /\ UNCHANGED <<setup, usable, pending, used, called, sent>>
  BY DEF EndWave
<1>2. PICK outcome \in [Running -> Outcomes] :
        LET acc == Applied(b, setup.lanes, outcome)
        IN /\ receipts' = acc.receipts /\ issues' = acc.issues
           /\ retry' = acc.retry /\ forced' = acc.forced /\ pressure' = acc.pressure
  BY DEF EndWave
<1> DEFINE acc == Applied(b, setup.lanes, outcome)
<1>3. WaveTyped /\ LanesInv
  BY <1>1 DEF WaveInv, Early
<1>4. \A l \in Running : l \in LaneIds /\ Calling(l) /\ l \notin ToSet(retry)
  BY <1>3 DEF LanesInv, LaneAt, Awaits, Calling, LaneTold, Running
<1>5. Answered(acc, LaneIds)
  <2>1. setup.lanes \in Seq(LaneIds) /\ IsInjective(setup.lanes) /\ ToSet(setup.lanes) = LaneIds
    <3>1. setup.lanes \in Seq(STRING) /\ IsInjective(setup.lanes)
      BY <1>3, SetupsAssumption DEF WaveTyped
    <3>2. \A i \in DOMAIN setup.lanes : setup.lanes[i] \in LaneIds
      BY DEF LaneIds, ToSet
    <3>3. setup.lanes \in Seq(LaneIds)
      BY <3>1, <3>2
    <3> QED BY <3>1, <3>3 DEF LaneIds
  <2>2. Answered(b, {})
    <3>1. b \in AnswerSpace
      BY <1>3 DEF WaveTyped, AnswerSpace
    <3>2. /\ b.receipts = receipts /\ b.issues = issues /\ b.retry = retry
          /\ b.forced = forced
      OBVIOUS
    <3> HIDE DEF b
    <3> QED BY <1>3, <3>1, <3>2 DEF Answered, AnswerAt, Unanswered, LanesInv
  <2> HIDE DEF b
  <2>3. Answered(acc, ToSet(setup.lanes))
    BY <1>4, <2>1, <2>2, AnswersScan
  <2> QED BY <2>1, <2>3
<1>6. /\ receipts' = acc.receipts /\ issues' = acc.issues
      /\ retry' = acc.retry /\ forced' = acc.forced /\ pressure' = acc.pressure
  BY <1>2
<1> HIDE DEF acc
<1>7. /\ LaneIds' = LaneIds /\ AllLanes' = AllLanes /\ Tasks' = Tasks
      /\ \A l : PrimaryOf(l)' = PrimaryOf(l) /\ Fallback(l)' = Fallback(l)
      /\ \A p : HasKey(p)' = HasKey(p)
  BY <1>1 DEF LaneIds, AllLanes, Tasks, PrimaryOf, Fallback, HasKey
<1>8. WaveTyped'
  <2>1. /\ receipts' \in [AllLanes -> Receipts] /\ issues' \in [AllLanes -> Nat]
        /\ retry' \in Seq(LaneIds) /\ forced' \in [LaneIds -> Names] /\ pressure' \subseteq Providers
    BY <1>5, <1>6 DEF Answered, AnswerSpace
  <2>2. wave' \in Seq(Tasks)
    BY <1>1
  <2> QED BY <1>1, <1>3, <1>7, <2>1, <2>2 DEF WaveTyped
<1>9. CallsInv' /\ WaveFits' /\ LossesTold'
  <2>1. CallsInv'
    BY <1>1 DEF WaveInv, CallsInv, Early
  <2>2. ~Swept'
    BY <1>1 DEF Swept
  <2>3. WaveFits'
    BY <1>1, EmptyWave DEF WaveFits
  <2> QED BY <2>1, <2>2, <2>3 DEF LossesTold
<1>10. ASSUME NEW l \in LaneIds
       PROVE  LaneAt(l)' /\ Proven(l)'
  <2>1. AnswerAt(acc, l, LaneIds)
    BY <1>5 DEF Answered
  <2>2. LaneAt(l) /\ Proven(l)
    BY <1>3, EachProven DEF LanesInv, WaveInv
  <2>3. /\ receipts[l] \in Receipts /\ issues[l] \in Nat /\ called[l] \in Seq(Specs)
    BY <1>3 DEF WaveTyped, AllLanes
  <2>4. /\ called'[l] = called[l] /\ pending' = pending /\ receipts'[l] = acc.receipts[l]
        /\ issues'[l] = acc.issues[l] /\ forced'[l] = acc.forced[l]
        /\ l \in ToSet(retry') <=> l \in ToSet(acc.retry)
    BY <1>1, <1>6
  <2>5. CASE Unanswered(acc, l, LaneIds)
    <3>1. /\ l \notin Running /\ acc.receipts[l] = receipts[l] /\ acc.issues[l] = issues[l]
          /\ acc.forced[l] = forced[l] /\ (l \in ToSet(acc.retry) <=> l \in ToSet(retry))
      BY <2>5 DEF Unanswered
    <3>2. ~Calling(l)
      BY <3>1 DEF Calling, Running
    <3>3. LaneAt(l)'
      BY <1>7, <2>2, <2>4, <3>1, <3>2 DEF LaneAt, Awaits, LaneTold
    <3>4. Proven(l)'
      BY <1>7, <2>2, <2>4, <3>1 DEF Proven
    <3> QED BY <3>3, <3>4
  <2>6. CASE Requeued(acc, l, LaneIds)
    <3>1. /\ Calling(l) /\ l \in ToSet(acc.retry) /\ acc.receipts[l].status = "planned"
          /\ SameCall(acc.receipts[l], receipts[l]) /\ acc.issues[l] = issues[l]
          /\ acc.forced[l] = Fallback(l) /\ forced[l] = "none"
          /\ ~receipts[l].fallback_from /\ Fallback(l) # "none"
      BY <1>4, <2>6 DEF Requeued
    <3>2. called[l] = <<PrimaryOf(l)>>
      <4>1. Len(called[l]) = 1 /\ called[l] # << >> /\ called[l] \in Seq(Specs)
        BY <2>3, <3>1 DEF Calling
      <4>2. Last(called[l]) = PrimaryOf(l)
        BY <2>2, <3>1, <4>1 DEF Proven
      <4>3. called[l][1] = PrimaryOf(l)
        BY <4>1, <4>2 DEF Last
      <4> QED BY <4>1, <4>3
    <3>3. Awaits(l)'
      BY <1>7, <2>4, <3>1, <3>2 DEF Awaits, Calling
    <3>4. Proven(l)'
      <4>1. /\ receipts'[l].attempts = receipts[l].attempts /\ receipts'[l].spec = receipts[l].spec
            /\ receipts'[l].fallback_from = receipts[l].fallback_from
            /\ receipts'[l].status = "planned"
        BY <2>4, <3>1 DEF SameCall
      <4> QED BY <1>7, <2>2, <2>4, <4>1 DEF Proven
    <3> QED BY <3>3, <3>4 DEF LaneAt
  <2>7. CASE Over(acc, l, LaneIds)
    <3>1. /\ Calling(l) /\ l \notin ToSet(acc.retry)
          /\ SameCall(acc.receipts[l], receipts[l])
          /\ \/ acc.receipts[l].status = "ok" /\ acc.issues[l] = issues[l]
             \/ acc.receipts[l].status = "degraded" /\ acc.issues[l] \in {issues[l], issues[l] + 1}
             \/ acc.receipts[l].status = "failed" /\ acc.issues[l] = issues[l] + 1
      BY <1>4, <2>7 DEF Over
    <3>2. issues[l] = 0 /\ called[l] # << >>
      BY <3>1 DEF Calling
    <3>3. LaneTold(l)' /\ l \notin ToSet(retry')
      BY <2>4, <3>1, <3>2 DEF LaneTold
    <3>4. Proven(l)'
      <4>1. /\ receipts'[l].attempts = receipts[l].attempts /\ receipts'[l].spec = receipts[l].spec
            /\ receipts'[l].fallback_from = receipts[l].fallback_from
        BY <2>4, <3>1 DEF SameCall
      <4> QED BY <1>7, <2>2, <2>4, <3>2, <4>1 DEF Proven
    <3> QED BY <3>3, <3>4 DEF LaneAt
  <2> QED BY <2>1, <2>5, <2>6, <2>7 DEF AnswerAt
<1>11. LanesInv' /\ ProvenanceTrue'
  <2>1. ProvenanceTrue' <=> \A l \in LaneIds' : Proven(l)'
    BY DEF ProvenanceTrue, Proven
  <2>2. IsInjective(pending') /\ IsInjective(retry')
    BY <1>1, <1>3, <1>5, <1>6 DEF LanesInv, Answered
  <2> QED BY <1>7, <1>10, <2>1, <2>2 DEF LanesInv
<1> QED BY <1>8, <1>9, <1>11 DEF WaveInv

LEMMA WaveInitial == Init => WaveInv
<1> SUFFICES ASSUME Init PROVE WaveInv
  OBVIOUS
<1>1. /\ setup \in Setups /\ stage = IF setup.auto THEN "preflight" ELSE "reporter"
      /\ usable = {} /\ pressure = {} /\ wave = << >> /\ used = 0 /\ sent = 0 /\ calls = 0
      /\ receipts = [l \in AllLanes |-> IF l \in LaneIds THEN FirstReceipt(l) ELSE NoReceipt]
      /\ issues = [l \in AllLanes |->
           IF l \in LaneIds /\ FirstReceipt(l).status # "planned" THEN 1 ELSE 0]
      /\ pending = setup.lanes /\ retry = << >>
      /\ forced = [l \in LaneIds |-> "none"] /\ called = [l \in LaneIds |-> << >>]
  BY DEF Init, WaveInit
<1>2. /\ setup.lanes \in Seq(STRING) /\ IsInjective(setup.lanes)
      /\ LaneIds \cap {"proof-planner", "refuter", "none"} = {}
      /\ setup.auto \in BOOLEAN /\ setup.budget \in Nat
  BY <1>1, SetupsAssumption DEF LaneIds
<1>3. pending \in Seq(LaneIds) /\ ToSet(pending) = LaneIds
  <2>1. \A i \in DOMAIN setup.lanes : setup.lanes[i] \in LaneIds
    BY DEF LaneIds, ToSet
  <2>2. setup.lanes \in Seq(LaneIds)
    BY <1>2, <2>1
  <2> QED BY <1>1, <2>2 DEF LaneIds
<1>4. ASSUME NEW l
      PROVE  /\ FirstReceipt(l) \in Receipts /\ FirstReceipt(l).spec = PrimaryOf(l)
             /\ FirstReceipt(l).fallback_from = FALSE /\ FirstReceipt(l).attempts = 0
             /\ FirstReceipt(l).status \in {"skipped", "planned", "missing_key"}
             /\ setup.auto = FALSE => FirstReceipt(l).status = "skipped"
  <2>1. PrimaryOf(l) \in Names
    BY DEF PrimaryOf, Primary, Names, Specs
  <2> DEFINE st == IF ~setup.auto THEN "skipped"
                   ELSE IF HasKey(PrimaryOf(l))
                             \/ (Fallback(l) # "none" /\ HasKey(Fallback(l)))
                        THEN "planned" ELSE "missing_key"
  <2>2. st \in {"skipped", "planned", "missing_key"} /\ (setup.auto = FALSE => st = "skipped")
    OBVIOUS
  <2>3. FirstReceipt(l) = [status |-> st, spec |-> PrimaryOf(l), fallback_from |-> FALSE,
                           attempts |-> 0, thread |-> FALSE]
    BY DEF FirstReceipt
  <2> HIDE DEF st
  <2> QED BY <2>1, <2>2, <2>3 DEF Receipts, LaneStatuses
<1>5. NoReceipt \in Receipts
  BY DEF NoReceipt, Receipts, LaneStatuses, Names
<1>6. \A l \in LaneIds : l \in AllLanes
  BY DEF AllLanes
<1>7. /\ receipts \in [AllLanes -> Receipts] /\ issues \in [AllLanes -> Nat]
      /\ \A l \in LaneIds : /\ receipts[l] = FirstReceipt(l)
                            /\ issues[l] = IF FirstReceipt(l).status # "planned" THEN 1 ELSE 0
                            /\ forced[l] = "none" /\ called[l] = << >>
  BY <1>1, <1>4, <1>5, <1>6
<1>8. WaveTyped
  <2>1. forced \in [LaneIds -> Names]
    BY <1>1 DEF Names
  <2>2. << >> \in Seq(Specs) /\ << >> \in Seq(LaneIds) /\ << >> \in Seq(Tasks)
    OBVIOUS
  <2> QED BY <1>1, <1>2, <1>3, <1>7, <2>1, <2>2 DEF WaveTyped
<1>9. ProvenanceTrue
  <2>1. Len(<< >>) = 0
    OBVIOUS
  <2>2. ASSUME NEW l \in LaneIds
        PROVE  Proven(l)
    <3>1. /\ called[l] = << >> /\ receipts[l].spec = PrimaryOf(l) /\ receipts[l].attempts = 0
          /\ receipts[l].status \notin {"ok", "degraded"}
      BY <1>4, <1>7
    <3>2. ~receipts[l].fallback_from
      BY <1>4, <1>7
    <3> QED BY <2>1, <3>1, <3>2 DEF Proven
  <2> QED BY <2>2, EachProven
<1>10. \A l \in LaneIds : receipts[l].status # "planned" => LaneTold(l)
  BY <1>4, <1>7 DEF LaneTold
<1>11. \A j : j \notin DOMAIN << >>
  OBVIOUS
<1>12. LossesTold
  <2>1. Swept => \A l \in LaneIds : receipts[l].status # "planned"
    BY <1>1, <1>2, <1>4, <1>7 DEF Swept
  <2> QED BY <1>10, <2>1 DEF LossesTold, LaneTold
<1>13. LanesInv
  <2>1. ToSet(retry) = {} /\ IsInjective(retry) /\ IsInjective(pending)
    BY <1>1, <1>2, <1>11 DEF ToSet, IsInjective
  <2>2. ASSUME NEW l \in LaneIds
        PROVE  LaneAt(l)
    <3>1. CASE receipts[l].status = "planned"
      BY <1>3, <1>7, <2>1, <3>1 DEF LaneAt, Awaits
    <3>2. CASE receipts[l].status # "planned"
      BY <1>10, <2>1, <3>2 DEF LaneAt
    <3> QED BY <3>1, <3>2
  <2> QED BY <2>1, <2>2 DEF LanesInv
<1>14. WaveFits
  BY <1>1, EmptyWave DEF WaveFits
<1>15. CallsInv
  BY <1>1, <1>2 DEF CallsInv
<1> QED BY <1>8, <1>9, <1>12, <1>13, <1>14, <1>15 DEF WaveInv

LEMMA Preflighted ==
  ASSUME WaveInv, Preflights, UNCHANGED calls
  PROVE  WaveInv'
<1>1. /\ stage = "preflight" /\ stage' = "wave" /\ calls' = calls
      /\ UNCHANGED <<setup, receipts, issues, pending, retry, forced, pressure, wave, used,
                     called, sent>>
      /\ usable' \subseteq {p \in Specs : HasKey(p)}
  BY DEF Preflights
<1>2. /\ LaneIds' = LaneIds /\ AllLanes' = AllLanes /\ Tasks' = Tasks
      /\ \A l : PrimaryOf(l)' = PrimaryOf(l) /\ Fallback(l)' = Fallback(l)
      /\ \A p : HasKey(p)' = HasKey(p)
  BY <1>1 DEF LaneIds, AllLanes, Tasks, PrimaryOf, Fallback, HasKey
<1>3. WaveTyped'
  BY <1>1, <1>2 DEF WaveInv, WaveTyped
<1>4. CallsInv' /\ WaveFits' /\ LossesTold'
  BY <1>1 DEF WaveInv, CallsInv, WaveFits, Early, LossesTold, Swept
<1>5. ProvenanceTrue'
  BY <1>1, <1>2 DEF WaveInv, ProvenanceTrue
<1>6. LanesInv'
  <2>1. LanesInv
    BY <1>1 DEF WaveInv, Early
  <2>2. \A l \in LaneIds : LaneAt(l)'
    BY <1>1, <1>2, <2>1 DEF LanesInv, LaneAt, Awaits, Calling, LaneTold
  <2> QED BY <1>1, <1>2, <2>1, <2>2 DEF LanesInv
<1> QED BY <1>3, <1>4, <1>5, <1>6 DEF WaveInv

LEMMA IsSwept ==
  ASSUME WaveInv, Sweep, UNCHANGED calls
  PROVE  WaveInv'
<1>1. /\ stage = "wave" /\ stage' = "planner" /\ calls' = calls
      /\ UNCHANGED <<setup, usable, pending, retry, forced, pressure, wave, used, called, sent>>
      /\ receipts' = [l \in AllLanes |->
           IF l \notin LaneIds THEN receipts[l]
           ELSE [receipts[l] EXCEPT !.thread = TRUE,
                                    !.status = IF @ = "planned" THEN "skipped" ELSE @]]
      /\ issues' = [l \in AllLanes |->
           IF l \in LaneIds /\ receipts[l].status = "planned" /\ Tells(l)
           THEN issues[l] + 1 ELSE issues[l]]
  BY DEF Sweep
<1>2. /\ LaneIds' = LaneIds /\ AllLanes' = AllLanes /\ Tasks' = Tasks
      /\ \A l : PrimaryOf(l)' = PrimaryOf(l) /\ Fallback(l)' = Fallback(l)
      /\ \A p : HasKey(p)' = HasKey(p)
  BY <1>1 DEF LaneIds, AllLanes, Tasks, PrimaryOf, Fallback, HasKey
<1>3. WaveTyped /\ LanesInv
  BY <1>1 DEF WaveInv, Early
<1>4. ASSUME NEW l \in AllLanes
      PROVE  /\ receipts'[l] \in Receipts /\ issues'[l] \in Nat
             /\ l \in LaneIds =>
                  /\ receipts'[l].spec = receipts[l].spec
                  /\ receipts'[l].fallback_from = receipts[l].fallback_from
                  /\ receipts'[l].attempts = receipts[l].attempts
                  /\ receipts'[l].status = IF receipts[l].status = "planned" THEN "skipped"
                                           ELSE receipts[l].status
                  /\ issues'[l] = IF receipts[l].status = "planned" /\ Tells(l)
                                  THEN issues[l] + 1 ELSE issues[l]
  <2>1. receipts[l] \in Receipts /\ issues[l] \in Nat
    BY <1>3 DEF WaveTyped
  <2> DEFINE r == [receipts[l] EXCEPT !.thread = TRUE,
                                      !.status = IF @ = "planned" THEN "skipped" ELSE @]
  <2>2. /\ r \in Receipts /\ r.spec = receipts[l].spec
        /\ r.fallback_from = receipts[l].fallback_from /\ r.attempts = receipts[l].attempts
        /\ r.status = IF receipts[l].status = "planned" THEN "skipped" ELSE receipts[l].status
    BY <2>1 DEF Receipts, LaneStatuses
  <2>3. receipts'[l] = IF l \notin LaneIds THEN receipts[l] ELSE r
    BY <1>1
  <2>4. issues'[l] = IF l \in LaneIds /\ receipts[l].status = "planned" /\ Tells(l)
                     THEN issues[l] + 1 ELSE issues[l]
    BY <1>1
  <2> HIDE DEF r
  <2> QED BY <2>1, <2>2, <2>3, <2>4
<1>5. WaveTyped'
  <2>1. receipts' \in [AllLanes -> Receipts] /\ issues' \in [AllLanes -> Nat]
    <3>1. /\ receipts' = [l \in AllLanes |-> receipts'[l]]
          /\ issues' = [l \in AllLanes |-> issues'[l]]
      BY <1>1
    <3> QED BY <1>4, <3>1
  <2> QED BY <1>1, <1>2, <1>3, <2>1 DEF WaveTyped
<1>6. CallsInv' /\ WaveFits'
  BY <1>1 DEF WaveInv, CallsInv, WaveFits, Early
<1>7. ASSUME NEW l \in LaneIds
      PROVE  LaneTold(l)' /\ Proven(l)'
  <2>1. LaneAt(l) /\ Proven(l) /\ ~Calling(l) /\ l \in AllLanes
    BY <1>1, <1>3, EachProven DEF LanesInv, WaveInv, Calling, AllLanes
  <2>5. /\ receipts[l].status # "planned" =>
              receipts'[l].status = receipts[l].status /\ issues'[l] = issues[l]
        /\ receipts[l].status = "planned" /\ Tells(l) =>
              receipts'[l].status = "skipped" /\ issues'[l] = issues[l] + 1
        /\ receipts[l].status = "planned" => receipts'[l].status = "skipped"
    BY <1>4, <2>1
  <2>2. ASSUME LaneTold(l)
        PROVE  LaneTold(l)'
    BY <2>2, <2>5 DEF LaneTold
  <2>3. ASSUME Awaits(l)
        PROVE  LaneTold(l)'
    <3>1. Tells(l)
      <4>1. CASE forced[l] = "none"
        BY <4>1 DEF Tells
      <4>2. CASE forced[l] # "none"
        <5>1. called[l] = <<PrimaryOf(l)>> /\ Len(<<PrimaryOf(l)>>) = 1
          BY <2>3, <4>2 DEF Awaits
        <5> QED BY <2>1, <5>1 DEF Tells, Proven
      <4> QED BY <4>1, <4>2
    <3> QED BY <2>3, <2>5, <3>1 DEF LaneTold, Awaits
  <2>4. Proven(l)'
    <3>1. /\ called'[l] = called[l]
          /\ receipts'[l].status \in {"ok", "degraded"} => receipts[l].status \in {"ok", "degraded"}
      BY <1>1, <2>5
    <3> QED BY <1>2, <1>4, <2>1, <3>1 DEF Proven
  <2> QED BY <2>1, <2>2, <2>3, <2>4 DEF LaneAt
<1>8. ProvenanceTrue' /\ LossesTold'
  <2>1. ProvenanceTrue' <=> \A l \in LaneIds' : Proven(l)'
    BY DEF ProvenanceTrue, Proven
  <2>2. (\A l \in LaneIds' : LaneTold(l)') => LossesTold'
    BY DEF LossesTold, LaneTold
  <2> QED BY <1>2, <1>7, <2>1, <2>2
<1> QED BY <1>1, <1>5, <1>6, <1>8 DEF WaveInv, Early

\* A step of a later pass leaves the review lanes as the wave left them.
LEMMA LaterPass ==
  ASSUME WaveInv, Swept, stage' \notin Early,
         UNCHANGED <<setup, usable, pending, retry, forced, pressure, wave, called>>,
         receipts' \in [AllLanes -> Receipts], issues' \in [AllLanes -> Nat],
         \A l \in LaneIds : receipts'[l] = receipts[l] /\ issues'[l] = issues[l],
         used' \in Nat, sent' \in Nat, CallsInv'
  PROVE  WaveInv'
<1>1. /\ LaneIds' = LaneIds /\ AllLanes' = AllLanes /\ Tasks' = Tasks
      /\ \A l : PrimaryOf(l)' = PrimaryOf(l) /\ Fallback(l)' = Fallback(l)
      /\ \A p : HasKey(p)' = HasKey(p)
  BY DEF LaneIds, AllLanes, Tasks, PrimaryOf, Fallback, HasKey
<1>2. WaveTyped'
  BY <1>1 DEF WaveInv, WaveTyped
<1>3. ProvenanceTrue' /\ LossesTold'
  BY <1>1 DEF WaveInv, ProvenanceTrue, LossesTold
<1>4. WaveFits'
  BY DEF WaveInv, WaveFits
<1> QED BY <1>2, <1>3, <1>4 DEF WaveInv

LEMMA Passed ==
  ASSUME WaveInv, NEW lane \in {"proof-planner", "refuter"}
  PROVE  /\ lane \in AllLanes /\ receipts \in [AllLanes -> Receipts] /\ issues \in [AllLanes -> Nat]
         /\ \A r \in Receipts :
              /\ [receipts EXCEPT ![lane] = r] \in [AllLanes -> Receipts]
              /\ \A l \in LaneIds : [receipts EXCEPT ![lane] = r][l] = receipts[l]
         /\ [issues EXCEPT ![lane] = @ + 1] \in [AllLanes -> Nat]
         /\ \A l \in LaneIds : [issues EXCEPT ![lane] = @ + 1][l] = issues[l]
<1>1. /\ receipts \in [AllLanes -> Receipts] /\ issues \in [AllLanes -> Nat]
      /\ LaneIds \cap {"proof-planner", "refuter", "none"} = {}
  BY DEF WaveInv, WaveTyped
<1>2. lane \in AllLanes /\ \A l \in LaneIds : l \in AllLanes /\ l # lane
  BY <1>1 DEF AllLanes
<1> QED BY <1>1, <1>2

\* A pass that ends without a call, and one that calls.
LEMMA WithoutCall ==
  ASSUME WaveInv, NEW lane \in {"proof-planner", "refuter"}, NEW r \in Receipts,
         NEW tells \in BOOLEAN, Without(lane, r, tells)
  PROVE  /\ receipts' \in [AllLanes -> Receipts] /\ issues' \in [AllLanes -> Nat]
         /\ \A l \in LaneIds : receipts'[l] = receipts[l] /\ issues'[l] = issues[l]
         /\ used' = used /\ sent' = sent
<1>1. receipts' = [receipts EXCEPT ![lane] = r]
  BY DEF Without
<1>2. issues' = issues \/ issues' = [issues EXCEPT ![lane] = @ + 1]
  BY DEF Without, Told
<1>3. /\ receipts' \in [AllLanes -> Receipts]
      /\ \A l \in LaneIds : receipts'[l] = receipts[l]
  BY <1>1, Passed
<1>4. issues' \in [AllLanes -> Nat] /\ \A l \in LaneIds : issues'[l] = issues[l]
  BY <1>2, Passed, ZenonT(60)
<1> QED BY <1>3, <1>4 DEF Without

LEMMA WithCall ==
  ASSUME WaveInv, NEW lane \in {"proof-planner", "refuter"}, NEW r \in Receipts,
         NEW outcomes \in SUBSET {"ok", "degraded", "failed"}, With(lane, r, outcomes)
  PROVE  /\ receipts' \in [AllLanes -> Receipts] /\ issues' \in [AllLanes -> Nat]
         /\ \A l \in LaneIds : receipts'[l] = receipts[l] /\ issues'[l] = issues[l]
         /\ used' = used + 1 /\ sent' = sent + 1
<1>1. PICK status \in outcomes :
        \E tells \in {status = "failed", status # "ok"} :
          /\ receipts' = [receipts EXCEPT ![lane] = [r EXCEPT !.status = status, !.attempts = 1]]
          /\ IF tells THEN Told(lane) ELSE UNCHANGED issues
  BY DEF With
<1>2. [r EXCEPT !.status = status, !.attempts = 1] \in Receipts
  <2>1. status \in LaneStatuses
    BY DEF LaneStatuses
  <2> QED BY <2>1 DEF Receipts
<1>3. receipts' = [receipts EXCEPT ![lane] = [r EXCEPT !.status = status, !.attempts = 1]]
  BY <1>1
<1>4. issues' = issues \/ issues' = [issues EXCEPT ![lane] = @ + 1]
  BY <1>1 DEF Told
<1>5. /\ receipts' \in [AllLanes -> Receipts]
      /\ \A l \in LaneIds : receipts'[l] = receipts[l]
  BY <1>2, <1>3, Passed
<1>6. issues' \in [AllLanes -> Nat] /\ \A l \in LaneIds : issues'[l] = issues[l]
  BY <1>4, Passed, ZenonT(60)
<1> QED BY <1>5, <1>6 DEF With

LEMMA PassReceipt ==
  ASSUME NEW lane, NEW spec \in Names, NEW status \in LaneStatuses, NEW thread \in BOOLEAN
  PROVE  Receipt(lane, spec, status, thread) \in Receipts
BY DEF Receipt, Receipts

\* Before the calls of a pass are counted none are under way.
LEMMA Idle ==
  ASSUME WaveInv, stage \in {"planner", "refuter"}
  PROVE  /\ calls = 0 /\ used \in Nat /\ sent \in Nat /\ setup.budget \in Nat
         /\ used <= setup.budget /\ sent <= used /\ Swept
<1>1. used \in Nat /\ sent \in Nat /\ setup \in Setups /\ calls = 0 /\ calls \in Nat
  BY DEF WaveInv, WaveTyped, CallsInv
<1>2. setup.budget \in Nat
  BY <1>1, SetupsAssumption
<1> QED BY <1>1, <1>2 DEF WaveInv, CallsInv, Swept

LEMMA PassEnds ==
  ASSUME WaveInv, stage \in {"planner", "refuter"}, stage' \in {"refuter", "reporter"},
         UNCHANGED Fixed, receipts' \in [AllLanes -> Receipts], issues' \in [AllLanes -> Nat],
         \A l \in LaneIds : receipts'[l] = receipts[l] /\ issues'[l] = issues[l],
         \/ used' = used /\ sent' = sent
         \/ ~Exhausted(used) /\ used' = used + 1 /\ sent' = sent + 1
  PROVE  WaveInv'
<1>1. /\ calls = 0 /\ used \in Nat /\ sent \in Nat /\ setup.budget \in Nat
      /\ used <= setup.budget /\ sent <= used /\ Swept
  BY Idle
<1>2. /\ UNCHANGED <<setup, usable, pending, retry, forced, pressure, wave, called>>
      /\ calls' = calls
  BY DEF Fixed
<1>3. CallsInv' /\ used' \in Nat /\ sent' \in Nat
  BY <1>1, <1>2 DEF CallsInv, Exhausted
<1>4. stage' \notin Early
  BY DEF Early
<1> QED BY <1>1, <1>2, <1>3, <1>4, LaterPass

LEMMA PlannerKeeps == ASSUME WaveInv, Planner PROVE WaveInv'
<1> DEFINE lane == "proof-planner"
           spec == Selected(PrimaryOf(lane), Fallback(lane), usable)
           Ends == /\ receipts' \in [AllLanes -> Receipts] /\ issues' \in [AllLanes -> Nat]
                   /\ \A l \in LaneIds : receipts'[l] = receipts[l] /\ issues'[l] = issues[l]
                   /\ \/ used' = used /\ sent' = sent
                      \/ ~Exhausted(used) /\ used' = used + 1 /\ sent' = sent + 1
<1>1. spec \in Names /\ PrimaryOf(lane) \in Names /\ lane \in {"proof-planner", "refuter"}
  <2>1. usable \subseteq Specs
    BY DEF WaveInv, WaveTyped
  <2> QED BY <2>1 DEF Selected, PrimaryOf, Primary, Names, Specs
<1>2. /\ stage = "planner" /\ stage' = "refuter" /\ UNCHANGED Fixed
      /\ IF Exhausted(used)
         THEN Without(lane, Receipt(lane, PrimaryOf(lane), "skipped_budget", FALSE), FALSE)
         ELSE IF spec = "none"
         THEN Without(lane, Receipt(lane, PrimaryOf(lane), "preflight_failed", FALSE), TRUE)
         ELSE IF ~HasKey(spec)
         THEN Without(lane, Receipt(lane, spec, "missing_key", TRUE), TRUE)
         ELSE With(lane, Receipt(lane, spec, "running", TRUE), {"ok", "degraded", "failed"})
  BY DEF Planner
<1> HIDE DEF lane, spec
<1>3. ASSUME NEW p \in Names, NEW status \in {"skipped_budget", "preflight_failed", "missing_key"},
             NEW thread \in BOOLEAN, NEW tells \in BOOLEAN,
             Without(lane, Receipt(lane, p, status, thread), tells)
      PROVE  Ends
  <2>1. status \in LaneStatuses
    BY DEF LaneStatuses
  <2>2. Receipt(lane, p, status, thread) \in Receipts
    BY <2>1, PassReceipt
  <2> QED BY <1>1, <1>3, <2>2, WithoutCall
<1>4. ASSUME ~Exhausted(used),
             With(lane, Receipt(lane, spec, "running", TRUE), {"ok", "degraded", "failed"})
      PROVE  Ends
  <2>1. "running" \in LaneStatuses
    BY DEF LaneStatuses
  <2>2. Receipt(lane, spec, "running", TRUE) \in Receipts
    BY <1>1, <2>1, PassReceipt
  <2> QED BY <1>1, <1>4, <2>2, WithCall
<1>5. Ends
  <2> HIDE DEF Ends
  <2> QED BY <1>1, <1>2, <1>3, <1>4
<1> QED BY <1>2, <1>5, PassEnds

LEMMA RefuterKeeps == ASSUME WaveInv, Refuter PROVE WaveInv'
<1> DEFINE lane == "refuter"
           At(status) == [Receipt(lane, "minimax", status, TRUE) EXCEPT !.fallback_from = FALSE]
           Ends == /\ receipts' \in [AllLanes -> Receipts] /\ issues' \in [AllLanes -> Nat]
                   /\ \A l \in LaneIds : receipts'[l] = receipts[l] /\ issues'[l] = issues[l]
                   /\ \/ used' = used /\ sent' = sent
                      \/ ~Exhausted(used) /\ used' = used + 1 /\ sent' = sent + 1
<1>1. lane \in {"proof-planner", "refuter"}
  OBVIOUS
<1>2. /\ stage = "refuter" /\ stage' = "reporter" /\ UNCHANGED Fixed
      /\ \/ Without(lane, At("skipped"), FALSE)
         \/ IF Exhausted(used) THEN Without(lane, At("skipped"), TRUE)
            ELSE IF "minimax" \notin usable THEN Without(lane, At("preflight_failed"), TRUE)
            ELSE IF ~HasKey("minimax") THEN Without(lane, At("missing_key"), TRUE)
            ELSE With(lane, At("running"), {"ok", "failed"})
  BY DEF Refuter
<1>3. ASSUME NEW status \in LaneStatuses
      PROVE  At(status) \in Receipts
  <2>1. "minimax" \in Names
    BY DEF Names, Specs
  <2>2. Receipt(lane, "minimax", status, TRUE) \in Receipts
    BY <2>1, PassReceipt
  <2> HIDE DEF lane
  <2> QED BY <2>2 DEF Receipts
<1>4. /\ "skipped" \in LaneStatuses /\ "preflight_failed" \in LaneStatuses
      /\ "missing_key" \in LaneStatuses /\ "running" \in LaneStatuses
  BY DEF LaneStatuses
<1> HIDE DEF lane, At
<1>5. ASSUME NEW status \in LaneStatuses, NEW tells \in BOOLEAN,
             Without(lane, At(status), tells)
      PROVE  Ends
  BY <1>1, <1>3, <1>5, WithoutCall
<1>6. ASSUME ~Exhausted(used), With(lane, At("running"), {"ok", "failed"})
      PROVE  Ends
  <2>1. {"ok", "failed"} \in SUBSET {"ok", "degraded", "failed"}
    OBVIOUS
  <2>2. At("running") \in Receipts
    BY <1>3, <1>4
  <2> QED BY <1>1, <1>6, <2>1, <2>2, WithCall
<1>7. Ends
  <2> HIDE DEF Ends
  <2> QED BY <1>2, <1>4, <1>5, <1>6
<1> QED BY <1>2, <1>7, PassEnds

LEMMA NoPlannerKeeps == ASSUME WaveInv, NoPlanner PROVE WaveInv'
<1>1. /\ stage = "planner" /\ stage' = "refuter" /\ UNCHANGED Fixed
      /\ receipts' = receipts /\ issues' = issues /\ used' = used /\ sent' = sent
  BY DEF NoPlanner
<1>2. receipts' \in [AllLanes -> Receipts] /\ issues' \in [AllLanes -> Nat]
  BY <1>1 DEF WaveInv, WaveTyped
<1> QED BY <1>1, <1>2, PassEnds

\* The reporter and the follow-up passes: their calls are within the budget.
LEMMA ReporterKeeps ==
  ASSUME WaveInv, stage \in {"reporter", "distill", "questions", "finalize", "followup",
                             "reconsider"},
         Prepare \/ Distill \/ Question \/ Redistill \/ Finalize \/ FollowUp \/ FollowedUp
           \/ Reconsider
  PROVE  WaveInv'
<1>1. /\ calls \in Nat /\ used \in Nat /\ sent \in Nat /\ setup.budget \in Nat
      /\ used + calls <= setup.budget /\ sent <= used + calls
      /\ stage \in {"reporter", "distill"} => calls = 0
      /\ stage = "distill" => ~Exhausted(used)
      /\ receipts \in [AllLanes -> Receipts] /\ issues \in [AllLanes -> Nat]
  BY SetupsAssumption DEF WaveInv, WaveTyped, CallsInv
<1>2. UNCHANGED WaveFixed
  BY DEF Prepare, Distill, Question, Redistill, Finalize, FollowUp, FollowedUp, Reconsider
<1>3. Swept
  BY DEF Swept
<1>4. /\ stage' \in {"distill", "questions", "finalize", "followup", "reconsider", "done"}
      /\ \/ used' = used /\ calls' = calls /\ sent' = sent /\ stage' # "distill"
         \/ /\ ~Exhausted(used + calls) /\ used' = used /\ calls' = calls + 1
            /\ sent' \in {sent, sent + 1} /\ stage' # "distill"
         \/ used' = used + calls /\ calls' = 0 /\ sent' = sent /\ stage' # "distill"
         \/ /\ used' = used /\ calls' = calls /\ sent' = sent /\ stage' = "distill"
            /\ stage = "reporter" /\ ~Exhausted(used)
  <2>1. CASE Prepare
    BY <1>1, <2>1 DEF Prepare, Coordinated
  <2>2. CASE Distill
    BY <1>1, <2>2 DEF Distill, Coordinated, Call, Unwritten
  <2>3. CASE Question
    BY <1>1, <2>3 DEF Question, Call
  <2>4. CASE Redistill
    BY <1>1, <2>4 DEF Redistill, Redistills, Coordinated, Unwritten
  <2>5. CASE Finalize
    BY <1>1, <2>5 DEF Finalize
  <2>6. CASE FollowUp
    <3> DEFINE available == IF Exhausted(used) THEN 0 ELSE setup.budget - used
    <3>1. \/ UNCHANGED <<calls, sent>>
          \/ Call /\ calls < available
      BY <2>6 DEF FollowUp
    <3>2. calls < available => ~Exhausted(used + calls)
      BY <1>1 DEF Exhausted
    <3>3. stage' = stage /\ stage = "followup" /\ used' = used
      BY <2>6 DEF FollowUp
    <3> HIDE DEF available
    <3> QED BY <1>1, <3>1, <3>2, <3>3 DEF Call
  <2>7. CASE FollowedUp
    BY <1>1, <2>7 DEF FollowedUp
  <2>8. CASE Reconsider
    BY <1>1, <2>8 DEF Reconsider, Call
  <2> QED BY <2>1, <2>2, <2>3, <2>4, <2>5, <2>6, <2>7, <2>8
<1>5. used' \in Nat /\ sent' \in Nat
  BY <1>1, <1>4
<1>6. setup' = setup
  BY <1>2 DEF WaveFixed
<1>7. CallsInv'
  BY <1>1, <1>4, <1>6 DEF CallsInv, Exhausted, Early
<1>8. /\ UNCHANGED <<setup, usable, pending, retry, forced, pressure, wave, called>>
      /\ receipts' = receipts /\ issues' = issues /\ stage' \notin Early
  BY <1>2, <1>4 DEF WaveFixed, Early
<1> QED BY <1>1, <1>3, <1>5, <1>7, <1>8, LaterPass

LEMMA AbortKeeps == ASSUME WaveInv, Abort PROVE WaveInv'
<1>1. /\ UNCHANGED <<setup, usable, receipts, issues, pending, retry, forced, pressure, wave,
                     called, used, sent, calls>>
      /\ stage' = "aborted"
  BY DEF Abort, WaveFixed, reporterVars
<1>2. /\ LaneIds' = LaneIds /\ AllLanes' = AllLanes /\ Tasks' = Tasks
      /\ \A l : PrimaryOf(l)' = PrimaryOf(l) /\ Fallback(l)' = Fallback(l)
      /\ \A p : HasKey(p)' = HasKey(p)
  BY <1>1 DEF LaneIds, AllLanes, Tasks, PrimaryOf, Fallback, HasKey
<1>3. WaveTyped' /\ ProvenanceTrue'
  BY <1>1, <1>2 DEF WaveInv, WaveTyped, ProvenanceTrue
<1>4. CallsInv' /\ WaveFits' /\ LossesTold' /\ stage' \notin Early
  BY <1>1 DEF WaveInv, CallsInv, WaveFits, LossesTold, Swept, Early
<1> QED BY <1>3, <1>4 DEF WaveInv

LEMMA StillKeeps == ASSUME WaveInv, UNCHANGED vars PROVE WaveInv'
<1>1. /\ UNCHANGED <<setup, usable, receipts, issues, pending, retry, forced, pressure, wave,
                     called, used, sent, calls>>
      /\ stage' = stage
  BY DEF vars, waveVars, reporterVars
<1>2. /\ LaneIds' = LaneIds /\ AllLanes' = AllLanes /\ Tasks' = Tasks
      /\ \A l : PrimaryOf(l)' = PrimaryOf(l) /\ Fallback(l)' = Fallback(l)
      /\ \A p : HasKey(p)' = HasKey(p)
  BY <1>1 DEF LaneIds, AllLanes, Tasks, PrimaryOf, Fallback, HasKey
<1>3. WaveTyped' /\ ProvenanceTrue'
  BY <1>1, <1>2 DEF WaveInv, WaveTyped, ProvenanceTrue
<1>4. CallsInv'
  BY <1>1 DEF WaveInv, CallsInv, Exhausted
<1>7. WaveFits'
  BY <1>1 DEF WaveInv, WaveFits
<1>6. LossesTold'
  BY <1>1, <1>2 DEF WaveInv, LossesTold, Swept
<1>5. stage \in Early => LanesInv'
  BY <1>1, <1>2 DEF WaveInv, LanesInv, LaneAt, Awaits, Calling, LaneTold
<1> QED BY <1>1, <1>3, <1>4, <1>5, <1>6, <1>7 DEF WaveInv, Early

LEMMA WaveInvStep == WaveInv /\ [Next]_vars => WaveInv'
<1> SUFFICES ASSUME WaveInv, [Next]_vars PROVE WaveInv'
  OBVIOUS
<1>1. CASE WaveNext /\ UNCHANGED reporterVars
  <2>1. UNCHANGED calls
    BY <1>1 DEF reporterVars
  <2> QED BY <1>1, <2>1, ProviderConstants, Preflighted, WaveStarts, WaveEnds, IsSwept DEF WaveNext
<1>2. CASE Planner \/ NoPlanner \/ Refuter
  BY <1>2, PlannerKeeps, NoPlannerKeeps, RefuterKeeps
<1>3. CASE Prepare \/ Distill \/ Question \/ Redistill \/ Finalize \/ FollowUp \/ FollowedUp
             \/ Reconsider
  <2>1. stage \in {"reporter", "distill", "questions", "finalize", "followup", "reconsider"}
    BY <1>3 DEF Prepare, Distill, Question, Redistill, Finalize, FollowUp, FollowedUp, Reconsider
  <2> QED BY <1>3, <2>1, ReporterKeeps
<1>4. CASE Abort
  BY <1>4, AbortKeeps
<1>5. CASE UNCHANGED vars
  BY <1>5, StillKeeps
<1> QED BY <1>1, <1>2, <1>3, <1>4, <1>5 DEF Next

\* Whatever the providers answer and whoever asks, the calls of all passes stay within
\* max_model_calls, and a wave within the concurrency and each provider's limit.
THEOREM BudgetAlwaysHeld == Spec => []BudgetHeld
<1>1. WaveInv => BudgetHeld
  <2> SUFFICES ASSUME WaveInv PROVE BudgetHeld
    OBVIOUS
  <2>1. /\ sent <= used + calls /\ used + calls <= setup.budget /\ WaveFits
        /\ sent \in Nat /\ used \in Nat /\ calls \in Nat /\ setup.budget \in Nat
    BY SetupsAssumption DEF WaveInv, WaveTyped, CallsInv
  <2> QED BY <2>1 DEF BudgetHeld
<1> QED BY <1>1, WaveInitial, WaveInvStep, PTL DEF Spec

\* Once the wave is over every review lane answered or is told of, exactly once,
\* however its calls, retries and waits went (run_available_model_lanes_with_runner).
THEOREM LossesAlwaysTold == Spec => []LossesTold
<1>1. WaveInv => LossesTold
  BY DEF WaveInv
<1> QED BY <1>1, WaveInitial, WaveInvStep, PTL DEF Spec

\* The receipt of a lane shows the provider and the fallback of the last call really
\* made for it, in every state and for every policy.
THEOREM ProvenanceAlwaysTrue == Spec => []ProvenanceTrue
<1>1. WaveInv => ProvenanceTrue
  BY DEF WaveInv
<1> QED BY <1>1, WaveInitial, WaveInvStep, PTL DEF Spec

(***************************************************************************)
(* The way of the findings.                                                *)
(*                                                                         *)
(* FlowInv: until the final review each finding is on one surface at most, *)
(* among the observations or dropped; from the merge to the compiler each  *)
(* comment is at a place of its own; the candidates are the record of just *)
(* those surfaces.  First what filters and the stable sort do to a list.   *)
(***************************************************************************)
\* What is so at the start and from each step to the next is so at the end.
LEMMA Along ==
  ASSUME NEW L \in Nat, NEW F, NEW scan, scan[0] \in F[0],
         \A n \in 1 .. L : scan[n - 1] \in F[n - 1] => scan[n] \in F[n]
  PROVE  scan[L] \in F[L]
<1> DEFINE bad == {n \in 0 .. L : scan[n] \notin F[n]}
<1>1. bad = {}
  <2>1. bad \in SUBSET Nat
    OBVIOUS
  <2>2. ASSUME NEW n \in bad, \A k \in bad : n <= k
        PROVE  FALSE
    <3>1. n \in 1 .. L /\ n - 1 \in 0 .. L /\ ~(n <= n - 1)
      OBVIOUS
    <3>2. scan[n - 1] \in F[n - 1]
      BY <2>2, <3>1
    <3> QED BY <3>1, <3>2
  <2> HIDE DEF bad
  <2> QED BY <2>1, <2>2, LeastOne
<1> QED BY <1>1

\* An order names each index of I once.
Orders(order, I, n) == order \in Seq(1 .. n) /\ IsInjective(order) /\ ToSet(order) = I

\* The indices a filter keeps: those of I, each once.
LEMMA IndicesEnd ==
  ASSUME NEW I, NEW N \in Nat
  PROVE  Orders(Indices(I, N), I \cap (1 .. N), N)
<1> DEFINE Step(o, n) == IF n \in I THEN Append(o, n) ELSE o
           Is(g) == g = [n \in 0 .. N |-> IF n = 0 THEN << >>
                           ELSE IF n \in I THEN Append(g[n - 1], n) ELSE g[n - 1]]
           scan == CHOOSE g : Is(g)
           D == Seq(1 .. N)
           At(n) == {o \in D : IsInjective(o) /\ ToSet(o) = I \cap (1 .. n)}
           F == [n \in 0 .. N |-> At(n)]
           G == [n \in 1 .. N |-> [o \in D |-> Step(o, n)]]
<1>1. Indices(I, N) = scan[N]
  BY DEF Indices
<1>2. ASSUME NEW n \in 1 .. N, NEW o \in At(n - 1)
      PROVE  Step(o, n) \in At(n) /\ Step(o, n) = G[n][o]
  <2>1. /\ o \in D /\ IsInjective(o) /\ ToSet(o) = I \cap (1 .. n - 1)
        /\ n \in 1 .. N /\ n \notin 1 .. n - 1
    OBVIOUS
  <2>2. CASE n \in I
    <3>1. /\ Append(o, n) \in Seq(1 .. N) /\ ToSet(Append(o, n)) = ToSet(o) \cup {n}
          /\ IsInjective(Append(o, n))
      BY <2>1, Queued
    <3>2. I \cap (1 .. n) = (I \cap (1 .. n - 1)) \cup {n}
      BY <2>2
    <3> QED BY <2>1, <2>2, <3>1, <3>2
  <2>3. CASE n \notin I
    <3>1. I \cap (1 .. n) = I \cap (1 .. n - 1)
      BY <2>3
    <3> QED BY <2>1, <2>3, <3>1
  <2> QED BY <2>2, <2>3
<1>3. << >> \in At(0)
  BY DEF IsInjective, ToSet
<1>4. F \in [0 .. N -> SUBSET D] /\ \A n \in 0 .. N : F[n] = At(n)
  OBVIOUS
<1>5. 0 \in 0 .. N /\ \A n \in 1 .. N : n - 1 \in 0 .. N /\ n \in 0 .. N /\ n # 0
  OBVIOUS
<1> HIDE DEF F, G, At, Step
<1>6. Leads(N, F, G)
  BY <1>2, <1>4, <1>5 DEF Leads
<1>7. PICK f \in [0 .. N -> D] : IsWalk(f, N, F, << >>, G)
  <2>1. << >> \in F[0]
    BY <1>3, <1>4
  <2> QED BY <1>4, <1>6, <2>1, Walks
<1>8. Is(scan)
  <2>1. ASSUME NEW n \in 1 .. N PROVE f[n] = Step(f[n - 1], n)
    BY <1>2, <1>4, <1>5, <1>7 DEF IsWalk
  <2>2. f = [n \in 0 .. N |-> IF n = 0 THEN << >> ELSE Step(f[n - 1], n)]
    <3>1. f[0] = << >> /\ f \in [0 .. N -> D]
      BY <1>7 DEF IsWalk
    <3>2. \A n \in 0 .. N : n # 0 => n \in 1 .. N
      BY <1>5
    <3>3. \A n \in 0 .. N : f[n] = IF n = 0 THEN << >> ELSE Step(f[n - 1], n)
      BY <2>1, <3>1, <3>2
    <3> QED BY <3>1, <3>3
  <2>3. Is(f)
    BY <2>2 DEF Step
  <2> HIDE DEF Is
  <2> QED BY <2>3
<1>9. scan = [n \in 0 .. N |-> IF n = 0 THEN << >> ELSE Step(scan[n - 1], n)]
  <2> HIDE DEF scan
  <2> QED BY <1>8 DEF Step
<1> HIDE DEF scan
<1>10. scan[0] = << >> /\ \A n \in 1 .. N : scan[n] = Step(scan[n - 1], n)
  BY <1>5, <1>9
<1>11. scan[N] \in F[N]
  <2>1. scan[0] \in F[0]
    BY <1>3, <1>4, <1>10
  <2>2. \A n \in 1 .. N : scan[n - 1] \in F[n - 1] => scan[n] \in F[n]
    BY <1>2, <1>4, <1>5, <1>10
  <2> QED BY <2>1, <2>2, Along
<1> QED BY <1>1, <1>4, <1>11 DEF At, Orders

\* Taking a list in some order: what it then holds.
LEMMA TakenIs ==
  ASSUME NEW S, NEW s \in Seq(S), NEW I, NEW order, Orders(order, I, Len(s))
  PROVE  /\ Taken(s, order) \in Seq(S)
         /\ I \subseteq DOMAIN s
         /\ \A k \in DOMAIN Taken(s, order) : order[k] \in I /\ Taken(s, order)[k] = s[order[k]]
         /\ \A i \in I : \E k \in DOMAIN Taken(s, order) : order[k] = i
         /\ \A j, k \in DOMAIN Taken(s, order) : order[j] = order[k] => j = k
<1> DEFINE t == Taken(s, order)
<1>1. /\ order \in Seq(1 .. Len(s)) /\ Len(order) \in Nat /\ DOMAIN order = 1 .. Len(order)
      /\ ToSet(order) = I /\ IsInjective(order) /\ DOMAIN s = 1 .. Len(s)
  BY DEF Orders
<1>2. \A k \in DOMAIN order : order[k] \in I /\ order[k] \in DOMAIN s
  BY <1>1 DEF ToSet
<1>3. /\ DOMAIN t = DOMAIN order
      /\ \A k \in DOMAIN order : t[k] = s[order[k]] /\ t[k] \in S
  BY <1>2 DEF Taken
<1>4. t \in [1 .. Len(order) -> S]
  BY <1>1, <1>2 DEF Taken
<1>5. t \in Seq(S)
  BY <1>1, <1>4, SeqDef
<1> HIDE DEF t
<1>6. I \subseteq DOMAIN s
  BY <1>1, <1>2 DEF ToSet
<1>7. \A i \in I : \E k \in DOMAIN order : order[k] = i
  BY <1>1 DEF ToSet
<1>8. \A j, k \in DOMAIN order : order[j] = order[k] => j = k
  BY <1>1 DEF IsInjective
<1> QED BY <1>2, <1>3, <1>5, <1>6, <1>7, <1>8 DEF t

\* A filter keeps the elements at I, each once.
LEMMA WhereIs ==
  ASSUME NEW S, NEW s \in Seq(S), NEW I
  PROVE  \E order : /\ Orders(order, I \cap DOMAIN s, Len(s))
                    /\ Where(s, I) = Taken(s, order)
<1>1. Len(s) \in Nat /\ DOMAIN s = 1 .. Len(s)
  OBVIOUS
<1> QED BY <1>1, IndicesEnd DEF Where

\* Inserting m at a position adds m and keeps the rest.
LEMMA Inserts ==
  ASSUME NEW S, NEW q \in Seq(S), NEW m \in S, NEW p \in 1 .. Len(q) + 1
  PROVE  /\ InsertAt(q, p, m) \in Seq(S)
         /\ ToSet(InsertAt(q, p, m)) = ToSet(q) \cup {m}
         /\ IsInjective(q) /\ m \notin ToSet(q) => IsInjective(InsertAt(q, p, m))
<1> DEFINE a == SubSeq(q, 1, p - 1)
           b == SubSeq(q, p, Len(q))
           am == a \o <<m>>
           r == am \o b
<1>1. /\ Len(q) \in Nat /\ p \in Nat /\ DOMAIN q = 1 .. Len(q) /\ 1 \in Int /\ p - 1 \in Int
      /\ p \in Int /\ Len(q) \in Int
      /\ \A i \in 1 .. p - 1 : q[i] \in S
      /\ \A i \in p .. Len(q) : q[i] \in S
  OBVIOUS
<1>2. /\ a \in Seq(S) /\ Len(a) = p - 1
      /\ \A i \in 1 .. p - 1 : a[i] = q[i]
  <2>1. /\ a \in Seq(S)
        /\ Len(a) = IF 1 <= p - 1 THEN (p - 1) - 1 + 1 ELSE 0
        /\ \A i \in 1 .. (p - 1) - 1 + 1 : a[i] = q[1 + i - 1]
    BY <1>1, SubSeqProperties
  <2> HIDE DEF a
  <2>2. (p - 1) - 1 + 1 = p - 1 /\ (~(1 <= p - 1) => p - 1 = 0)
    BY <1>1
  <2>3. \A i \in 1 .. p - 1 : 1 + i - 1 = i
    BY <1>1
  <2>4. \A i \in 1 .. p - 1 : a[i] = q[i]
    BY <2>1, <2>2, <2>3
  <2>5. Len(a) = p - 1
    BY <2>1, <2>2
  <2> QED BY <2>1, <2>4, <2>5
<1>3. /\ b \in Seq(S) /\ Len(b) = Len(q) - p + 1
      /\ \A i \in 1 .. Len(q) - p + 1 : b[i] = q[p + i - 1]
  <2>1. /\ b \in Seq(S)
        /\ Len(b) = IF p <= Len(q) THEN Len(q) - p + 1 ELSE 0
        /\ \A i \in 1 .. Len(q) - p + 1 : b[i] = q[p + i - 1]
    BY <1>1, SubSeqProperties
  <2> HIDE DEF b
  <2> QED BY <1>1, <2>1
<1>4. InsertAt(q, p, m) = r
  BY DEF InsertAt
<1> HIDE DEF a, b
<1>5. /\ am \in Seq(S) /\ Len(am) = p
      /\ \A i \in 1 .. p - 1 : am[i] = q[i]
      /\ am[p] = m
  <2>1. <<m>> \in Seq(S) /\ Len(<<m>>) = 1 /\ <<m>>[1] = m
    OBVIOUS
  <2>2. /\ am \in Seq(S) /\ Len(am) = Len(a) + Len(<<m>>)
        /\ \A i \in 1 .. Len(a) + Len(<<m>>) :
             am[i] = IF i <= Len(a) THEN a[i] ELSE <<m>>[i - Len(a)]
    BY <1>2, <2>1, ConcatProperties
  <2> HIDE DEF am
  <2>3. /\ Len(a) + Len(<<m>>) = p /\ p - Len(a) = 1 /\ p \in 1 .. p /\ ~(p <= Len(a))
        /\ \A i \in 1 .. p - 1 : i \in 1 .. p /\ i <= Len(a)
    BY <1>1, <1>2, <2>1
  <2>4. am[p] = m
    BY <2>1, <2>2, <2>3
  <2>5. \A i \in 1 .. p - 1 : am[i] = q[i]
    BY <1>2, <2>2, <2>3
  <2> QED BY <2>2, <2>3, <2>4, <2>5
<1> HIDE DEF am
<1>6. /\ r \in Seq(S) /\ Len(r) = Len(q) + 1
      /\ \A i \in 1 .. p - 1 : r[i] = q[i]
      /\ r[p] = m
      /\ \A i \in p .. Len(q) : r[i + 1] = q[i]
  <2>1. /\ r \in Seq(S) /\ Len(r) = Len(am) + Len(b)
        /\ \A i \in 1 .. Len(am) + Len(b) : r[i] = IF i <= Len(am) THEN am[i] ELSE b[i - Len(am)]
    BY <1>3, <1>5, ConcatProperties
  <2> HIDE DEF r
  <2>2. Len(r) = Len(q) + 1
    BY <1>1, <1>3, <1>5, <2>1
  <2>3. \A i \in 1 .. p : r[i] = am[i]
    BY <1>1, <1>3, <1>5, <2>1
  <2>4. ASSUME NEW i \in p .. Len(q) PROVE r[i + 1] = q[i]
    <3>1. i + 1 \in 1 .. Len(am) + Len(b) /\ ~(i + 1 <= Len(am))
      BY <1>1, <1>3, <1>5
    <3>2. PICK k \in 1 .. Len(q) - p + 1 : k = i + 1 - Len(am) /\ p + k - 1 = i
      BY <1>1, <1>5
    <3>3. r[i + 1] = b[i + 1 - Len(am)]
      BY <2>1, <3>1
    <3>4. b[k] = q[p + k - 1]
      BY <1>3
    <3> QED BY <3>2, <3>3, <3>4
  <2> QED BY <1>1, <1>5, <2>1, <2>2, <2>3, <2>4
<1> HIDE DEF r
<1>7. /\ DOMAIN r = 1 .. Len(q) + 1
      /\ \A i \in DOMAIN r : i < p \/ i = p \/ (i - 1 \in p .. Len(q) /\ r[i] = q[i - 1])
  <2>1. DOMAIN r = 1 .. Len(q) + 1
    BY <1>6
  <2>2. ASSUME NEW i \in DOMAIN r, ~(i < p), i # p PROVE i - 1 \in p .. Len(q) /\ r[i] = q[i - 1]
    <3>1. i - 1 \in p .. Len(q) /\ (i - 1) + 1 = i
      BY <1>1, <2>1, <2>2
    <3> QED BY <1>6, <3>1
  <2> QED BY <2>1, <2>2
<1>8. ToSet(r) = ToSet(q) \cup {m}
  <2>1. ASSUME NEW i \in DOMAIN r PROVE r[i] \in ToSet(q) \cup {m}
    <3>1. CASE i < p
      BY <1>1, <1>6, <1>7, <3>1 DEF ToSet
    <3>2. CASE i = p
      BY <1>6, <3>2
    <3>3. CASE i - 1 \in p .. Len(q) /\ r[i] = q[i - 1]
      BY <1>1, <3>3 DEF ToSet
    <3> QED BY <1>7, <3>1, <3>2, <3>3
  <2>2. ASSUME NEW i \in DOMAIN q PROVE q[i] \in ToSet(r)
    <3>1. CASE i < p
      <4>1. i \in DOMAIN r /\ r[i] = q[i]
        BY <1>1, <1>6, <1>7, <3>1
      <4> QED BY <4>1 DEF ToSet
    <3>2. CASE ~(i < p)
      <4>1. i + 1 \in DOMAIN r /\ r[i + 1] = q[i]
        BY <1>1, <1>6, <1>7, <3>2
      <4> QED BY <4>1 DEF ToSet
    <3> QED BY <3>1, <3>2
  <2>3. m \in ToSet(r)
    <3>1. p \in DOMAIN r
      BY <1>1, <1>7
    <3> QED BY <1>6, <3>1 DEF ToSet
  <2> QED BY <2>1, <2>2, <2>3 DEF ToSet
<1>9. ASSUME IsInjective(q), m \notin ToSet(q), NEW i \in DOMAIN r, NEW j \in DOMAIN r, r[i] = r[j]
      PROVE  i = j
  <2>1. \A k \in DOMAIN q : q[k] # m
    BY <1>9 DEF ToSet
  <2>2. \A k, n \in DOMAIN q : q[k] = q[n] => k = n
    BY <1>9 DEF IsInjective
  <2>3. /\ i < p => i \in DOMAIN q /\ r[i] = q[i]
        /\ j < p => j \in DOMAIN q /\ r[j] = q[j]
    BY <1>1, <1>6, <1>7
  <2>4. /\ ~(i < p) /\ i # p => i - 1 \in DOMAIN q /\ r[i] = q[i - 1] /\ ~(i - 1 < p)
        /\ ~(j < p) /\ j # p => j - 1 \in DOMAIN q /\ r[j] = q[j - 1] /\ ~(j - 1 < p)
    BY <1>1, <1>7
  <2>5. i \in Nat /\ j \in Nat
    BY <1>1, <1>7
  <2> QED BY <1>1, <1>6, <1>9, <2>1, <2>2, <2>3, <2>4, <2>5
<1> QED BY <1>4, <1>6, <1>8, <1>9 DEF IsInjective

\* A stable insertion sort reorders its list.
LEMMA SortedIs ==
  ASSUME NEW S, NEW s \in Seq(S), NEW key
  PROVE  \E order : Orders(order, DOMAIN s, Len(s)) /\ Sorted(s, key) = Taken(s, order)
<1> DEFINE N == Len(s)
           Is(g) == g = [n \in 0 .. N |-> IF n = 0 THEN << >> ELSE Inserted(g[n - 1], n, key)]
           scan == CHOOSE g : Is(g)
           D == Seq(1 .. N)
           At(n) == {o \in D : IsInjective(o) /\ ToSet(o) = 1 .. n}
           F == [n \in 0 .. N |-> At(n)]
           G == [n \in 1 .. N |-> [o \in D |-> Inserted(o, n, key)]]
<1>1. Sorted(s, key) = Taken(s, scan[N])
  BY DEF Sorted
<1>0. N \in Nat /\ DOMAIN s = 1 .. N
  OBVIOUS
<1> HIDE DEF N
<1>2. ASSUME NEW n \in 1 .. N, NEW o \in At(n - 1)
      PROVE  Inserted(o, n, key) \in At(n) /\ Inserted(o, n, key) = G[n][o]
  <2> DEFINE behind == {k \in DOMAIN o : ~SeqLess(key[n], key[o[k]])}
  <2>1. /\ o \in Seq(1 .. N) /\ IsInjective(o) /\ ToSet(o) = 1 .. n - 1
        /\ n \in 1 .. N /\ n \notin 1 .. n - 1 /\ 1 .. n = (1 .. n - 1) \cup {n}
        /\ Len(o) \in Nat /\ DOMAIN o = 1 .. Len(o)
    BY <1>0
  <2>2. Cardinality(behind) \in Nat /\ Cardinality(behind) <= Len(o)
    <3>1. IsFiniteSet(1 .. Len(o)) /\ Cardinality(1 .. Len(o)) = Len(o)
      <4>1. 1 \in Int /\ Len(o) \in Int
        BY <2>1
      <4>2. IsFiniteSet(1 .. Len(o)) /\ Cardinality(1 .. Len(o)) = IF 1 > Len(o) THEN 0 ELSE Len(o) - 1 + 1
        BY <4>1, FS_Interval
      <4> QED BY <2>1, <4>2
    <3>2. behind \subseteq 1 .. Len(o)
      BY <2>1
    <3> HIDE DEF behind
    <3>3. Cardinality(behind) <= Cardinality(1 .. Len(o)) /\ IsFiniteSet(behind)
      BY <3>1, <3>2, FS_Subset
    <3> QED BY <3>1, <3>3, FS_CardinalityType
  <2>3. Inserted(o, n, key) = InsertAt(o, 1 + Cardinality(behind), n)
    BY DEF Inserted
  <2> HIDE DEF behind
  <2>4. 1 + Cardinality(behind) \in 1 .. Len(o) + 1
    BY <2>1, <2>2
  <2>5. /\ Inserted(o, n, key) \in Seq(1 .. N)
        /\ ToSet(Inserted(o, n, key)) = ToSet(o) \cup {n}
        /\ IsInjective(Inserted(o, n, key))
    <3> DEFINE p == 1 + Cardinality(behind)
    <3>1. p \in 1 .. Len(o) + 1
      BY <2>4
    <3> HIDE DEF p
    <3>2. /\ InsertAt(o, p, n) \in Seq(1 .. N)
          /\ ToSet(InsertAt(o, p, n)) = ToSet(o) \cup {n}
          /\ IsInjective(InsertAt(o, p, n))
      <4> DEFINE B == 1 .. N
      <4>1. o \in Seq(B) /\ n \in B /\ n \notin ToSet(o)
        BY <2>1
      <4> HIDE DEF B
      <4>2. /\ InsertAt(o, p, n) \in Seq(B)
            /\ ToSet(InsertAt(o, p, n)) = ToSet(o) \cup {n}
            /\ IsInjective(o) /\ n \notin ToSet(o) => IsInjective(InsertAt(o, p, n))
        BY <3>1, <4>1, Inserts
      <4> QED BY <2>1, <4>1, <4>2 DEF B
    <3> QED BY <2>3, <3>2 DEF p
  <2> QED BY <2>1, <2>5
<1>3. << >> \in At(0)
  BY DEF IsInjective, ToSet
<1>4. F \in [0 .. N -> SUBSET D] /\ \A n \in 0 .. N : F[n] = At(n)
  OBVIOUS
<1>5. 0 \in 0 .. N /\ \A n \in 1 .. N : n - 1 \in 0 .. N /\ n \in 0 .. N /\ n # 0
  BY <1>0
<1> HIDE DEF F, G, At
<1>6. Leads(N, F, G)
  BY <1>2, <1>4, <1>5 DEF Leads
<1>7. PICK f \in [0 .. N -> D] : IsWalk(f, N, F, << >>, G)
  <2>1. << >> \in F[0]
    BY <1>3, <1>4, <1>5
  <2> QED BY <1>0, <1>4, <1>6, <2>1, Walks
<1>8. Is(scan)
  <2>1. ASSUME NEW n \in 1 .. N PROVE f[n] = Inserted(f[n - 1], n, key)
    BY <1>2, <1>4, <1>5, <1>7 DEF IsWalk
  <2>2. f = [n \in 0 .. N |-> IF n = 0 THEN << >> ELSE Inserted(f[n - 1], n, key)]
    BY <1>5, <1>7, <2>1 DEF IsWalk
  <2>3. Is(f)
    BY <2>2
  <2> HIDE DEF Is
  <2> QED BY <2>3
<1>9. scan = [n \in 0 .. N |-> IF n = 0 THEN << >> ELSE Inserted(scan[n - 1], n, key)]
  <2> HIDE DEF scan
  <2> QED BY <1>8
<1> HIDE DEF scan
<1>10. scan[0] = << >> /\ \A n \in 1 .. N : scan[n] = Inserted(scan[n - 1], n, key)
  BY <1>5, <1>9
<1>11. scan[N] \in F[N]
  <2>1. scan[0] \in F[0]
    BY <1>3, <1>4, <1>5, <1>10
  <2>2. \A n \in 1 .. N : scan[n - 1] \in F[n - 1] => scan[n] \in F[n]
    BY <1>2, <1>4, <1>5, <1>10
  <2> QED BY <1>0, <2>1, <2>2, Along
<1>12. N \in 0 .. N
  BY <1>0
<1>13. Orders(scan[N], 1 .. N, N)
  BY <1>4, <1>11, <1>12 DEF At, Orders
<1> QED BY <1>0, <1>1, <1>13 DEF N


(***************************************************************************)
(* The surfaces, and what filtering and sorting them keeps.                *)
(***************************************************************************)
Forms    == {"own", "rejected", "anchored", "guarded", "trailing", "merged", "restated",
             "overclaim", "premise", "key", "conflict"}
Words    == STRING \cup {"plain", "refuted"}
Statuses == STRING \cup {"open", "refuted"}
Texts == [form : Forms, at : Seq(Nat), claim : Nat]
Surfaces ==
  [lane : Nat, at : Seq(Nat), text : Texts, ev : Seq(Nat), word : Words, grade : Nat, from : Nat]
Observations ==
  [lane : Nat, at : Seq(Nat), text : Texts, status : Statuses, key : Texts, from : Nat]

\* No two stand for the same finding; no two are at the same place.
Once(s)   == \A j, k \in DOMAIN s : s[j].from = s[k].from => j = k
Placed(s) == \A j, k \in DOMAIN s : s[j].at = s[k].at => j = k

\* t holds those of s that are at I, each once, in some order.
Holds(t, s, I) ==
  /\ DOMAIN t = 1 .. Len(t) /\ Len(t) \in Nat
  /\ \A k \in DOMAIN t : \E i \in I \cap DOMAIN s : t[k] = s[i]
  /\ \A i \in I \cap DOMAIN s : \E k \in DOMAIN t : t[k] = s[i]
  /\ Froms(t) = {s[i].from : i \in I \cap DOMAIN s}
  /\ Once(s) => Once(t)
  /\ Placed(s) => Placed(t)

\* What a list taken in some order holds.
LEMMA TakenHolds ==
  ASSUME NEW S, NEW s \in Seq(S), NEW I \in SUBSET DOMAIN s, NEW order, Orders(order, I, Len(s))
  PROVE  Taken(s, order) \in Seq(S) /\ Holds(Taken(s, order), s, I)
<1> DEFINE t == Taken(s, order)
<1>1. /\ t \in Seq(S)
      /\ \A k \in DOMAIN t : order[k] \in I /\ t[k] = s[order[k]]
      /\ \A i \in I : \E k \in DOMAIN t : order[k] = i
      /\ \A j, k \in DOMAIN t : order[j] = order[k] => j = k
      /\ I \cap DOMAIN s = I
  BY TakenIs
<1>2. DOMAIN t = 1 .. Len(t) /\ Len(t) \in Nat
  BY <1>1
<1> HIDE DEF t
<1>3. Froms(t) = {s[i].from : i \in I}
  BY <1>1 DEF Froms
<1>4. Once(s) => Once(t)
  BY <1>1 DEF Once
<1>5. Placed(s) => Placed(t)
  BY <1>1 DEF Placed
<1>6. Holds(t, s, I)
  BY <1>1, <1>2, <1>3, <1>4, <1>5 DEF Holds
<1> QED BY <1>1, <1>6 DEF t

\* What a filtered list holds.
LEMMA WhereHolds ==
  ASSUME NEW S, NEW s \in Seq(S), NEW I
  PROVE  Where(s, I) \in Seq(S) /\ Holds(Where(s, I), s, I)
<1>1. PICK order : Orders(order, I \cap DOMAIN s, Len(s)) /\ Where(s, I) = Taken(s, order)
  BY WhereIs
<1>2. Where(s, I) \in Seq(S) /\ Holds(Where(s, I), s, I \cap DOMAIN s)
  BY <1>1, TakenHolds
<1>3. (I \cap DOMAIN s) \cap DOMAIN s = I \cap DOMAIN s
  OBVIOUS
<1> QED BY <1>2, <1>3 DEF Holds

\* What a sorted list holds.
LEMMA SortedHolds ==
  ASSUME NEW S, NEW s \in Seq(S), NEW key
  PROVE  Sorted(s, key) \in Seq(S) /\ Holds(Sorted(s, key), s, DOMAIN s)
<1>1. PICK order : Orders(order, DOMAIN s, Len(s)) /\ Sorted(s, key) = Taken(s, order)
  BY SortedIs
<1> QED BY <1>1, TakenHolds

\* A summary, or a note, has no place.
OffPlace(s) == \A k \in DOMAIN s : s[k].at = NoPlace

\* The types of places, texts and surfaces.
LEMMA NoPlaceType == NoPlace \in Seq(Nat)
BY DEF NoPlace

\* One more surface at the end of a list.
LEMMA Appended ==
  ASSUME NEW S, NEW s \in Seq(S), NEW e \in S
  PROVE  /\ Append(s, e) \in Seq(S)
         /\ Froms(Append(s, e)) = Froms(s) \cup {e.from}
         /\ Once(s) /\ e.from \notin Froms(s) => Once(Append(s, e))
         /\ Placed(s) /\ (\A k \in DOMAIN s : s[k].at # e.at) => Placed(Append(s, e))
         /\ OffPlace(s) /\ e.at = NoPlace => OffPlace(Append(s, e))
         /\ \A k \in DOMAIN Append(s, e) : (k \in DOMAIN s /\ Append(s, e)[k] = s[k]) \/ Append(s, e)[k] = e
<1> DEFINE t == Append(s, e)
           n == Len(s) + 1
<1>1. /\ t \in Seq(S) /\ DOMAIN t = 1 .. n /\ DOMAIN s = 1 .. Len(s) /\ Len(s) \in Nat
      /\ \A k \in DOMAIN s : t[k] = s[k]
      /\ t[n] = e
  OBVIOUS
<1>2. /\ \A k \in DOMAIN t : k \in DOMAIN s \/ k = n
      /\ \A k \in DOMAIN s : k \in DOMAIN t
      /\ n \in DOMAIN t
  BY <1>1
<1> HIDE DEF t, n
<1>3. Froms(t) = Froms(s) \cup {e.from}
  BY <1>1, <1>2 DEF Froms
<1>4. ASSUME Once(s), e.from \notin Froms(s) PROVE Once(t)
  <2>1. \A k \in DOMAIN s : s[k].from # e.from
    BY <1>4 DEF Froms
  <2>2. ASSUME NEW j \in DOMAIN t, NEW k \in DOMAIN t, t[j].from = t[k].from PROVE j = k
    <3>1. CASE j \in DOMAIN s /\ k \in DOMAIN s
      BY <1>1, <1>4, <2>2, <3>1 DEF Once
    <3>2. CASE j = n /\ k \in DOMAIN s
      BY <1>1, <2>1, <2>2, <3>2
    <3>3. CASE j \in DOMAIN s /\ k = n
      BY <1>1, <2>1, <2>2, <3>3
    <3> QED BY <1>2, <3>1, <3>2, <3>3
  <2> QED BY <2>2 DEF Once
<1>5. ASSUME Placed(s), \A k \in DOMAIN s : s[k].at # e.at PROVE Placed(t)
  <2>2. ASSUME NEW j \in DOMAIN t, NEW k \in DOMAIN t, t[j].at = t[k].at PROVE j = k
    <3>1. CASE j \in DOMAIN s /\ k \in DOMAIN s
      BY <1>1, <1>5, <2>2, <3>1 DEF Placed
    <3>2. CASE j = n /\ k \in DOMAIN s
      BY <1>1, <1>5, <2>2, <3>2
    <3>3. CASE j \in DOMAIN s /\ k = n
      BY <1>1, <1>5, <2>2, <3>3
    <3> QED BY <1>2, <3>1, <3>2, <3>3
  <2> QED BY <2>2 DEF Placed
<1>6. OffPlace(s) /\ e.at = NoPlace => OffPlace(t)
  BY <1>1, <1>2 DEF OffPlace
<1>7. \A k \in DOMAIN t : (k \in DOMAIN s /\ t[k] = s[k]) \/ t[k] = e
  BY <1>1, <1>2
<1> QED BY <1>1, <1>3, <1>4, <1>5, <1>6, <1>7 DEF t

\* t is s with e at i.
Replaces(t, S, s, i, e) == s \in Seq(S) /\ i \in DOMAIN s /\ e \in S /\ t = [s EXCEPT ![i] = e]

\* One surface of a list replaced.
LEMMA Replaced ==
  ASSUME NEW S, NEW s, NEW i, NEW e, NEW t, Replaces(t, S, s, i, e)
  PROVE  /\ t \in Seq(S)
         /\ \A k \in DOMAIN t : k \in DOMAIN s /\ t[k] = IF k = i THEN e ELSE s[k]
         /\ Once(s) => Froms(t) = (Froms(s) \ {s[i].from}) \cup {e.from}
         /\ Once(s) /\ (e.from \notin Froms(s) \/ e.from = s[i].from) => Once(t)
         /\ Placed(s) /\ (\A k \in DOMAIN s : k # i => s[k].at # e.at) => Placed(t)
<1>1. /\ t \in Seq(S) /\ DOMAIN t = DOMAIN s
      /\ \A k \in DOMAIN s : t[k] = IF k = i THEN e ELSE s[k]
      /\ i \in DOMAIN s
  BY DEF Replaces
<1>2. ASSUME Once(s) PROVE Froms(t) = (Froms(s) \ {s[i].from}) \cup {e.from}
  <2>1. \A k \in DOMAIN s : k # i => s[k].from # s[i].from
    BY <1>1, <1>2 DEF Once
  <2> QED BY <1>1, <2>1 DEF Froms
<1>3. ASSUME Once(s), e.from \notin Froms(s) \/ e.from = s[i].from PROVE Once(t)
  <2>1. \A k \in DOMAIN s : k # i => s[k].from # e.from
    BY <1>1, <1>3 DEF Once, Froms
  <2>2. \A j, k \in DOMAIN s : s[j].from = s[k].from => j = k
    BY <1>3 DEF Once
  <2> QED BY <1>1, <2>1, <2>2 DEF Once
<1>4. ASSUME Placed(s), \A k \in DOMAIN s : k # i => s[k].at # e.at PROVE Placed(t)
  <2>1. \A j, k \in DOMAIN s : s[j].at = s[k].at => j = k
    BY <1>4 DEF Placed
  <2> QED BY <1>1, <1>4, <2>1 DEF Placed
<1> QED BY <1>1, <1>2, <1>3, <1>4

\* The least of a set of numbers is one of them.
LEMMA MinIn ==
  ASSUME NEW I \in SUBSET Nat, I # {}
  PROVE  Min(I) \in I
BY LeastOne DEF Min

LEMMA TextType ==
  ASSUME NEW form \in Forms, NEW at \in Seq(Nat), NEW claim \in Nat
  PROVE  Text(form, at, claim) \in Texts
BY DEF Text, Texts

LEMMA Strings ==
  /\ "plain" \in Words /\ "refuted" \in Words
  /\ {"merged", "restated"} \subseteq Forms
BY DEF Words, Forms

LEMMA SurfaceFields ==
  ASSUME NEW s \in Surfaces
  PROVE  /\ s.lane \in Nat /\ s.at \in Seq(Nat) /\ s.text \in Texts /\ s.ev \in Seq(Nat)
         /\ s.word \in Words /\ s.grade \in Nat /\ s.from \in Nat
BY DEF Surfaces

\* merge_duplicate_inline_evidence() changes the evidence only.
LEMMA EnrichedIs ==
  ASSUME NEW k \in Surfaces, NEW d \in Surfaces
  PROVE  /\ Enriched(k, d) \in Surfaces
         /\ Enriched(k, d).at = k.at /\ Enriched(k, d).from = k.from
<1>1. k.ev \o d.ev \in Seq(Nat)
  BY DEF Surfaces
<1> DEFINE ev == k.ev \o d.ev
<1> HIDE DEF ev
<1>2. ev \in Seq(Nat)
  BY <1>1 DEF ev
<1>3. /\ [k EXCEPT !.ev = ev] \in Surfaces
      /\ [k EXCEPT !.ev = ev].at = k.at /\ [k EXCEPT !.ev = ev].from = k.from
  BY <1>2 DEF Surfaces
<1> QED BY <1>3 DEF Enriched, ev

(***************************************************************************)
(* Merging: every comment's finding is kept or noted, once.                *)
(***************************************************************************)
Accs == [kept : Seq(Surfaces), notes : Seq(Surfaces)]
Separate(kept, notes) ==
  /\ Once(kept) /\ Once(notes) /\ Froms(kept) \cap Froms(notes) = {}
  /\ Placed(kept) /\ OffPlace(notes)

\* Of a comment from a new finding and the kept one it duplicates, w is kept, as e, and
\* the other leaves the note.
Merges(kept, notes, i, w, e, note, from, new, left) ==
  /\ new = [kept EXCEPT ![i] = e] /\ left = Append(notes, note)
  /\ kept \in Seq(Surfaces) /\ notes \in Seq(Surfaces) /\ Separate(kept, notes)
  /\ i \in DOMAIN kept /\ w \in Surfaces /\ e \in Surfaces /\ note \in Surfaces
  /\ note.at = NoPlace /\ e.at = w.at /\ e.from = w.from
  /\ from \notin Froms(kept) \cup Froms(notes)
  /\ \/ w.from = kept[i].from /\ note.from = from
     \/ w.from = from /\ note.from = kept[i].from
  /\ \A k \in DOMAIN kept : k # i => kept[k].at # w.at

\* What comes of such an exchange.
LEMMA Exchanged ==
  ASSUME NEW kept, NEW notes, NEW i, NEW w, NEW e, NEW note, NEW from,
         NEW new, NEW left, Merges(kept, notes, i, w, e, note, from, new, left)
  PROVE  /\ new \in Seq(Surfaces) /\ left \in Seq(Surfaces) /\ Separate(new, left)
         /\ Froms(new) \cup Froms(left) = Froms(kept) \cup Froms(notes) \cup {from}
         /\ \A k \in DOMAIN new : new[k].at = w.at \/ (k \in DOMAIN kept /\ new[k].at = kept[k].at)
<1>0. /\ new = [kept EXCEPT ![i] = e] /\ left = Append(notes, note)
      /\ kept \in Seq(Surfaces) /\ notes \in Seq(Surfaces) /\ Separate(kept, notes)
      /\ i \in DOMAIN kept /\ w \in Surfaces /\ e \in Surfaces /\ note \in Surfaces
      /\ note.at = NoPlace /\ e.at = w.at /\ e.from = w.from
      /\ from \notin Froms(kept) \cup Froms(notes)
      /\ \/ w.from = kept[i].from /\ note.from = from
         \/ w.from = from /\ note.from = kept[i].from
      /\ \A k \in DOMAIN kept : k # i => kept[k].at # w.at
  BY DEF Merges
<1>1. /\ Once(kept) /\ Once(notes) /\ Froms(kept) \cap Froms(notes) = {}
      /\ Placed(kept) /\ OffPlace(notes) /\ kept[i].from \in Froms(kept)
  BY <1>0 DEF Separate, Froms
<1>2. e.from \notin Froms(kept) \/ e.from = kept[i].from
  BY <1>0, <1>1
<1>3. \A k \in DOMAIN kept : k # i => kept[k].at # e.at
  BY <1>0, <1>1
<1>4. /\ new \in Seq(Surfaces)
      /\ \A k \in DOMAIN new : k \in DOMAIN kept /\ new[k] = IF k = i THEN e ELSE kept[k]
      /\ Froms(new) = (Froms(kept) \ {kept[i].from}) \cup {w.from}
      /\ Once(new) /\ Placed(new)
  <2>1. Replaces(new, Surfaces, kept, i, e)
    BY <1>0 DEF Replaces
  <2> QED BY <1>0, <1>1, <1>2, <1>3, <2>1, Replaced
<1>5. note.from \notin Froms(notes)
  BY <1>0, <1>1
<1>6. /\ left \in Seq(Surfaces) /\ Froms(left) = Froms(notes) \cup {note.from}
      /\ Once(left) /\ OffPlace(left)
  BY <1>0, <1>1, <1>5, Appended
<1>7. Froms(new) \cap Froms(left) = {}
  BY <1>0, <1>1, <1>4, <1>6
<1>8. Froms(new) \cup Froms(left) = Froms(kept) \cup Froms(notes) \cup {from}
  BY <1>0, <1>1, <1>4, <1>6
<1>9. \A k \in DOMAIN new : new[k].at = w.at \/ (k \in DOMAIN kept /\ new[k].at = kept[k].at)
  BY <1>0, <1>4
<1> QED BY <1>4, <1>6, <1>7, <1>8, <1>9 DEF Separate

\* Nothing is lost when c comes to the kept comments and the notes, and nothing doubled.
Absorption(new, acc, c) ==
  /\ new \in Accs /\ Separate(new.kept, new.notes)
  /\ Froms(new.kept) \cup Froms(new.notes) = Froms(acc.kept) \cup Froms(acc.notes) \cup {c.from}
  /\ \A k \in DOMAIN new.kept :
       new.kept[k].at = c.at \/ \E j \in DOMAIN acc.kept : new.kept[k].at = acc.kept[j].at

\* One step of the merge, whichever of the two comments wins.
LEMMA Absorbs ==
  ASSUME NEW acc \in Accs, Separate(acc.kept, acc.notes), NEW c \in Surfaces, NEW form \in Forms,
         c.from \notin Froms(acc.kept) \cup Froms(acc.notes),
         form = "merged" \/ \A k \in DOMAIN acc.kept : acc.kept[k].at # c.at
  PROVE  Absorption(Absorb(acc, c, form), acc, c)
<1> DEFINE twins == {i \in DOMAIN acc.kept : Duplicates(acc.kept[i], c, form)}
           new == Absorb(acc, c, form)
<1> SUFFICES /\ new \in Accs /\ Separate(new.kept, new.notes)
             /\ Froms(new.kept) \cup Froms(new.notes)
                  = Froms(acc.kept) \cup Froms(acc.notes) \cup {c.from}
             /\ \A k \in DOMAIN new.kept :
                  new.kept[k].at = c.at \/ \E j \in DOMAIN acc.kept : new.kept[k].at = acc.kept[j].at
  <2> HIDE DEF new, twins
  <2> QED BY DEF Absorption, new
<1>1. /\ acc.kept \in Seq(Surfaces) /\ acc.notes \in Seq(Surfaces)
      /\ acc = [kept |-> acc.kept, notes |-> acc.notes]
  BY DEF Accs
<1>2. /\ Once(acc.kept) /\ Once(acc.notes) /\ Froms(acc.kept) \cap Froms(acc.notes) = {}
      /\ Placed(acc.kept) /\ OffPlace(acc.notes)
  BY DEF Separate
<1>3. CASE twins = {}
  <2>1. new = [acc EXCEPT !.kept = Append(@, c)]
    BY <1>3 DEF Absorb
  <2>2. new.kept = Append(acc.kept, c) /\ new.notes = acc.notes /\ new = [kept |-> new.kept, notes |-> new.notes]
    BY <1>1, <2>1
  <2>3. \A k \in DOMAIN acc.kept : acc.kept[k].at # c.at
    BY <1>3 DEF Duplicates
  <2>4. /\ new.kept \in Seq(Surfaces) /\ Froms(new.kept) = Froms(acc.kept) \cup {c.from}
        /\ Once(new.kept) /\ Placed(new.kept)
        /\ \A k \in DOMAIN new.kept :
             (k \in DOMAIN acc.kept /\ new.kept[k] = acc.kept[k]) \/ new.kept[k] = c
    <3>1. c.from \notin Froms(acc.kept)
      OBVIOUS
    <3> QED BY <1>1, <1>2, <2>2, <2>3, <3>1, Appended
  <2>5. new \in Accs
    BY <1>1, <2>2, <2>4 DEF Accs
  <2>6. Separate(new.kept, new.notes)
    BY <1>2, <2>2, <2>4 DEF Separate
  <2> HIDE DEF new
  <2> QED BY <2>2, <2>4, <2>5, <2>6 DEF new
<1>4. CASE twins # {}
  <2> DEFINE i == Min(twins)
             old == acc.kept[i]
             wins == Rank(c) > Rank(old)
             w == IF wins THEN c ELSE old
             d == IF wins THEN old ELSE c
             note == Surface(d.lane, NoPlace, Text(form, d.at \o w.at, NoClaim), d.ev, "plain",
                             d.grade, d.from)
             e == Enriched(w, d)
  <2>1. i \in twins /\ i \in DOMAIN acc.kept
    <3>1. DOMAIN acc.kept \subseteq Nat
      BY <1>1
    <3>2. twins \in SUBSET Nat
      BY <3>1
    <3> HIDE DEF twins
    <3>3. i \in twins
      BY <1>4, <3>2, MinIn
    <3> QED BY <3>3 DEF twins
  <2>2. new = [kept |-> [acc.kept EXCEPT ![i] = e], notes |-> Append(acc.notes, note)]
    BY <1>4 DEF Absorb
  <2>3. Duplicates(old, c, form)
    BY <2>1
  <2> HIDE DEF i, new
  <2>4. old \in Surfaces
    BY <1>1, <2>1
  <2> HIDE DEF old
  <2>5. w \in Surfaces /\ d \in Surfaces
    BY <2>4
  <2>6. \/ w = old /\ d = c
        \/ w = c /\ d = old
    OBVIOUS
  <2> HIDE DEF w, d
  <2>7. e \in Surfaces /\ e.at = w.at /\ e.from = w.from
    BY <2>5, EnrichedIs
  <2>8. note \in Surfaces /\ note.at = NoPlace /\ note.from = d.from
    <3>1. /\ d.lane \in Nat /\ d.at \in Seq(Nat) /\ d.ev \in Seq(Nat) /\ d.grade \in Nat
          /\ d.from \in Nat /\ w.at \in Seq(Nat) /\ NoClaim \in Nat
      BY <2>5, SurfaceFields DEF NoClaim
    <3>2. d.at \o w.at \in Seq(Nat)
      BY <3>1
    <3> DEFINE text == Text(form, d.at \o w.at, NoClaim)
    <3>3. text \in Texts
      BY <3>1, <3>2, TextType
    <3> HIDE DEF text
    <3>4. "plain" \in Words
      BY Strings
    <3> DEFINE n == Surface(d.lane, NoPlace, text, d.ev, "plain", d.grade, d.from)
    <3>5. n \in Surfaces /\ n.at = NoPlace /\ n.from = d.from
      BY <3>1, <3>3, <3>4, NoPlaceType DEF Surface, Surfaces
    <3>6. note = n
      BY DEF text
    <3> QED BY <3>5, <3>6
  <2> HIDE DEF e, note
  <2>9. \A k \in DOMAIN acc.kept : k # i => acc.kept[k].at # w.at
    <3>1. \A k \in DOMAIN acc.kept : k # i => acc.kept[k].at # old.at
      BY <1>2, <2>1 DEF Placed, old
    <3>2. ASSUME w = c, form = "merged" PROVE c.at = old.at
      BY <2>3, <3>2 DEF Duplicates
    <3> QED BY <2>6, <3>1, <3>2
  <2>10. LET kept == [acc.kept EXCEPT ![i] = e]
             left == Append(acc.notes, note)
         IN  /\ kept \in Seq(Surfaces) /\ left \in Seq(Surfaces) /\ Separate(kept, left)
             /\ Froms(kept) \cup Froms(left) = Froms(acc.kept) \cup Froms(acc.notes) \cup {c.from}
             /\ \A k \in DOMAIN kept :
                  kept[k].at = w.at \/ (k \in DOMAIN acc.kept /\ kept[k].at = acc.kept[k].at)
    <3>1. \/ w.from = acc.kept[i].from /\ note.from = c.from
          \/ w.from = c.from /\ note.from = acc.kept[i].from
      BY <2>6, <2>8 DEF old
    <3>2. \A from : from = c.from => from \notin Froms(acc.kept) \cup Froms(acc.notes)
      OBVIOUS
    <3> DEFINE kept == acc.kept
               notes == acc.notes
               from == c.from
    <3>3. /\ kept \in Seq(Surfaces) /\ notes \in Seq(Surfaces) /\ Separate(kept, notes)
          /\ i \in DOMAIN kept /\ from \notin Froms(kept) \cup Froms(notes)
          /\ \/ w.from = kept[i].from /\ note.from = from
             \/ w.from = from /\ note.from = kept[i].from
          /\ \A k \in DOMAIN kept : k # i => kept[k].at # w.at
      BY <1>1, <2>1, <2>9, <3>1
    <3> HIDE DEF kept, notes, from
    <3> DEFINE after == [kept EXCEPT ![i] = e]
               left == Append(notes, note)
    <3>4. after = [kept EXCEPT ![i] = e] /\ left = Append(notes, note)
      OBVIOUS
    <3> HIDE DEF after, left
    <3>5. /\ after \in Seq(Surfaces) /\ left \in Seq(Surfaces) /\ Separate(after, left)
          /\ Froms(after) \cup Froms(left) = Froms(kept) \cup Froms(notes) \cup {from}
          /\ \A k \in DOMAIN after :
               after[k].at = w.at \/ (k \in DOMAIN kept /\ after[k].at = kept[k].at)
      <4>1. Merges(kept, notes, i, w, e, note, from, after, left)
        BY <2>5, <2>7, <2>8, <3>3, <3>4 DEF Merges
      <4> QED BY <4>1, Exchanged
    <3> QED BY <3>5 DEF kept, notes, from, after, left
  <2>11. w.at = c.at \/ w.at = acc.kept[i].at
    BY <2>6 DEF old
  <2>12. /\ new.kept = [acc.kept EXCEPT ![i] = e] /\ new.notes = Append(acc.notes, note)
    BY <2>2
  <2>13. new \in Accs
    BY <2>2, <2>10 DEF Accs
  <2> QED BY <2>1, <2>10, <2>11, <2>12, <2>13 DEF new
<1> QED BY <1>3, <1>4

\* A whole pass over the comments; the second one finds each at a place of its own.
LEMMA AbsorbedIs ==
  ASSUME NEW first \in Accs, Separate(first.kept, first.notes), first.kept = << >>,
         NEW cs \in Seq(Surfaces), Once(cs), Froms(first.notes) \cap Froms(cs) = {},
         NEW form \in Forms, form = "merged" \/ Placed(cs)
  PROVE  /\ Absorbed(first, cs, form) \in Accs
         /\ Separate(Absorbed(first, cs, form).kept, Absorbed(first, cs, form).notes)
         /\ Froms(Absorbed(first, cs, form).kept) \cup Froms(Absorbed(first, cs, form).notes)
              = Froms(first.notes) \cup Froms(cs)
<1> DEFINE N == Len(cs)
           Is(g) == g = [n \in 0 .. N |-> IF n = 0 THEN first ELSE Absorb(g[n - 1], cs[n], form)]
           scan == CHOOSE g : Is(g)
           Heard(n) == Froms(first.notes) \cup {cs[m].from : m \in 1 .. n}
           Good(a, n) == /\ Separate(a.kept, a.notes)
                         /\ Froms(a.kept) \cup Froms(a.notes) = Heard(n)
                         /\ \A k \in DOMAIN a.kept : \E m \in 1 .. n : a.kept[k].at = cs[m].at
           At(n) == {a \in Accs : Good(a, n)}
           F == [n \in 0 .. N |-> At(n)]
           G == [n \in 1 .. N |-> [a \in Accs |-> Absorb(a, cs[n], form)]]
<1>1. Absorbed(first, cs, form) = scan[N]
  BY DEF Absorbed
<1>0. N \in Nat /\ DOMAIN cs = 1 .. N /\ \A n \in 1 .. N : cs[n] \in Surfaces
  OBVIOUS
<1>2. ASSUME NEW n \in 1 .. N, NEW a \in At(n - 1)
      PROVE  Absorb(a, cs[n], form) \in At(n) /\ Absorb(a, cs[n], form) = G[n][a]
  <2> DEFINE c == cs[n]
             b == Absorb(a, c, form)
  <2>1. /\ a \in Accs /\ Separate(a.kept, a.notes) /\ Froms(a.kept) \cup Froms(a.notes) = Heard(n - 1)
        /\ \A k \in DOMAIN a.kept : \E m \in 1 .. n - 1 : a.kept[k].at = cs[m].at
    OBVIOUS
  <2>2. /\ c \in Surfaces /\ c.from \in Froms(cs)
        /\ 1 .. n = (1 .. n - 1) \cup {n}
        /\ \A m \in 1 .. n - 1 : m \in DOMAIN cs /\ n \in DOMAIN cs /\ m # n
    BY <1>0 DEF Froms
  <2>3. c.from \notin Heard(n - 1)
    BY <2>2 DEF Once
  <2>4. Heard(n) = Heard(n - 1) \cup {c.from}
    BY <2>2
  <2> HIDE DEF N, Heard
  <2>5. form = "merged" \/ \A k \in DOMAIN a.kept : a.kept[k].at # c.at
    BY <2>1, <2>2 DEF Placed
  <2> DEFINE at == c.at
  <2>6. /\ b \in Accs /\ Separate(b.kept, b.notes)
        /\ Froms(b.kept) \cup Froms(b.notes) = Froms(a.kept) \cup Froms(a.notes) \cup {c.from}
        /\ \A k \in DOMAIN b.kept :
             b.kept[k].at = at \/ \E j \in DOMAIN a.kept : b.kept[k].at = a.kept[j].at
    <3> HIDE DEF c
    <3>1. c.from \notin Froms(a.kept) \cup Froms(a.notes)
      BY <2>1, <2>3
    <3>2. Absorption(Absorb(a, c, form), a, c)
      BY <2>1, <2>2, <2>5, <3>1, Absorbs
    <3> HIDE DEF b
    <3>3. Absorption(b, a, c)
      BY <3>2 DEF b
    <3> QED BY <3>3 DEF Absorption
  <2> HIDE DEF b
  <2>7. \A k \in DOMAIN b.kept : \E m \in 1 .. n : b.kept[k].at = cs[m].at
    <3> SUFFICES ASSUME NEW k \in DOMAIN b.kept PROVE \E m \in 1 .. n : b.kept[k].at = cs[m].at
      OBVIOUS
    <3>1. CASE b.kept[k].at = at
      BY <2>2, <3>1
    <3>2. CASE \E j \in DOMAIN a.kept : b.kept[k].at = a.kept[j].at
      BY <2>1, <2>2, <3>2
    <3> QED BY <2>6, <3>1, <3>2
  <2>8. Good(b, n)
    BY <2>1, <2>4, <2>6, <2>7
  <2>9. a \in Accs /\ n \in 1 .. N
    BY <2>1
  <2> HIDE DEF Good
  <2> QED BY <2>6, <2>8, <2>9 DEF b
<1>3. first \in At(0)
  <2>1. Froms(first.kept) = {} /\ {cs[m].from : m \in 1 .. 0} = {} /\ DOMAIN first.kept = {}
    BY DEF Froms
  <2> QED BY <2>1
<1> HIDE DEF N
<1>4. F \in [0 .. N -> SUBSET Accs] /\ \A n \in 0 .. N : F[n] = At(n)
  <2> HIDE DEF Good
  <2> QED OBVIOUS
<1>5. 0 \in 0 .. N /\ N \in 0 .. N /\ \A n \in 1 .. N : n - 1 \in 0 .. N /\ n \in 0 .. N /\ n # 0
  BY <1>0
<1> HIDE DEF F, G, At
<1>6. Leads(N, F, G)
  BY <1>2, <1>4, <1>5 DEF Leads
<1>7. PICK f \in [0 .. N -> Accs] : IsWalk(f, N, F, first, G)
  <2>1. first \in F[0]
    BY <1>3, <1>4, <1>5
  <2> QED BY <1>0, <1>4, <1>6, <2>1, Walks
<1>8. Is(scan)
  <2>1. ASSUME NEW n \in 1 .. N PROVE f[n] = Absorb(f[n - 1], cs[n], form)
    BY <1>2, <1>4, <1>5, <1>7 DEF IsWalk
  <2>2. f = [n \in 0 .. N |-> IF n = 0 THEN first ELSE Absorb(f[n - 1], cs[n], form)]
    BY <1>5, <1>7, <2>1 DEF IsWalk
  <2>3. Is(f)
    BY <2>2
  <2> HIDE DEF Is
  <2> QED BY <2>3
<1>9. scan = [n \in 0 .. N |-> IF n = 0 THEN first ELSE Absorb(scan[n - 1], cs[n], form)]
  <2> HIDE DEF scan
  <2> QED BY <1>8
<1> HIDE DEF scan
<1>10. scan[0] = first /\ \A n \in 1 .. N : scan[n] = Absorb(scan[n - 1], cs[n], form)
  BY <1>5, <1>9
<1>11. scan[N] \in F[N]
  <2>1. scan[0] \in F[0]
    BY <1>3, <1>4, <1>5, <1>10
  <2>2. ASSUME NEW n \in 1 .. N, scan[n - 1] \in F[n - 1] PROVE scan[n] \in F[n]
    <3>1. scan[n - 1] \in At(n - 1)
      BY <1>4, <1>5, <2>2
    <3>2. Absorb(scan[n - 1], cs[n], form) \in At(n)
      BY <1>2, <3>1
    <3> QED BY <1>4, <1>5, <1>10, <3>2
  <2> QED BY <1>0, <2>1, <2>2, Along
<1>12. /\ scan[N] \in Accs /\ Separate(scan[N].kept, scan[N].notes)
       /\ Froms(scan[N].kept) \cup Froms(scan[N].notes) = Heard(N)
  BY <1>4, <1>5, <1>11 DEF At
<1>13. Heard(N) = Froms(first.notes) \cup Froms(cs)
  BY <1>0 DEF Froms
<1> QED BY <1>1, <1>12, <1>13

\* Where a pass begins.
LEMMA NothingSeparate ==
  ASSUME NEW notes \in Seq(Surfaces), Once(notes), OffPlace(notes)
  PROVE  /\ Separate(<< >>, notes) /\ << >> \in Seq(Surfaces) /\ Froms(<< >>) = {}
         /\ [kept |-> << >>, notes |-> notes] \in Accs
<1>1. << >> \in Seq(Surfaces) /\ DOMAIN << >> = {}
  OBVIOUS
<1> QED BY <1>1 DEF Separate, Once, Placed, Froms, Accs

\* Sorting loses no finding.
LEMMA SortedKeeps ==
  ASSUME NEW s \in Seq(Surfaces), NEW key
  PROVE  /\ Sorted(s, key) \in Seq(Surfaces)
         /\ Froms(Sorted(s, key)) = Froms(s)
         /\ Once(s) => Once(Sorted(s, key))
         /\ Placed(s) => Placed(Sorted(s, key))
<1>1. Sorted(s, key) \in Seq(Surfaces) /\ Holds(Sorted(s, key), s, DOMAIN s)
  BY SortedHolds
<1> QED BY <1>1 DEF Holds, Froms

\* dedupe_inline_comments() loses no finding and repeats none, for any list of comments:
\* what goes in is kept, each comment at a place of its own, or left in a note.
THEOREM DedupeKeepsFindings ==
  ASSUME NEW cs \in Seq(Surfaces), Once(cs)
  PROVE  /\ Dedupe(cs).kept \in Seq(Surfaces) /\ Dedupe(cs).notes \in Seq(Surfaces)
         /\ Separate(Dedupe(cs).kept, Dedupe(cs).notes)
         /\ Froms(Dedupe(cs).kept) \cup Froms(Dedupe(cs).notes) = Froms(cs)
<1> DEFINE Places(s) == [i \in DOMAIN s |-> s[i].at]
           Ranks(s) == [i \in DOMAIN s |-> <<- Rank(s[i])>> \o s[i].at]
           start   == [kept |-> << >>, notes |-> << >>]
           ranked  == Sorted(cs, Keys(cs))
           byPlace == Absorbed(start, ranked, "merged")
           placed  == Sorted(byPlace.kept, Places(byPlace.kept))
           again   == [byPlace EXCEPT !.kept = << >>]
           byClaim == Absorbed(again, placed, "restated")
           last    == Sorted(byClaim.kept, Ranks(byClaim.kept))
<1>1. Dedupe(cs) = [byClaim EXCEPT !.kept = last]
  BY DEF Dedupe
<1>2. start \in Accs /\ Separate(start.kept, start.notes) /\ start.kept = << >> /\ Froms(start.notes) = {}
  <2>1. << >> \in Seq(Surfaces) /\ Once(<< >>) /\ OffPlace(<< >>)
    BY DEF Once, OffPlace
  <2> QED BY <2>1, NothingSeparate
<1> HIDE DEF start
<1>3. ranked \in Seq(Surfaces) /\ Once(ranked) /\ Froms(ranked) = Froms(cs)
  BY SortedKeeps
<1> HIDE DEF ranked
<1>4. /\ byPlace \in Accs /\ Separate(byPlace.kept, byPlace.notes)
      /\ Froms(byPlace.kept) \cup Froms(byPlace.notes) = Froms(cs)
  <2>1. Froms(start.notes) \cap Froms(ranked) = {} /\ "merged" \in Forms
    BY <1>2 DEF Forms
  <2> DEFINE form == "merged"
  <2>2. form \in Forms /\ (form = "merged" \/ Placed(ranked))
    BY <2>1
  <2> HIDE DEF form
  <2>3. /\ Absorbed(start, ranked, form) \in Accs
        /\ Separate(Absorbed(start, ranked, form).kept, Absorbed(start, ranked, form).notes)
        /\ Froms(Absorbed(start, ranked, form).kept) \cup Froms(Absorbed(start, ranked, form).notes)
             = Froms(start.notes) \cup Froms(ranked)
    BY <1>2, <1>3, <2>1, <2>2, AbsorbedIs
  <2> QED BY <1>2, <1>3, <2>3 DEF form
<1> HIDE DEF byPlace
<1>5. /\ byPlace.kept \in Seq(Surfaces) /\ byPlace.notes \in Seq(Surfaces)
      /\ byPlace = [kept |-> byPlace.kept, notes |-> byPlace.notes]
      /\ Once(byPlace.kept) /\ Placed(byPlace.kept)
      /\ Once(byPlace.notes) /\ OffPlace(byPlace.notes)
      /\ Froms(byPlace.kept) \cap Froms(byPlace.notes) = {}
  BY <1>4 DEF Accs, Separate
<1>6. /\ placed \in Seq(Surfaces) /\ Once(placed) /\ Placed(placed)
      /\ Froms(placed) = Froms(byPlace.kept)
  <2> HIDE DEF Places
  <2> QED BY <1>5, SortedKeeps
<1> HIDE DEF placed
<1>7. /\ again.kept = << >> /\ again.notes = byPlace.notes
      /\ again \in Accs /\ Separate(again.kept, again.notes)
  <2>1. again = [kept |-> << >>, notes |-> byPlace.notes]
    BY <1>5
  <2> QED BY <1>5, <2>1, NothingSeparate
<1> HIDE DEF again
<1>8. /\ byClaim \in Accs /\ Separate(byClaim.kept, byClaim.notes)
      /\ Froms(byClaim.kept) \cup Froms(byClaim.notes) = Froms(cs)
  <2>1. Froms(again.notes) \cap Froms(placed) = {} /\ "restated" \in Forms
    BY <1>5, <1>6, <1>7 DEF Forms
  <2> DEFINE form == "restated"
  <2>2. form \in Forms
    BY <2>1
  <2> HIDE DEF form
  <2>3. /\ Absorbed(again, placed, form) \in Accs
        /\ Separate(Absorbed(again, placed, form).kept, Absorbed(again, placed, form).notes)
        /\ Froms(Absorbed(again, placed, form).kept) \cup Froms(Absorbed(again, placed, form).notes)
             = Froms(again.notes) \cup Froms(placed)
    BY <1>6, <1>7, <2>1, <2>2, AbsorbedIs
  <2> QED BY <1>4, <1>6, <1>7, <2>3 DEF form
<1> HIDE DEF byClaim
<1>9. /\ byClaim.kept \in Seq(Surfaces) /\ byClaim.notes \in Seq(Surfaces)
      /\ byClaim = [kept |-> byClaim.kept, notes |-> byClaim.notes]
      /\ Once(byClaim.kept) /\ Placed(byClaim.kept)
      /\ Once(byClaim.notes) /\ OffPlace(byClaim.notes)
      /\ Froms(byClaim.kept) \cap Froms(byClaim.notes) = {}
  BY <1>8 DEF Accs, Separate
<1>10. /\ last \in Seq(Surfaces) /\ Once(last) /\ Placed(last)
       /\ Froms(last) = Froms(byClaim.kept)
  <2> HIDE DEF Ranks
  <2> QED BY <1>9, SortedKeeps
<1> HIDE DEF last
<1>11. Dedupe(cs).kept = last /\ Dedupe(cs).notes = byClaim.notes
  BY <1>1, <1>9
<1> QED BY <1>8, <1>9, <1>10, <1>11 DEF Separate

(***************************************************************************)
(* What a finding becomes.                                                 *)
(***************************************************************************)
LEMMA FindingFields ==
  ASSUME NEW o \in Findings
  PROVE  /\ o.id \in Nat /\ o.lane \in Nat /\ o.at \in Seq(Nat) /\ o.claim \in Nat
         /\ o.ev \in Seq(Nat) /\ o.grade \in Nat /\ o.key \in Nat
         /\ o.word \in STRING /\ o.status \in STRING
BY DEF Findings

LEMMA OwnType == \A claim \in Nat : Own(claim) \in Texts
<1>1. "own" \in Forms
  BY DEF Forms
<1> QED BY <1>1, TextType, NoPlaceType DEF Own

\* A comment, a summary and an observation stand for the finding they are made of.
LEMMA CommentIs ==
  ASSUME NEW o \in Findings
  PROVE  CommentOf(o) \in Surfaces /\ CommentOf(o).from = o.id
<1> DEFINE text == Own(o.claim)
<1>1. text \in Texts
  BY FindingFields, OwnType
<1> HIDE DEF text
<1>2. LET s == Surface(o.lane, o.at, text, o.ev, "plain", o.grade, o.id)
      IN  s \in Surfaces /\ s.from = o.id
  BY <1>1, FindingFields, Strings DEF Surface, Surfaces
<1> QED BY <1>2 DEF CommentOf, text

\* The text and the evidence of a demoted comment.
LEMMA DemotedTextType ==
  ASSUME NEW at \in Seq(Nat), NEW claim \in Nat, NEW ev \in Seq(Nat)
  PROVE  DemotedText(at, claim, ev) \in Texts /\ DemotedEvidence(ev) \in Seq(Nat)
<1>1. {"rejected", "anchored"} \subseteq Forms /\ NoClaim \in Nat /\ Diagnostic \in Nat
  BY DEF Forms, NoClaim, Diagnostic
<1>2. Append(ev, Diagnostic) \in Seq(Nat)
  BY <1>1
<1> QED BY <1>1, <1>2, TextType DEF DemotedText, DemotedEvidence

\* A surface that stands for a finding and has no place.
Note(s, id) == s \in Surfaces /\ s.at = NoPlace /\ s.from = id

LEMMA NoteIs ==
  ASSUME NEW lane \in Nat, NEW text \in Texts, NEW ev \in Seq(Nat),
         NEW word \in Words, NEW grade \in Nat, NEW from \in Nat
  PROVE  Note(Surface(lane, NoPlace, text, ev, word, grade, from), from)
BY NoPlaceType DEF Surface, Surfaces, Note

LEMMA SummaryIs ==
  ASSUME NEW o \in Findings
  PROVE  Note(SummaryOf(o), o.id)
<1> DEFINE As(text, ev, word, grade) == Surface(o.lane, NoPlace, text, ev, word, grade, o.id)
           full == o.kind = "summary" /\ o.fit = "fit" /\ o.ev # << >>
           bare == o.kind = "summary" /\ ~(o.fit = "fit" /\ o.ev # << >>)
           long == o.kind = "comment" /\ o.lane \notin CandidateOnly /\ o.fit = "long" /\ o.ev # << >>
<1>1. /\ o.id \in Nat /\ o.lane \in Nat /\ o.at \in Seq(Nat) /\ o.claim \in Nat
      /\ o.ev \in Seq(Nat) /\ o.grade \in Nat /\ o.word \in Words
      /\ 0 \in Nat /\ "plain" \in Words /\ <<Diagnostic>> \in Seq(Nat) /\ NoClaim \in Nat
      /\ {"guarded", "trailing"} \subseteq Forms
  BY FindingFields, Strings DEF Words, Diagnostic, NoClaim, Forms
<1>2. Note(As(Own(o.claim), o.ev, o.word, o.grade), o.id)
  BY <1>1, OwnType, NoteIs
<1>3. Note(As(Text("guarded", NoPlace, NoClaim), <<Diagnostic>>, "plain", 0), o.id)
  <2> DEFINE text == Text("guarded", NoPlace, NoClaim)
             ev == <<Diagnostic>>
  <2>1. text \in Texts /\ ev \in Seq(Nat)
    BY <1>1, NoPlaceType, TextType
  <2> HIDE DEF text, ev
  <2>2. Note(As(text, ev, "plain", 0), o.id)
    BY <1>1, <2>1, NoteIs
  <2> QED BY <2>2 DEF text, ev
<1>4. Note(As(Text("trailing", o.at, o.claim), o.ev, "plain", o.grade), o.id)
  <2> DEFINE text == Text("trailing", o.at, o.claim)
  <2>1. text \in Texts
    BY <1>1, TextType
  <2> HIDE DEF text
  <2>2. Note(As(text, o.ev, "plain", o.grade), o.id)
    BY <1>1, <2>1, NoteIs
  <2> QED BY <2>2 DEF text
<1>5. Note(As(DemotedText(o.at, o.claim, o.ev), DemotedEvidence(o.ev), "plain", o.grade), o.id)
  <2> DEFINE text == DemotedText(o.at, o.claim, o.ev)
             ev == DemotedEvidence(o.ev)
  <2>1. text \in Texts /\ ev \in Seq(Nat)
    BY <1>1, DemotedTextType
  <2> HIDE DEF text, ev
  <2>2. Note(As(text, ev, "plain", o.grade), o.id)
    BY <1>1, <2>1, NoteIs
  <2> QED BY <2>2 DEF text, ev
<1>6. SummaryOf(o) = CASE full -> As(Own(o.claim), o.ev, o.word, o.grade)
                       [] bare -> As(Text("guarded", NoPlace, NoClaim), <<Diagnostic>>, "plain", 0)
                       [] long -> As(Text("trailing", o.at, o.claim), o.ev, "plain", o.grade)
                       [] OTHER -> As(DemotedText(o.at, o.claim, o.ev), DemotedEvidence(o.ev),
                                      "plain", o.grade)
  BY DEF SummaryOf
<1>7. /\ ~(full /\ bare) /\ ~(full /\ long) /\ ~(bare /\ long)
  OBVIOUS
<1> HIDE DEF As, full, bare, long
<1> QED BY <1>2, <1>3, <1>4, <1>5, <1>6, <1>7

LEMMA ObservationIs ==
  ASSUME NEW o \in Findings
  PROVE  ObservationOf(o) \in Observations /\ ObservationOf(o).from = o.id
<1> DEFINE guarded == o.fit \in {"overclaim", "premise"}
           text == IF guarded THEN Text(o.fit, NoPlace, NoClaim) ELSE Own(o.claim)
           key == IF guarded THEN Text(o.fit, NoPlace, NoClaim) ELSE Text("key", NoPlace, o.key)
           status == CASE o.fit = "premise" -> "refuted"
                       [] o.fit = "overclaim" -> "open"
                       [] OTHER -> o.status
<1>1. /\ o.id \in Nat /\ o.lane \in Nat /\ o.at \in Seq(Nat) /\ o.claim \in Nat /\ o.key \in Nat
      /\ o.status \in STRING /\ NoClaim \in Nat
  BY FindingFields DEF NoClaim
<1>2. {"overclaim", "premise", "key"} \subseteq Forms
  BY DEF Forms
<1>3. text \in Texts /\ key \in Texts
  BY <1>1, <1>2, OwnType, TextType, NoPlaceType
<1>4. status \in Statuses
  BY <1>1 DEF Statuses
<1>5. ObservationOf(o) = [lane |-> o.lane, at |-> o.at, text |-> text, status |-> status,
                          key |-> key, from |-> o.id]
  BY DEF ObservationOf
<1> HIDE DEF text, key, status
<1> QED BY <1>1, <1>3, <1>4, <1>5 DEF Observations

\* A demoted comment stands for the finding of the comment.
LEMMA DemotedIs ==
  ASSUME NEW c \in Surfaces, NEW word \in Words
  PROVE  Note(Demoted(c, word), c.from)
<1> DEFINE text == DemotedText(c.at, c.text.claim, c.ev)
           ev == DemotedEvidence(c.ev)
<1>1. c.at \in Seq(Nat) /\ c.text.claim \in Nat /\ c.ev \in Seq(Nat) /\ c.lane \in Nat
        /\ c.grade \in Nat /\ c.from \in Nat
  BY SurfaceFields DEF Texts
<1>2. text \in Texts /\ ev \in Seq(Nat)
  BY <1>1, DemotedTextType
<1> HIDE DEF text, ev
<1>3. Note(Surface(c.lane, NoPlace, text, ev, word, c.grade, c.from), c.from)
  BY <1>1, <1>2, NoteIs
<1> QED BY <1>3 DEF Demoted, text, ev

(***************************************************************************)
(* The refuter keeps, demotes or drops, each comment one way.              *)
(***************************************************************************)
LEMMA RefutedIs ==
  ASSUME NEW cs \in Seq(Surfaces), Once(cs), Placed(cs), NEW D, NEW said \in [D -> Decisions]
  PROVE  LET r == Refuted(cs, said)
         IN  /\ r.kept \in Seq(Surfaces) /\ r.demoted \in Seq(Surfaces)
             /\ Once(r.kept) /\ Placed(r.kept) /\ Once(r.demoted) /\ OffPlace(r.demoted)
             /\ Froms(r.kept) \cap Froms(r.demoted) = {}
             /\ Froms(r.kept) \cup Froms(r.demoted) \cup r.dropped = Froms(cs)
<1> DEFINE First(i) == \A j \in 1..(i - 1) : cs[j].at # cs[i].at
           Verdict(i) == IF First(i) /\ cs[i].at \in DOMAIN said
                         THEN said[cs[i].at] ELSE [verdict |-> "unsure", word |-> "plain"]
           At(v) == {i \in DOMAIN cs : Verdict(i).verdict = v}
           low == [i \in DOMAIN cs |-> Demoted(cs[i], Verdict(i).word)]
           r == Refuted(cs, said)
<1>1. r = [kept |-> Where(cs, At("inline")), demoted |-> Where(low, At("unsure")),
           dropped |-> {cs[i].from : i \in At("drop")}]
  BY DEF Refuted
<1>2. \A i \in DOMAIN cs : /\ cs[i] \in Surfaces
                           /\ Verdict(i).verdict \in {"inline", "drop", "unsure"}
                           /\ Verdict(i).word \in Words
  BY DEF Decisions, Words
<1> HIDE DEF Verdict
<1>3. /\ low \in Seq(Surfaces) /\ DOMAIN low = DOMAIN cs
      /\ \A i \in DOMAIN cs : low[i].from = cs[i].from /\ low[i].at = NoPlace
  <2>1. \A i \in DOMAIN cs : low[i] \in Surfaces /\ low[i].from = cs[i].from /\ low[i].at = NoPlace
    BY <1>2, DemotedIs DEF Note
  <2>2. low \in [1 .. Len(cs) -> Surfaces] /\ Len(cs) \in Nat /\ DOMAIN cs = 1 .. Len(cs)
    BY <2>1
  <2> QED BY <2>1, <2>2, SeqDef
<1> HIDE DEF low
<1>4. /\ Where(cs, At("inline")) \in Seq(Surfaces) /\ Holds(Where(cs, At("inline")), cs, At("inline"))
  BY WhereHolds
<1>5. /\ Where(low, At("unsure")) \in Seq(Surfaces) /\ Holds(Where(low, At("unsure")), low, At("unsure"))
  BY <1>3, WhereHolds
<1>6. /\ r.kept = Where(cs, At("inline")) /\ r.demoted = Where(low, At("unsure"))
      /\ r.dropped = {cs[i].from : i \in At("drop")}
  BY <1>1
<1> HIDE DEF r
<1>7. Once(r.kept) /\ Placed(r.kept) /\ Froms(r.kept) = {cs[i].from : i \in At("inline")}
  BY <1>4, <1>6 DEF Holds
<1>8. Once(r.demoted) /\ OffPlace(r.demoted) /\ Froms(r.demoted) = {cs[i].from : i \in At("unsure")}
  <2> DEFINE J == At("unsure")
             d == r.demoted
  <2>1. J \cap DOMAIN low = J /\ J \subseteq DOMAIN cs /\ Holds(d, low, J)
    BY <1>3, <1>5, <1>6
  <2> HIDE DEF J, d
  <2>2. /\ \A k \in DOMAIN d : \E i \in J : d[k] = low[i]
        /\ Froms(d) = {low[i].from : i \in J}
        /\ Once(low) => Once(d)
    BY <2>1 DEF Holds
  <2>3. Once(low)
    BY <1>3 DEF Once
  <2>4. Froms(d) = {cs[i].from : i \in J}
    BY <1>3, <2>1, <2>2
  <2>5. OffPlace(d)
    BY <1>3, <2>1, <2>2 DEF OffPlace
  <2> QED BY <2>2, <2>3, <2>4, <2>5 DEF J, d
<1>10. Froms(r.kept) \cap Froms(r.demoted) = {}
  BY <1>7, <1>8 DEF Once
<1>11. Froms(r.kept) \cup Froms(r.demoted) \cup r.dropped = Froms(cs)
  <2>1. \A i \in DOMAIN cs : i \in At("inline") \/ i \in At("unsure") \/ i \in At("drop")
    BY <1>2
  <2> HIDE DEF At
  <2>2. \A v : At(v) \subseteq DOMAIN cs
    BY DEF At
  <2> QED BY <1>6, <1>7, <1>8, <2>1, <2>2 DEF Froms
<1> QED BY <1>4, <1>5, <1>6, <1>7, <1>8, <1>10, <1>11 DEF r

(***************************************************************************)
(* Conflicts are noted as questions; nothing else changes.                 *)
(***************************************************************************)
PairSet == Surfaces \X Texts

LEMMA FaceIs ==
  ASSUME NEW s \in Surfaces
  PROVE  Face(s) \in Surfaces
BY SurfaceFields DEF Face, Surfaces

\* One surface adds one pair at most.
LEMMA PairedIs ==
  ASSUME observations \in Seq(Observations), NEW acc \in Seq(PairSet), NEW s \in Surfaces
  PROVE  Paired(acc, s) \in Seq(PairSet)
<1> DEFINE I == {i \in DOMAIN observations :
                       /\ Conflicts(s, observations[i])
                       /\ <<Face(s), observations[i].key>> \notin ToSet(acc)}
           fresh == Where(observations, I)
<1>1. fresh \in Seq(Observations)
  BY WhereHolds
<1>2. Paired(acc, s) = IF s.grade = 0 \/ fresh = << >> THEN acc
                       ELSE Append(acc, <<Face(s), Head(fresh).key>>)
  BY DEF Paired
<1> HIDE DEF fresh
<1>3. CASE s.grade = 0 \/ fresh = << >>
  BY <1>2, <1>3
<1>4. CASE ~(s.grade = 0 \/ fresh = << >>)
  <2>1. Head(fresh) \in Observations
    BY <1>1, <1>4
  <2>2. <<Face(s), Head(fresh).key>> \in PairSet
    BY <2>1, FaceIs DEF PairSet, Observations
  <2> QED BY <1>2, <1>4, <2>2
<1> QED BY <1>3, <1>4

\* The pairs after all surfaces.
LEMMA PairsIs ==
  ASSUME observations \in Seq(Observations), NEW cs \in Seq(Surfaces)
  PROVE  Pairs(cs) \in Seq(PairSet)
<1> DEFINE N == Len(cs)
           Is(g) == g = [n \in 0 .. N |-> IF n = 0 THEN << >> ELSE Paired(g[n - 1], cs[n])]
           scan == CHOOSE g : Is(g)
           D == Seq(PairSet)
           F == [n \in 0 .. N |-> D]
           G == [n \in 1 .. N |-> [a \in D |-> Paired(a, cs[n])]]
<1>1. Pairs(cs) = scan[N]
  BY DEF Pairs
<1>0. N \in Nat /\ \A n \in 1 .. N : cs[n] \in Surfaces
  OBVIOUS
<1>2. ASSUME NEW n \in 1 .. N, NEW a \in D
      PROVE  Paired(a, cs[n]) \in D /\ Paired(a, cs[n]) = G[n][a]
  <2>1. Paired(a, cs[n]) \in D
    BY <1>0, PairedIs
  <2> QED BY <2>1
<1>3. << >> \in D
  OBVIOUS
<1> HIDE DEF N, D
<1>4. F \in [0 .. N -> SUBSET D] /\ \A n \in 0 .. N : F[n] = D
  OBVIOUS
<1>5. 0 \in 0 .. N /\ N \in 0 .. N /\ \A n \in 1 .. N : n - 1 \in 0 .. N /\ n \in 0 .. N /\ n # 0
  BY <1>0
<1> HIDE DEF F, G
<1>6. Leads(N, F, G)
  BY <1>2, <1>4, <1>5 DEF Leads
<1>7. PICK f \in [0 .. N -> D] : IsWalk(f, N, F, << >>, G)
  <2>1. << >> \in F[0]
    BY <1>3, <1>4, <1>5
  <2> QED BY <1>0, <1>4, <1>6, <2>1, Walks
<1>8. Is(scan)
  <2>1. ASSUME NEW n \in 1 .. N PROVE f[n] = Paired(f[n - 1], cs[n])
    BY <1>2, <1>4, <1>5, <1>7 DEF IsWalk
  <2>2. f = [n \in 0 .. N |-> IF n = 0 THEN << >> ELSE Paired(f[n - 1], cs[n])]
    BY <1>5, <1>7, <2>1 DEF IsWalk
  <2>3. Is(f)
    BY <2>2
  <2> HIDE DEF Is
  <2> QED BY <2>3
<1>9. scan = [n \in 0 .. N |-> IF n = 0 THEN << >> ELSE Paired(scan[n - 1], cs[n])]
  <2> HIDE DEF scan
  <2> QED BY <1>8
<1> HIDE DEF scan
<1>10. scan[0] = << >> /\ \A n \in 1 .. N : scan[n] = Paired(scan[n - 1], cs[n])
  BY <1>5, <1>9
<1>11. scan[N] \in F[N]
  <2>1. scan[0] \in F[0]
    BY <1>3, <1>4, <1>5, <1>10
  <2>2. ASSUME NEW n \in 1 .. N, scan[n - 1] \in F[n - 1] PROVE scan[n] \in F[n]
    BY <1>2, <1>4, <1>5, <1>10, <2>2
  <2> QED BY <1>0, <2>1, <2>2, Along
<1> QED BY <1>1, <1>4, <1>5, <1>11 DEF D

LEMMA QuestionIs ==
  ASSUME NEW s \in Surfaces
  PROVE  ConflictQuestion(s) \in Observations
<1> DEFINE text == Text("conflict", <<s.lane>> \o s.at, s.text.claim)
<1>1. s.lane \in Nat /\ s.at \in Seq(Nat) /\ s.text.claim \in Nat
  BY SurfaceFields DEF Texts
<1>2. <<s.lane>> \o s.at \in Seq(Nat) /\ "conflict" \in Forms /\ "open" \in Statuses
      /\ 0 \in Nat
  BY <1>1 DEF Forms, Statuses
<1>3. text \in Texts
  BY <1>1, <1>2, TextType
<1> HIDE DEF text
<1>4. ConflictQuestion(s) = [lane |-> 0, at |-> s.at, text |-> text, status |-> "open", key |-> text,
                     from |-> 0]
  BY DEF ConflictQuestion, text
<1> QED BY <1>1, <1>2, <1>3, <1>4 DEF Observations

\* append_cross_lane_conflict_observations() only adds observations.
LEMMA NotedIs ==
  ASSUME observations \in Seq(Observations), NEW pairs \in Seq(PairSet)
  PROVE  [i \in 1 .. Min({3, Len(pairs)}) |-> ConflictQuestion(pairs[i][1])] \in Seq(Observations)
<1> DEFINE m == Min({3, Len(pairs)})
           q == [i \in 1 .. m |-> ConflictQuestion(pairs[i][1])]
<1>1. m \in Nat /\ m <= Len(pairs) /\ Len(pairs) \in Nat
  <2>1. m = IF Len(pairs) < 3 THEN Len(pairs) ELSE 3
    <3> DEFINE L == Len(pairs)
    <3>1. L \in Nat
      OBVIOUS
    <3> HIDE DEF L
    <3> QED BY <3>1 DEF L, Min
  <2> QED BY <2>1
<1> HIDE DEF m
<1>2. \A i \in 1 .. m : pairs[i] \in PairSet
  BY <1>1
<1>3. \A i \in 1 .. m : ConflictQuestion(pairs[i][1]) \in Observations
  BY <1>2, QuestionIs DEF PairSet
<1>4. q \in [1 .. m -> Observations]
  BY <1>3
<1>5. q \in Seq(Observations)
  <2> HIDE DEF q
  <2> QED BY <1>1, <1>4, SeqDef
<1> QED BY <1>5 DEF q, m

(***************************************************************************)
(* Lists put one behind the other.                                         *)
(***************************************************************************)
\* r holds what p and q hold.
Both(r, p, q) ==
  /\ \A k \in DOMAIN r : (\E i \in DOMAIN p : r[k] = p[i]) \/ (\E i \in DOMAIN q : r[k] = q[i])
  /\ \A i \in DOMAIN p : \E k \in DOMAIN r : r[k] = p[i]
  /\ \A i \in DOMAIN q : \E k \in DOMAIN r : r[k] = q[i]

LEMMA Behind ==
  ASSUME NEW S, NEW p \in Seq(S), NEW q \in Seq(S)
  PROVE  /\ p \o q \in Seq(S) /\ Both(p \o q, p, q)
         /\ Froms(p \o q) = Froms(p) \cup Froms(q)
         /\ Once(p) /\ Once(q) /\ Froms(p) \cap Froms(q) = {} => Once(p \o q)
         /\ OffPlace(p) /\ OffPlace(q) => OffPlace(p \o q)
<1> DEFINE r == p \o q
<1>1. /\ r \in Seq(S) /\ Len(p) \in Nat /\ Len(q) \in Nat
      /\ DOMAIN r = 1 .. Len(p) + Len(q) /\ DOMAIN p = 1 .. Len(p) /\ DOMAIN q = 1 .. Len(q)
  OBVIOUS
<1>2. /\ \A i \in DOMAIN p : i \in DOMAIN r /\ r[i] = p[i]
      /\ \A i \in DOMAIN q : Len(p) + i \in DOMAIN r /\ r[Len(p) + i] = q[i]
  BY <1>1
<1>3. \A i \in DOMAIN r : i \in DOMAIN p \/ \E k \in DOMAIN q : i = Len(p) + k
  <2> SUFFICES ASSUME NEW i \in DOMAIN r, i \notin DOMAIN p
               PROVE  \E k \in DOMAIN q : i = Len(p) + k
    OBVIOUS
  <2>1. i - Len(p) \in DOMAIN q /\ i = Len(p) + (i - Len(p))
    BY <1>1
  <2> QED BY <2>1
<1> HIDE DEF r
<1>4. Both(r, p, q)
  BY <1>2, <1>3 DEF Both
<1>5. Froms(r) = Froms(p) \cup Froms(q)
  BY <1>2, <1>3 DEF Froms
<1>6. ASSUME Once(p), Once(q), Froms(p) \cap Froms(q) = {},
             NEW i \in DOMAIN r, NEW j \in DOMAIN r, r[i].from = r[j].from
      PROVE  i = j
  <2>1. \A k \in DOMAIN p, m \in DOMAIN q : p[k].from # q[m].from
    BY <1>6 DEF Froms
  <2>2. CASE i \in DOMAIN p
    <3>1. j \in DOMAIN p
      BY <1>2, <1>3, <1>6, <2>1, <2>2
    <3> QED BY <1>2, <1>6, <2>2, <3>1 DEF Once
  <2>3. CASE i \notin DOMAIN p
    <3>1. PICK k \in DOMAIN q : i = Len(p) + k
      BY <1>3, <2>3
    <3>2. j \notin DOMAIN p
      BY <1>2, <1>6, <2>1, <3>1
    <3>3. PICK n \in DOMAIN q : j = Len(p) + n
      BY <1>3, <3>2
    <3>4. q[k].from = q[n].from
      BY <1>2, <1>6, <3>1, <3>3
    <3> QED BY <1>6, <3>1, <3>3, <3>4 DEF Once
  <2> QED BY <2>2, <2>3
<1>7. OffPlace(p) /\ OffPlace(q) => OffPlace(r)
  BY <1>2, <1>3 DEF OffPlace
<1>8. Once(p) /\ Once(q) /\ Froms(p) \cap Froms(q) = {} => Once(r)
  BY <1>6 DEF Once
<1> QED BY <1>1, <1>4, <1>5, <1>7, <1>8 DEF r

\* A list of lists flattened is a list.
LEMMA Flattened ==
  ASSUME NEW S, NEW ss \in Seq(Seq(S))
  PROVE  FlattenSeq(ss) \in Seq(S)
<1>1. CASE Len(ss) = 0
  <2>1. ss = << >>
    BY <1>1
  <2> QED BY <1>1, <2>1 DEF FlattenSeq
<1>2. CASE Len(ss) # 0
  <2> DEFINE N == Len(ss)
             M == N - 1
             Is(g) == g = [i \in 1 .. N |-> IF i = 1 THEN ss[i] ELSE g[i - 1] \o ss[i]]
             scan == CHOOSE g : Is(g)
             D == Seq(S)
             F == [n \in 0 .. M |-> D]
             G == [n \in 1 .. M |-> [a \in D |-> a \o ss[n + 1]]]
             turn == [n \in 0 .. M |-> scan[n + 1]]
  <2>1. FlattenSeq(ss) = scan[N]
    BY <1>2 DEF FlattenSeq
  <2>2. /\ N \in Nat /\ M \in Nat /\ N # 0 /\ N = M + 1
        /\ 1 \in 1 .. N
        /\ \A n \in 1 .. M : n + 1 \in 1 .. N /\ n + 1 # 1 /\ n \in 0 .. M /\ n - 1 \in 0 .. M
        /\ 0 \in 0 .. M /\ M \in 0 .. M
        /\ \A i \in 1 .. N : i - 1 \in 0 .. M /\ (i # 1 => i - 1 \in 1 .. M)
        /\ \A i \in 1 .. N : i \in Int
    BY <1>2
  <2>3. \A i \in 1 .. N : ss[i] \in D
    OBVIOUS
  <2>4. \A a, b \in D : a \o b \in D
    OBVIOUS
  <2> HIDE DEF N, M, D
  <2>5. F \in [0 .. M -> SUBSET D] /\ \A n \in 0 .. M : F[n] = D
    OBVIOUS
  <2>6. \A n \in 1 .. M : \A a \in D : a \o ss[n + 1] \in D /\ G[n][a] = a \o ss[n + 1]
    BY <2>2, <2>3, <2>4
  <2> HIDE DEF F, G
  <2>7. Leads(M, F, G)
    BY <2>2, <2>5, <2>6 DEF Leads
  <2>8. PICK w \in [0 .. M -> D] : IsWalk(w, M, F, ss[1], G)
    <3>1. ss[1] \in F[0]
      BY <2>2, <2>3, <2>5
    <3> QED BY <2>2, <2>5, <2>7, <3>1, Walks
  <2>9. Is(scan)
    <3> DEFINE f == [i \in 1 .. N |-> w[i - 1]]
    <3>1. f[1] = ss[1]
      BY <2>2, <2>8 DEF IsWalk
    <3>2. ASSUME NEW i \in 1 .. N, i # 1 PROVE f[i] = f[i - 1] \o ss[i]
      <4>1. i - 1 \in 1 .. M /\ i - 1 \in 1 .. N /\ (i - 1) - 1 \in 0 .. M /\ (i - 1) + 1 = i
        BY <2>2, <3>2
      <4>2. w[i - 1] = G[i - 1][w[(i - 1) - 1]]
        BY <2>8, <4>1 DEF IsWalk
      <4>3. w[(i - 1) - 1] \in D
        BY <2>8, <4>1
      <4>4. w[i - 1] = w[(i - 1) - 1] \o ss[(i - 1) + 1]
        BY <2>6, <4>1, <4>2, <4>3
      <4> QED BY <4>1, <4>4
    <3>3. f = [i \in 1 .. N |-> IF i = 1 THEN ss[i] ELSE f[i - 1] \o ss[i]]
      BY <3>1, <3>2
    <3>4. Is(f)
      BY <3>3
    <3> HIDE DEF Is
    <3> QED BY <3>4
  <2>10. scan = [i \in 1 .. N |-> IF i = 1 THEN ss[i] ELSE scan[i - 1] \o ss[i]]
    <3> HIDE DEF scan
    <3> QED BY <2>9
  <2> HIDE DEF scan
  <2>11. scan[1] = ss[1] /\ \A n \in 1 .. M : scan[n + 1] = scan[n] \o ss[n + 1]
    <3>1. \A n \in 1 .. M : (n + 1) - 1 = n
      BY <2>2
    <3> QED BY <2>2, <2>10, <3>1
  <2>12. turn[M] \in F[M]
    <3>1. turn[0] \in F[0]
      <4>1. turn[0] = scan[1]
        BY <2>2
      <4> QED BY <2>2, <2>3, <2>5, <2>11, <4>1
    <3>2. ASSUME NEW n \in 1 .. M, turn[n - 1] \in F[n - 1] PROVE turn[n] \in F[n]
      <4>1. turn[n - 1] = scan[n] /\ turn[n] = scan[n + 1]
        BY <2>2
      <4>2. scan[n] \in D
        BY <2>2, <2>5, <3>2, <4>1
      <4>3. scan[n + 1] \in D
        BY <2>2, <2>3, <2>4, <2>11, <4>2
      <4> QED BY <2>2, <2>5, <4>1, <4>3
    <3> HIDE DEF turn
    <3> QED BY <2>2, <3>1, <3>2, Along
  <2>13. turn[M] = scan[N]
    BY <2>2
  <2> QED BY <2>1, <2>2, <2>5, <2>12, <2>13 DEF D
<1> QED BY <1>1, <1>2

\* The records of candidates.json: one for each surface, which it names.
Recorded(r, cs, ss) ==
  /\ DOMAIN r = 1 .. Len(r) /\ Len(r) \in Nat
  /\ \A k \in DOMAIN r : \/ r[k].kind = "inline" /\ \E i \in DOMAIN cs : r[k].surface = cs[i]
                         \/ r[k].kind = "summary" /\ \E i \in DOMAIN ss : r[k].surface = ss[i]
  /\ \A i \in DOMAIN cs : \E k \in DOMAIN r : r[k].kind = "inline" /\ r[k].surface = cs[i]
  /\ \A i \in DOMAIN ss : \E k \in DOMAIN r : r[k].kind = "summary" /\ r[k].surface = ss[i]

LEMMA CandidatesAre ==
  ASSUME NEW cs \in Seq(Surfaces), NEW ss \in Seq(Surfaces)
  PROVE  Recorded(Candidates(cs, ss), cs, ss)
<1> DEFINE p == [i \in DOMAIN cs |->
     [kind |-> "inline", disposition |-> "inline", need |-> "inline", surface |-> cs[i]]]
           q == [i \in DOMAIN ss |->
     [kind |-> "summary", disposition |-> Disposition(ss[i]),
      need |-> EvidenceNeed(Disposition(ss[i]), ss[i]),
      surface |-> ss[i]]]
           S == {p[i] : i \in DOMAIN cs} \cup {q[i] : i \in DOMAIN ss}
           r == p \o q
<1>1. /\ DOMAIN p = DOMAIN cs /\ DOMAIN q = DOMAIN ss
      /\ \A i \in DOMAIN cs : p[i].kind = "inline" /\ p[i].surface = cs[i] /\ p[i] \in S
      /\ \A i \in DOMAIN ss : q[i].kind = "summary" /\ q[i].surface = ss[i] /\ q[i] \in S
  OBVIOUS
<1>2. /\ DOMAIN cs = 1 .. Len(cs) /\ DOMAIN ss = 1 .. Len(ss) /\ Len(cs) \in Nat /\ Len(ss) \in Nat
      /\ p \in [DOMAIN cs -> S] /\ q \in [DOMAIN ss -> S]
  <2> HIDE DEF S
  <2> QED BY <1>1
<1>3. Candidates(cs, ss) = r
  BY DEF Candidates
<1> HIDE DEF p, q, S
<1>4. p \in Seq(S) /\ q \in Seq(S)
  BY <1>2, SeqDef
<1>5. r \in Seq(S) /\ Both(r, p, q)
  BY <1>4, Behind
<1>6. DOMAIN r = 1 .. Len(r) /\ Len(r) \in Nat
  BY <1>5
<1> HIDE DEF r
<1>7. \A k \in DOMAIN r : \/ r[k].kind = "inline" /\ \E i \in DOMAIN cs : r[k].surface = cs[i]
                          \/ r[k].kind = "summary" /\ \E i \in DOMAIN ss : r[k].surface = ss[i]
  <2>1. \A k \in DOMAIN r : (\E i \in DOMAIN p : r[k] = p[i]) \/ (\E i \in DOMAIN q : r[k] = q[i])
    BY <1>5 DEF Both
  <2>2. ASSUME NEW k \in DOMAIN r, NEW i \in DOMAIN p, r[k] = p[i]
        PROVE  r[k].kind = "inline" /\ \E j \in DOMAIN cs : r[k].surface = cs[j]
    BY <1>1, <2>2
  <2>3. ASSUME NEW k \in DOMAIN r, NEW i \in DOMAIN q, r[k] = q[i]
        PROVE  r[k].kind = "summary" /\ \E j \in DOMAIN ss : r[k].surface = ss[j]
    BY <1>1, <2>3
  <2> SUFFICES ASSUME NEW k \in DOMAIN r
               PROVE  \/ r[k].kind = "inline" /\ \E i \in DOMAIN cs : r[k].surface = cs[i]
                      \/ r[k].kind = "summary" /\ \E i \in DOMAIN ss : r[k].surface = ss[i]
    OBVIOUS
  <2>4. CASE \E i \in DOMAIN p : r[k] = p[i]
    <3>1. PICK i \in DOMAIN p : r[k] = p[i]
      BY <2>4
    <3> QED BY <2>2, <3>1
  <2>5. CASE \E i \in DOMAIN q : r[k] = q[i]
    <3>1. PICK i \in DOMAIN q : r[k] = q[i]
      BY <2>5
    <3> QED BY <2>3, <3>1
  <2> QED BY <2>1, <2>4, <2>5
<1>8. /\ \A i \in DOMAIN cs : \E k \in DOMAIN r : r[k] = p[i]
      /\ \A i \in DOMAIN ss : \E k \in DOMAIN r : r[k] = q[i]
  BY <1>1, <1>5 DEF Both
<1>9. \A i \in DOMAIN cs : \E k \in DOMAIN r : r[k].kind = "inline" /\ r[k].surface = cs[i]
  BY <1>1, <1>8
<1>10. \A i \in DOMAIN ss : \E k \in DOMAIN r : r[k].kind = "summary" /\ r[k].surface = ss[i]
  BY <1>1, <1>8
<1>11. Recorded(r, cs, ss)
  BY <1>6, <1>7, <1>9, <1>10 DEF Recorded
<1> QED BY <1>3, <1>11

(***************************************************************************)
(* The receipt explains whatever the reconciliation took away.             *)
(***************************************************************************)
\* A topic comes from an observation, a comment or a summary.
Seed(t, os, cs, ss) ==
  \/ \E i \in DOMAIN os :
       t = Topic(os[i].at, "observed", os[i].key, os[i].lane, os[i].text, os[i].status)
  \/ \E i \in DOMAIN cs : t = InlineTopic(cs[i], os)
  \/ \E i \in DOMAIN ss : t = SummaryTopic(ss[i])

\* Each topic of a graph has a seed.
LEMMA TopicsAre ==
  ASSUME NEW os \in Seq(Observations), NEW cs \in Seq(Surfaces), NEW ss \in Seq(Surfaces)
  PROVE  LET topics == Topics(os, cs, ss)
         IN  \A k \in DOMAIN topics : Seed(topics[k], os, cs, ss)
<1> DEFINE p == [i \in DOMAIN os |->
                   Topic(os[i].at, "observed", os[i].key, os[i].lane, os[i].text, os[i].status)]
           q == [i \in DOMAIN cs |-> InlineTopic(cs[i], os)]
           w == [i \in DOMAIN ss |-> SummaryTopic(ss[i])]
           T == {t \in {p[i] : i \in DOMAIN os} \cup {q[i] : i \in DOMAIN cs}
                         \cup {w[i] : i \in DOMAIN ss} : Seed(t, os, cs, ss)}
           seeds == p \o q \o w
           I == {i \in DOMAIN seeds : \A j \in 1..(i - 1) : seeds[j].id # seeds[i].id}
<1>1. Topics(os, cs, ss) = Where(seeds, I)
  BY DEF Topics
<1>2. /\ DOMAIN os = 1 .. Len(os) /\ DOMAIN cs = 1 .. Len(cs) /\ DOMAIN ss = 1 .. Len(ss)
      /\ Len(os) \in Nat /\ Len(cs) \in Nat /\ Len(ss) \in Nat
  OBVIOUS
<1>3. /\ \A i \in DOMAIN os : p[i] \in T
      /\ \A i \in DOMAIN cs : q[i] \in T
      /\ \A i \in DOMAIN ss : w[i] \in T
  BY DEF Seed
<1>4. p \in [1 .. Len(os) -> T] /\ q \in [1 .. Len(cs) -> T] /\ w \in [1 .. Len(ss) -> T]
  <2> HIDE DEF T
  <2> QED BY <1>2, <1>3
<1>5. \A t \in T : Seed(t, os, cs, ss)
  OBVIOUS
<1> HIDE DEF p, q, w, T
<1>6. p \in Seq(T) /\ q \in Seq(T) /\ w \in Seq(T)
  <2>1. \A n \in Nat : \A f \in [1 .. n -> T] : f \in Seq(T)
    BY SeqDef
  <2> QED BY <1>2, <1>4, <2>1
<1>7. seeds \in Seq(T)
  BY <1>6
<1> HIDE DEF seeds, I
<1>8. Where(seeds, I) \in Seq(T)
  BY <1>7, WhereHolds
<1>9. \A k \in DOMAIN Where(seeds, I) : Where(seeds, I)[k] \in T
  <2> DEFINE v == Where(seeds, I)
  <2> HIDE DEF v
  <2>1. v \in Seq(T) => \A k \in DOMAIN v : v[k] \in T
    OBVIOUS
  <2> QED BY <1>8, <2>1 DEF v
<1> QED BY <1>1, <1>5, <1>9

\* What a claim of the graph comes from, and what it needs to take something away.
LEMMA GraphIs ==
  ASSUME NEW os \in Seq(Observations), NEW cs \in Seq(Surfaces), NEW ss \in Seq(Surfaces),
         NEW threads, NEW last, NEW t \in Graph(os, cs, ss, threads, last)
  PROVE  /\ t.loser \/ t.covered => t.loser \/ t.threaded
         /\ \E u : Seed(u, os, cs, ss) /\ t.id = u.id /\ t.at = u.at
<1> DEFINE topics == Topics(os, cs, ss)
           losers == Losers(topics, os, cs \o ss, last)
           Threads(u) == {h \in threads : /\ h.at = u.at /\ h.current
                                          /\ <<u.text.claim, h.claim>> \in Mentions}
           Claim(u) == [id |-> u.id, at |-> u.at, lane |-> u.lane, text |-> u.text,
                        loser |-> u \in losers,
                        threaded |-> Threads(u) # {},
                        covered |-> /\ Threads(u) # {}
                                    /\ \/ u \in losers
                                       \/ /\ u.status # "refuted"
                                          /\ \/ \E h \in Threads(u) : h.tradeoff
                                             \/ ~Backed(u, os)]
<1>1. Graph(os, cs, ss, threads, last) = {Claim(topics[i]) : i \in DOMAIN topics}
  BY DEF Graph
<1>2. PICK i \in DOMAIN topics : t = Claim(topics[i])
  <2> HIDE DEF topics, Claim
  <2> QED BY <1>1
<1>3. Seed(topics[i], os, cs, ss)
  BY TopicsAre
<1> HIDE DEF topics, losers, Threads
<1>4. /\ t.id = topics[i].id /\ t.at = topics[i].at
      /\ t.loser = (topics[i] \in losers)
      /\ t.threaded = (Threads(topics[i]) # {})
      /\ t.covered => Threads(topics[i]) # {}
  BY <1>2
<1> QED BY <1>3, <1>4

\* Only a comment that matches no observation makes a claim of the family
\* "inline", and then under the id that the reconciliation looks it up by.
LEMMA LooseClaim ==
  ASSUME NEW c
  PROVE  InlineClaim(c, << >>) = <<c.at, "inline", c.text, c.text>>
<1>1. Matching(<< >>, c) = << >>
  <2> DEFINE I == {i \in DOMAIN << >> : /\ << >>[i].at = c.at /\ c.at # NoPlace
                                        /\ Overlap(<< >>[i].text, c.text)}
             s == << >>
             m == Where(s, I)
  <2>1. Matching(s, c) = m
    BY DEF Matching
  <2> HIDE DEF I
  <2>2. s \in Seq({}) /\ m \in Seq({})
    <3>1. s \in Seq({})
      OBVIOUS
    <3> HIDE DEF s
    <3> QED BY <3>1, WhereHolds
  <2> HIDE DEF m
  <2>3. m = << >>
    BY <2>2
  <2> QED BY <2>1, <2>3
<1> QED BY <1>1 DEF InlineClaim, InlineTopic, Topic

\* Such a claim is found under the id the receipt looks for.
LEMMA InlineSeeds ==
  ASSUME NEW os \in Seq(Observations), NEW cs \in Seq(Surfaces), NEW ss \in Seq(Surfaces),
         NEW c \in Surfaces, NEW u, Seed(u, os, cs, ss), u.id = InlineClaim(c, << >>)
  PROVE  u.id = InlineClaim(c, os)
<1>1. u.id = <<c.at, "inline", c.text, c.text>>
  BY LooseClaim
<1>2. u.id[1] = c.at /\ u.id[2] = "inline" /\ u.id[4] = c.text
  BY <1>1
<1>3. \A i \in DOMAIN os :
        u # Topic(os[i].at, "observed", os[i].key, os[i].lane, os[i].text, os[i].status)
  BY <1>2 DEF Topic
<1>4. \A i \in DOMAIN ss : u # SummaryTopic(ss[i])
  BY <1>2 DEF Topic, SummaryTopic
<1>5. PICK i \in DOMAIN cs : u = InlineTopic(cs[i], os)
  BY <1>3, <1>4 DEF Seed
<1>6. Matching(os, cs[i]) = << >> /\ u.id = <<cs[i].at, "inline", cs[i].text, cs[i].text>>
  BY <1>2, <1>5 DEF InlineTopic, Topic
<1>7. cs[i].at = c.at /\ cs[i].text = c.text
  BY <1>2, <1>6
<1>8. Matching(os, c) = << >>
  BY <1>6, <1>7 DEF Matching
<1> QED BY <1>1, <1>8 DEF InlineClaim, InlineTopic, Topic

\* What is left of the surfaces, without the topics.
Settles(graph, c) ==
  \E t \in graph : /\ t.at = c.at
                   /\ t.id = InlineClaim(c, << >>) \/ Overlap(t.text, c.text)
                   /\ t.loser \/ t.covered
Lapses(graph, s) == \E t \in graph : t.loser /\ t.lane = s.lane /\ Overlap(t.text, s.text)

Reconciled(r, graph, cs, ss) ==
  /\ r.comments \in Seq(Surfaces) /\ r.summaries \in Seq(Surfaces)
  /\ \A k \in DOMAIN r.comments : \E i \in DOMAIN cs : r.comments[k] = cs[i]
  /\ \A k \in DOMAIN r.summaries : \E i \in DOMAIN ss : r.summaries[k] = ss[i]
  /\ \A i \in DOMAIN cs : Settles(graph, cs[i]) \/ \E k \in DOMAIN r.comments : r.comments[k] = cs[i]
  /\ \A i \in DOMAIN ss : \/ Lapses(graph, ss[i])
                          \/ Cardinality(Copies(r.comments, ss[i])) = 1
                          \/ \E k \in DOMAIN r.summaries : r.summaries[k] = ss[i]

\* reconcile_public_surfaces(): where each comment has a place of its own none
\* is taken away as the repetition of another.
LEMMA ReconciledIs ==
  ASSUME NEW graph, NEW cs \in Seq(Surfaces), NEW ss \in Seq(Surfaces), Placed(cs)
  PROVE  Reconciled(ReconcileSurfaces(graph, cs, ss), graph, cs, ss)
<1> DEFINE Settled(c) == \E t \in graph :
             /\ t.at = c.at /\ (t.id = InlineClaim(c, << >>) \/ Overlap(t.text, c.text))
             /\ (t.loser \/ t.covered)
           I == {i \in DOMAIN cs : ~Settled(cs[i])}
           open == Where(cs, I)
           New(i) == \A j \in 1..(i - 1) : InlineClaim(open[j], << >>) # InlineClaim(open[i], << >>)
           J == {i \in DOMAIN open : New(i)}
           kept == Where(open, J)
           K == {i \in DOMAIN ss : ~Lapses(graph, ss[i]) /\ Cardinality(Copies(kept, ss[i])) # 1}
           rest == Where(ss, K)
           r == [comments |-> kept, summaries |-> rest]
<1>1. ReconcileSurfaces(graph, cs, ss) = r
  BY DEF ReconcileSurfaces, Lapses
<1>2. open \in Seq(Surfaces) /\ Holds(open, cs, I)
  BY WhereHolds
<1>3. \A c : Settled(c) => Settles(graph, c)
  BY DEF Settles
<1> HIDE DEF Settled
<1>4. /\ \A k \in DOMAIN open : \E i \in DOMAIN cs : open[k] = cs[i]
      /\ \A i \in DOMAIN cs : ~Settled(cs[i]) => \E k \in DOMAIN open : open[k] = cs[i]
      /\ Placed(open) /\ DOMAIN open = 1 .. Len(open) /\ Len(open) \in Nat
  <2> DEFINE o == open
             II == I
  <2>1. Holds(o, cs, II) /\ II \subseteq DOMAIN cs /\ \A i \in DOMAIN cs : ~Settled(cs[i]) => i \in II
    BY <1>2
  <2> HIDE DEF o, II
  <2>2. /\ \A k \in DOMAIN o : \E i \in DOMAIN cs : o[k] = cs[i]
        /\ \A i \in DOMAIN cs : ~Settled(cs[i]) => \E k \in DOMAIN o : o[k] = cs[i]
        /\ Placed(o) /\ DOMAIN o = 1 .. Len(o) /\ Len(o) \in Nat
    BY <2>1 DEF Holds
  <2> QED BY <2>2 DEF o
<1> HIDE DEF open, I
<1>5. J = DOMAIN open
  <2> SUFFICES ASSUME NEW i \in DOMAIN open, NEW j \in 1 .. (i - 1)
               PROVE  InlineClaim(open[j], << >>) # InlineClaim(open[i], << >>)
    OBVIOUS
  <2>1. j \in DOMAIN open /\ j # i
    BY <1>4
  <2>2. open[j].at # open[i].at
    BY <1>4, <2>1 DEF Placed
  <2> QED BY <2>2, LooseClaim
<1>6. kept \in Seq(Surfaces) /\ Holds(kept, open, J)
  BY <1>2, WhereHolds
<1> HIDE DEF kept, J
<1>7. /\ \A k \in DOMAIN kept : \E i \in DOMAIN open : kept[k] = open[i]
      /\ \A i \in DOMAIN open : \E k \in DOMAIN kept : kept[k] = open[i]
  BY <1>5, <1>6 DEF Holds
<1>8. rest \in Seq(Surfaces) /\ Holds(rest, ss, K)
  BY WhereHolds
<1>9. /\ \A k \in DOMAIN rest : \E i \in DOMAIN ss : rest[k] = ss[i]
      /\ \A i \in DOMAIN ss : \/ Lapses(graph, ss[i])
                              \/ Cardinality(Copies(kept, ss[i])) = 1
                              \/ \E k \in DOMAIN rest : rest[k] = ss[i]
  <2> DEFINE o == rest
             II == K
  <2>1. /\ Holds(o, ss, II) /\ II \subseteq DOMAIN ss
        /\ \A i \in DOMAIN ss : i \in II \/ Lapses(graph, ss[i]) \/ Cardinality(Copies(kept, ss[i])) = 1
    BY <1>8
  <2> HIDE DEF o, II
  <2>2. /\ \A k \in DOMAIN o : \E i \in DOMAIN ss : o[k] = ss[i]
        /\ \A i \in II : \E k \in DOMAIN o : o[k] = ss[i]
    BY <2>1 DEF Holds
  <2>3. \A i \in DOMAIN ss : \/ Lapses(graph, ss[i])
                             \/ Cardinality(Copies(kept, ss[i])) = 1
                             \/ \E k \in DOMAIN o : o[k] = ss[i]
    BY <2>1, <2>2
  <2> QED BY <2>2, <2>3 DEF o
<1> HIDE DEF rest
<1>10. \A k \in DOMAIN kept : \E i \in DOMAIN cs : kept[k] = cs[i]
  BY <1>4, <1>7
<1>11. \A i \in DOMAIN cs : Settles(graph, cs[i]) \/ \E k \in DOMAIN kept : kept[k] = cs[i]
  BY <1>3, <1>4, <1>7
<1>12. r.comments = kept /\ r.summaries = rest
  OBVIOUS
<1> HIDE DEF r
<1>13. Reconciled(r, graph, cs, ss)
  BY <1>6, <1>8, <1>9, <1>10, <1>11, <1>12 DEF Reconciled
<1> QED BY <1>1, <1>13

\* Every reduction of surfaces that are each at a place of their own is
\* explained: the receipt of a run never refuses it.
THEOREM ReceiptExplains ==
  ASSUME NEW os \in Seq(Observations), NEW cs \in Seq(Surfaces), NEW ss \in Seq(Surfaces),
         Placed(cs), NEW threads, NEW last, NEW graph, graph = Graph(os, cs, ss, threads, last),
         NEW after, after = ReconcileSurfaces(graph, cs, ss)
  PROVE  ReceiptHolds(graph, cs, ss, os, after)
<1>1. Reconciled(after, graph, cs, ss)
  BY ReconciledIs
<1>2. \A t \in graph : /\ t.loser \/ t.covered => t.loser \/ t.threaded
                       /\ \E u : Seed(u, os, cs, ss) /\ t.id = u.id /\ t.at = u.at
  BY GraphIs
<1>3. ASSUME NEW i \in DOMAIN cs PROVE ExplainedComment(graph, cs[i], os, after)
  <2> DEFINE c == cs[i]
  <2>0. c \in Surfaces
    OBVIOUS
  <2>1. CASE Settles(graph, c)
    <3>1. PICK t \in graph : /\ t.at = c.at
                             /\ t.id = InlineClaim(c, << >>) \/ Overlap(t.text, c.text)
                             /\ t.loser \/ t.covered
      BY <2>1 DEF Settles
    <3>2. t.id = InlineClaim(c, << >>) => t.id = InlineClaim(c, os)
      <4> SUFFICES ASSUME t.id = InlineClaim(c, << >>) PROVE t.id = InlineClaim(c, os)
        OBVIOUS
      <4>1. PICK u : Seed(u, os, cs, ss) /\ t.id = u.id
        BY <1>2
      <4> HIDE DEF c
      <4> QED BY <2>0, <4>1, InlineSeeds
    <3> QED BY <1>2, <3>1, <3>2 DEF ExplainedComment
  <2>2. CASE \E k \in DOMAIN after.comments : after.comments[k] = c
    <3>1. c \in ToSet(after.comments)
      BY <2>2 DEF ToSet
    <3> QED BY <3>1 DEF ExplainedComment
  <2> QED BY <1>1, <2>1, <2>2 DEF Reconciled
<1>4. ASSUME NEW i \in DOMAIN ss PROVE ExplainedSummary(graph, ss[i], after)
  <2> DEFINE s == ss[i]
  <2>1. CASE Lapses(graph, s)
    BY <2>1 DEF Lapses, ExplainedSummary
  <2>2. CASE Cardinality(Copies(after.comments, s)) = 1
    BY <2>2 DEF Copies, ExplainedSummary
  <2>3. CASE \E k \in DOMAIN after.summaries : after.summaries[k] = s
    <3>1. s \in ToSet(after.summaries)
      BY <2>3 DEF ToSet
    <3> QED BY <3>1 DEF ExplainedSummary
  <2> QED BY <1>1, <2>1, <2>2, <2>3 DEF Reconciled
<1>5. /\ \A c \in ToSet(cs) : \E i \in DOMAIN cs : c = cs[i]
      /\ \A s \in ToSet(ss) : \E i \in DOMAIN ss : s = ss[i]
  BY DEF ToSet
<1> QED BY <1>3, <1>4, <1>5 DEF ReceiptHolds

(***************************************************************************)
(* The inductive invariant of a run's findings.                            *)
(***************************************************************************)
\* A surface a follow-up added stands for no finding of the lanes.
Replied == {s \in Surfaces : s.from = 0}
Outputs(G) == [group : G, observations : Seq(Observations), summaries : Seq(Replied)]

FlowTypes ==
  /\ raised \in Seq(Findings) /\ comments \in Seq(Surfaces) /\ summaries \in Seq(Surfaces)
  /\ observations \in Seq(Observations)

FlowOutputs == \E G : outputs \in Seq(Outputs(G))

\* Each finding is somewhere, and on one surface at most.
SurfacedOnce(cs, ss) ==
  /\ Once(cs) /\ Once(ss) /\ OffPlace(ss) /\ Froms(cs) \cap Froms(ss) = {}
Nowhere(cs, ss, os, out, n) ==
  (1 .. n) \ (Froms(cs) \cup Froms(ss) \cup Froms(os) \cup out)

Accounted ==
  pc # "done" =>
    /\ SurfacedOnce(comments, summaries)
    /\ Froms(comments) \cup Froms(summaries) \subseteq 1 .. Len(raised)
    /\ Nowhere(comments, summaries, observations, dropped, Len(raised)) = {}

NoneDropped == pc \in {"lanes", "sensor", "refuter"} => dropped = {}
Apiece == pc \in {"refuter", "conflicts", "record", "follow-up", "compile"} => Placed(comments)
OnRecord == pc \in {"follow-up", "compile"} => candidates = Candidates(comments, summaries)
AwayKnown == pc = "compile" => away \subseteq DOMAIN candidates

FlowInv ==
  /\ FlowTypes /\ FlowOutputs /\ Accounted /\ NoneDropped /\ Apiece /\ OnRecord /\ AwayKnown
  /\ ResolvedStaysOut /\ NothingVanishes

\* A run starts with nothing raised.
LEMMA FlowStarts == FlowInit => FlowInv
<1> SUFFICES ASSUME FlowInit PROVE FlowInv
  OBVIOUS
<1>1. /\ raised = << >> /\ comments = << >> /\ summaries = << >> /\ observations = << >>
      /\ outputs = << >> /\ pc = "lanes"
  BY DEF FlowInit
<1>2. FlowTypes /\ FlowOutputs
  BY <1>1 DEF FlowTypes, FlowOutputs
<1>3. Accounted
  <2>1. DOMAIN comments = {} /\ DOMAIN summaries = {} /\ Len(raised) = 0 /\ 1 .. Len(raised) = {}
    BY <1>1
  <2>2. Froms(comments) = {} /\ Froms(summaries) = {}
    BY <2>1 DEF Froms
  <2> QED BY <2>1, <2>2 DEF Accounted, SurfacedOnce, Nowhere, Once, OffPlace
<1>4. NoneDropped /\ Apiece /\ OnRecord /\ AwayKnown /\ ResolvedStaysOut /\ NothingVanishes
  BY <1>1 DEF FlowInit, NoneDropped, Apiece, OnRecord, AwayKnown, ResolvedStaysOut, NothingVanishes
<1> QED BY <1>2, <1>3, <1>4 DEF FlowInv

\* Each finding that is raised becomes one thing.
LEMMA RaiseKeeps ==
  ASSUME FlowInv, pc \in {"lanes", "sensor"}, NEW o \in Offers, Raise(o)
  PROVE  FlowInv'
<1> DEFINE n == Len(raised) + 1
           f == [o EXCEPT !.id = n]
<1>1. raised \in Seq(Findings) /\ Len(raised) \in Nat /\ n \in Nat
  BY DEF FlowInv, FlowTypes
<1>2. f \in Findings /\ f.id = n
  <2>1. o \in Findings
    BY FlowAssumption
  <2> HIDE DEF n
  <2> QED BY <1>1, <2>1 DEF Findings
<1>3. /\ raised' = Append(raised, f)
      /\ \/ observations' = Append(observations, ObservationOf(f)) /\ UNCHANGED <<comments, summaries>>
         \/ comments' = Append(comments, CommentOf(f)) /\ UNCHANGED <<observations, summaries>>
         \/ summaries' = Append(summaries, SummaryOf(f)) /\ UNCHANGED <<observations, comments>>
      /\ UNCHANGED <<pc, dropped, candidates, outputs, away, receipt>>
  BY DEF Raise
<1>4. raised' \in Seq(Findings) /\ Len(raised') = n /\ 1 .. Len(raised') = (1 .. Len(raised)) \cup {n}
      /\ n \notin 1 .. Len(raised)
  BY <1>1, <1>2, <1>3
<1>5. /\ comments \in Seq(Surfaces) /\ summaries \in Seq(Surfaces) /\ observations \in Seq(Observations)
      /\ SurfacedOnce(comments, summaries)
      /\ Froms(comments) \cup Froms(summaries) \subseteq 1 .. Len(raised)
      /\ Nowhere(comments, summaries, observations, dropped, Len(raised)) = {}
  BY DEF FlowInv, FlowTypes, Accounted
<1>6. n \notin Froms(comments) /\ n \notin Froms(summaries)
  BY <1>4, <1>5
<1> HIDE DEF n
<1>7. /\ comments' \in Seq(Surfaces) /\ summaries' \in Seq(Surfaces) /\ observations' \in Seq(Observations)
      /\ SurfacedOnce(comments', summaries')
      /\ Froms(comments') \cup Froms(summaries') \subseteq Froms(comments) \cup Froms(summaries) \cup {n}
      /\ Froms(comments') \cup Froms(summaries') \cup Froms(observations')
           = Froms(comments) \cup Froms(summaries) \cup Froms(observations) \cup {n}
  <2>1. CASE observations' = Append(observations, ObservationOf(f)) /\ UNCHANGED <<comments, summaries>>
    <3> DEFINE e == ObservationOf(f)
    <3>1. e \in Observations /\ e.from = n
      BY <1>2, ObservationIs
    <3> HIDE DEF e, f
    <3>2. Append(observations, e) \in Seq(Observations)
          /\ Froms(Append(observations, e)) = Froms(observations) \cup {n}
      BY <1>5, <3>1, Appended
    <3> QED BY <1>5, <2>1, <3>2 DEF e
  <2>2. CASE comments' = Append(comments, CommentOf(f)) /\ UNCHANGED <<observations, summaries>>
    <3> DEFINE e == CommentOf(f)
    <3>1. e \in Surfaces /\ e.from = n
      BY <1>2, CommentIs
    <3> HIDE DEF e, f
    <3>2. /\ Append(comments, e) \in Seq(Surfaces)
          /\ Froms(Append(comments, e)) = Froms(comments) \cup {n}
          /\ Once(Append(comments, e))
      BY <1>5, <1>6, <3>1, Appended DEF SurfacedOnce
    <3> QED BY <1>5, <1>6, <2>2, <3>2 DEF e, SurfacedOnce
  <2>3. CASE summaries' = Append(summaries, SummaryOf(f)) /\ UNCHANGED <<observations, comments>>
    <3> DEFINE e == SummaryOf(f)
    <3>1. e \in Surfaces /\ e.from = n /\ e.at = NoPlace
      BY <1>2, SummaryIs DEF Note
    <3> HIDE DEF e, f
    <3>2. /\ Append(summaries, e) \in Seq(Surfaces)
          /\ Froms(Append(summaries, e)) = Froms(summaries) \cup {n}
          /\ Once(Append(summaries, e)) /\ OffPlace(Append(summaries, e))
      BY <1>5, <1>6, <3>1, Appended DEF SurfacedOnce
    <3> QED BY <1>5, <1>6, <2>3, <3>2 DEF e, SurfacedOnce
  <2> QED BY <1>3, <2>1, <2>2, <2>3
<1>8. /\ Froms(comments') \cup Froms(summaries') \subseteq 1 .. Len(raised')
      /\ Nowhere(comments', summaries', observations', dropped', Len(raised')) = {}
  <2>1. dropped' = dropped
    BY <1>3
  <2> QED BY <1>4, <1>5, <1>7, <2>1 DEF Nowhere
<1>9. pc' = pc /\ outputs' = outputs
  BY <1>3
<1>10. FlowTypes' /\ FlowOutputs' /\ Accounted'
  BY <1>4, <1>7, <1>8, <1>9 DEF FlowInv, FlowTypes, FlowOutputs, Accounted
<1>11. NoneDropped' /\ Apiece' /\ OnRecord' /\ AwayKnown' /\ ResolvedStaysOut' /\ NothingVanishes'
  BY <1>3, <1>9 DEF FlowInv, NoneDropped, Apiece, OnRecord, AwayKnown, ResolvedStaysOut, NothingVanishes
<1> QED BY <1>10, <1>11 DEF FlowInv

\* Merging duplicates moves a finding to the summaries at most.
LEMMA MergeKeeps ==
  ASSUME FlowInv, NEW from, NEW to, from \in {"lanes", "sensor"}, to \in {"sensor", "refuter"},
         Merge(from, to)
  PROVE  FlowInv'
<1> DEFINE d == Dedupe(comments)
<1>1. /\ pc = from /\ pc' = to
      /\ comments' = d.kept /\ summaries' = summaries \o d.notes
      /\ UNCHANGED <<raised, observations, dropped, candidates, outputs, away, receipt>>
  BY DEF Merge
<1>2. /\ comments \in Seq(Surfaces) /\ summaries \in Seq(Surfaces) /\ observations \in Seq(Observations)
      /\ SurfacedOnce(comments, summaries)
      /\ Froms(comments) \cup Froms(summaries) \subseteq 1 .. Len(raised)
      /\ Nowhere(comments, summaries, observations, dropped, Len(raised)) = {}
  BY <1>1 DEF FlowInv, FlowTypes, Accounted
<1>3. /\ d.kept \in Seq(Surfaces) /\ d.notes \in Seq(Surfaces)
      /\ Once(d.kept) /\ Placed(d.kept) /\ Once(d.notes) /\ OffPlace(d.notes)
      /\ Froms(d.kept) \cap Froms(d.notes) = {}
      /\ Froms(d.kept) \cup Froms(d.notes) = Froms(comments)
  BY <1>2, DedupeKeepsFindings DEF SurfacedOnce, Separate
<1> HIDE DEF d
<1>4. /\ Once(summaries) /\ OffPlace(summaries) /\ Froms(summaries) \cap Froms(d.notes) = {}
      /\ Froms(d.kept) \cap Froms(summaries) = {}
  BY <1>2, <1>3 DEF SurfacedOnce
<1>5. /\ summaries' \in Seq(Surfaces) /\ Froms(summaries') = Froms(summaries) \cup Froms(d.notes)
      /\ Once(summaries') /\ OffPlace(summaries')
  BY <1>1, <1>2, <1>3, <1>4, Behind
<1>6. SurfacedOnce(comments', summaries')
  BY <1>1, <1>3, <1>4, <1>5 DEF SurfacedOnce
<1>7. Froms(comments') \cup Froms(summaries') = Froms(comments) \cup Froms(summaries)
  BY <1>1, <1>3, <1>5
<1>8. Accounted'
  BY <1>1, <1>2, <1>6, <1>7 DEF Accounted, Nowhere
<1>9. FlowTypes' /\ FlowOutputs' /\ Apiece'
  BY <1>1, <1>2, <1>3, <1>5 DEF FlowInv, FlowTypes, FlowOutputs, Apiece
<1>10. NoneDropped' /\ OnRecord' /\ AwayKnown' /\ ResolvedStaysOut' /\ NothingVanishes'
  BY <1>1 DEF FlowInv, NoneDropped, OnRecord, AwayKnown, ResolvedStaysOut, NothingVanishes
<1> QED BY <1>8, <1>9, <1>10 DEF FlowInv

\* The refuter keeps, notes or drops each comment, once.
LEMMA RefuteKeeps ==
  ASSUME FlowInv, Refute
  PROVE  FlowInv'
<1>1. /\ pc = "refuter" /\ pc' = "conflicts"
      /\ UNCHANGED <<raised, observations, candidates, outputs, away, receipt>>
  BY DEF Refute
<1>2. PICK D : \E said \in [D -> Decisions] :
           /\ comments' = Refuted(comments, said).kept
           /\ summaries' = summaries \o Refuted(comments, said).demoted
           /\ dropped' = Refuted(comments, said).dropped
  BY DEF Refute
<1>3. PICK said \in [D -> Decisions] :
           /\ comments' = Refuted(comments, said).kept
           /\ summaries' = summaries \o Refuted(comments, said).demoted
           /\ dropped' = Refuted(comments, said).dropped
  BY <1>2
<1> DEFINE r == Refuted(comments, said)
<1>4. /\ comments \in Seq(Surfaces) /\ summaries \in Seq(Surfaces) /\ observations \in Seq(Observations)
      /\ SurfacedOnce(comments, summaries) /\ Placed(comments)
      /\ Froms(comments) \cup Froms(summaries) \subseteq 1 .. Len(raised)
      /\ Nowhere(comments, summaries, observations, dropped, Len(raised)) = {} /\ dropped = {}
  BY <1>1 DEF FlowInv, FlowTypes, Accounted, Apiece, NoneDropped
<1>5. /\ r.kept \in Seq(Surfaces) /\ r.demoted \in Seq(Surfaces)
      /\ Once(r.kept) /\ Placed(r.kept) /\ Once(r.demoted) /\ OffPlace(r.demoted)
      /\ Froms(r.kept) \cap Froms(r.demoted) = {}
      /\ Froms(r.kept) \cup Froms(r.demoted) \cup r.dropped = Froms(comments)
  BY <1>4, RefutedIs DEF SurfacedOnce
<1>0. comments' = r.kept /\ summaries' = summaries \o r.demoted /\ dropped' = r.dropped
  BY <1>3
<1> HIDE DEF r
<1>6. /\ Once(summaries) /\ OffPlace(summaries) /\ Froms(summaries) \cap Froms(r.demoted) = {}
      /\ Froms(r.kept) \cap Froms(summaries) = {}
  BY <1>4, <1>5 DEF SurfacedOnce
<1>7. /\ summaries' \in Seq(Surfaces) /\ Froms(summaries') = Froms(summaries) \cup Froms(r.demoted)
      /\ Once(summaries') /\ OffPlace(summaries')
  BY <1>0, <1>4, <1>5, <1>6, Behind
<1>8. SurfacedOnce(comments', summaries')
  BY <1>0, <1>5, <1>6, <1>7 DEF SurfacedOnce
<1>9. Accounted'
  BY <1>0, <1>1, <1>4, <1>5, <1>7, <1>8 DEF Accounted, Nowhere
<1>10. FlowTypes' /\ FlowOutputs' /\ Apiece'
  BY <1>0, <1>1, <1>4, <1>5, <1>7 DEF FlowInv, FlowTypes, FlowOutputs, Apiece
<1>11. NoneDropped' /\ OnRecord' /\ AwayKnown' /\ ResolvedStaysOut' /\ NothingVanishes'
  BY <1>1 DEF NoneDropped, OnRecord, AwayKnown, ResolvedStaysOut, NothingVanishes
<1> QED BY <1>9, <1>10, <1>11 DEF FlowInv

\* The notes of conflicts touch no surface.
LEMMA NoteConflictsKeeps ==
  ASSUME FlowInv, NoteConflicts
  PROVE  FlowInv'
<1> DEFINE pairs == Pairs(comments \o summaries)
           q == [i \in 1 .. Min({3, Len(pairs)}) |-> ConflictQuestion(pairs[i][1])]
<1>1. /\ pc = "conflicts" /\ pc' = "record" /\ observations' = observations \o q
      /\ UNCHANGED <<raised, comments, summaries, dropped, candidates, outputs, away, receipt>>
  BY DEF NoteConflicts
<1>2. /\ comments \in Seq(Surfaces) /\ summaries \in Seq(Surfaces) /\ observations \in Seq(Observations)
      /\ Placed(comments)
  BY <1>1 DEF FlowInv, FlowTypes, Apiece
<1>3. pairs \in Seq(PairSet)
  <2> DEFINE cs == comments \o summaries
  <2>1. cs \in Seq(Surfaces)
    BY <1>2
  <2> HIDE DEF cs
  <2>2. Pairs(cs) \in Seq(PairSet)
    BY <1>2, <2>1, PairsIs
  <2> QED BY <2>2 DEF cs
<1> HIDE DEF pairs
<1>4. q \in Seq(Observations)
  BY <1>2, <1>3, NotedIs
<1> HIDE DEF q
<1>5. /\ observations' \in Seq(Observations)
      /\ Froms(observations') = Froms(observations) \cup Froms(q)
  BY <1>1, <1>2, <1>4, Behind
<1>6. FlowTypes' /\ FlowOutputs' /\ Apiece'
  BY <1>1, <1>2, <1>5 DEF FlowInv, FlowTypes, FlowOutputs, Apiece
<1>7. Accounted'
  BY <1>1, <1>5 DEF FlowInv, Accounted, Nowhere
<1>8. NoneDropped' /\ OnRecord' /\ AwayKnown' /\ ResolvedStaysOut' /\ NothingVanishes'
  BY <1>1 DEF NoneDropped, OnRecord, AwayKnown, ResolvedStaysOut, NothingVanishes
<1> QED BY <1>6, <1>7, <1>8 DEF FlowInv

\* The records are made of the surfaces as they are.
LEMMA RecordKeeps ==
  ASSUME FlowInv, Record
  PROVE  FlowInv'
<1>1. /\ pc = "record" /\ pc' = "follow-up" /\ candidates' = Candidates(comments, summaries)
      /\ UNCHANGED <<raised, comments, summaries, observations, dropped, outputs, away, receipt>>
  BY DEF Record
<1>2. OnRecord'
  <2>1. comments' = comments /\ summaries' = summaries
    BY <1>1
  <2> QED BY <1>1, <2>1 DEF OnRecord
<1>3. FlowTypes' /\ FlowOutputs' /\ Apiece' /\ Accounted'
  BY <1>1 DEF FlowInv, FlowTypes, FlowOutputs, Apiece, Accounted
<1>4. NoneDropped' /\ AwayKnown' /\ ResolvedStaysOut' /\ NothingVanishes'
  BY <1>1 DEF NoneDropped, AwayKnown, ResolvedStaysOut, NothingVanishes
<1> QED BY <1>2, <1>3, <1>4 DEF FlowInv

\* What a follow-up says stands for no finding of a lane.
SaidIn(lane, said, reply) ==
  said = [i \in DOMAIN reply |-> [reply[i] EXCEPT !.id = 0, !.lane = lane]]

LEMMA ReplyIs ==
  ASSUME NEW reply \in Seq(Findings), NEW lane \in Nat, NEW said, SaidIn(lane, said, reply),
         NEW I, NEW J
  PROVE  /\ Where([i \in DOMAIN said |-> ObservationOf(said[i])], I) \in Seq(Observations)
         /\ Where([i \in DOMAIN said |-> SummaryOf(said[i])], J) \in Seq(Replied)
<1>1. /\ DOMAIN reply = 1 .. Len(reply) /\ Len(reply) \in Nat /\ DOMAIN said = DOMAIN reply
      /\ \A i \in DOMAIN reply : reply[i] \in Findings
  <2>1. DOMAIN said = DOMAIN reply
    BY DEF SaidIn
  <2>2. DOMAIN reply = 1 .. Len(reply) /\ Len(reply) \in Nat
    OBVIOUS
  <2>3. \A i \in DOMAIN reply : reply[i] \in Findings
    OBVIOUS
  <2> QED BY <2>1, <2>2, <2>3
<1>2. \A i \in DOMAIN said : said[i] \in Findings /\ said[i].id = 0
  BY <1>1 DEF Findings, SaidIn
<1> DEFINE p == [i \in DOMAIN said |-> ObservationOf(said[i])]
           q == [i \in DOMAIN said |-> SummaryOf(said[i])]
<1>3. \A i \in DOMAIN said : ObservationOf(said[i]) \in Observations /\ SummaryOf(said[i]) \in Replied
  BY <1>2, ObservationIs, SummaryIs DEF Note, Replied
<1>4. p \in [1 .. Len(reply) -> Observations] /\ q \in [1 .. Len(reply) -> Replied]
  BY <1>1, <1>3
<1> HIDE DEF p, q
<1>5. p \in Seq(Observations) /\ q \in Seq(Replied)
  <2>1. \A n \in Nat : \A g \in [1 .. n -> Observations] : g \in Seq(Observations)
    BY SeqDef
  <2>2. \A n \in Nat : \A g \in [1 .. n -> Replied] : g \in Seq(Replied)
    BY SeqDef
  <2> QED BY <1>1, <1>4, <2>1, <2>2
<1>6. Where(p, I) \in Seq(Observations) /\ Where(q, J) \in Seq(Replied)
  BY <1>5, WhereHolds
<1> QED BY <1>6 DEF p, q

\* An answer of a follow-up is kept apart from the surfaces.
LEMMA AskKeeps ==
  ASSUME FlowInv, Ask
  PROVE  FlowInv'
<1>1. /\ pc = "follow-up"
      /\ UNCHANGED <<pc, raised, comments, summaries, observations, dropped, candidates, away, receipt>>
  BY DEF Ask
<1>2. PICK G : outputs \in Seq(Outputs(G))
  BY DEF FlowInv, FlowOutputs
<1>3. Len(outputs) \in Nat
  BY <1>2
<1>4. PICK reply \in Replies \cup {<< >>} :
       LET lane == FollowUpLane(Len(outputs) + 1)
           said == [i \in DOMAIN reply |-> [reply[i] EXCEPT !.id = 0, !.lane = lane]]
           Seen == {i \in DOMAIN said : Observed(said[i])}
       IN  outputs' = Append(outputs,
             [group |-> AskNext,
              observations |-> Where([i \in DOMAIN said |-> ObservationOf(said[i])], Seen),
              summaries |-> Where([i \in DOMAIN said |-> SummaryOf(said[i])], DOMAIN said \ Seen)])
  BY DEF Ask
<1> DEFINE lane == FollowUpLane(Len(outputs) + 1)
           said == [i \in DOMAIN reply |-> [reply[i] EXCEPT !.id = 0, !.lane = lane]]
           Seen == {i \in DOMAIN said : Observed(said[i])}
           unseen == DOMAIN said \ Seen
           os == Where([i \in DOMAIN said |-> ObservationOf(said[i])], Seen)
           ss == Where([i \in DOMAIN said |-> SummaryOf(said[i])], unseen)
           a == [group |-> AskNext, observations |-> os, summaries |-> ss]
<1>5. outputs' = Append(outputs, a)
  BY <1>4
<1>6. reply \in Seq(Findings)
  <2>1. << >> \in Seq(Findings)
    OBVIOUS
  <2> QED BY <2>1, FlowAssumption
<1>7. lane \in Nat
  BY <1>3, FlowAssumption DEF FollowUpLane
<1> HIDE DEF lane
<1>8. SaidIn(lane, said, reply)
  BY DEF SaidIn
<1> HIDE DEF said, Seen, unseen
<1>9. os \in Seq(Observations) /\ ss \in Seq(Replied)
  BY <1>6, <1>7, <1>8, ReplyIs
<1> HIDE DEF os, ss
<1> DEFINE H == G \cup {AskNext}
<1>10. a \in Outputs(H) /\ Outputs(G) \subseteq Outputs(H)
  <2> DEFINE g == AskNext
  <2>1. g \in H /\ G \subseteq H
    OBVIOUS
  <2> HIDE DEF g, H
  <2> QED BY <1>9, <2>1 DEF Outputs, g
<1> HIDE DEF a, H
<1>11. outputs \in Seq(Outputs(H))
  <2>1. Outputs(G) \subseteq Outputs(H)
    BY <1>10
  <2> DEFINE X == Outputs(G)
             Y == Outputs(H)
  <2> HIDE DEF X, Y
  <2>2. X \subseteq Y => Seq(X) \subseteq Seq(Y)
    OBVIOUS
  <2> QED BY <1>2, <2>1, <2>2 DEF X, Y
<1>12. FlowOutputs'
  <2>1. outputs' \in Seq(Outputs(H))
    BY <1>5, <1>10, <1>11
  <2> QED BY <2>1 DEF FlowOutputs
<1>13. FlowTypes' /\ Apiece' /\ OnRecord' /\ Accounted' /\ NoneDropped'
  BY <1>1 DEF FlowInv, FlowTypes, Apiece, OnRecord, Accounted, NoneDropped
<1>14. AwayKnown' /\ ResolvedStaysOut' /\ NothingVanishes'
  BY <1>1 DEF AwayKnown, ResolvedStaysOut, NothingVanishes
<1> QED BY <1>12, <1>13, <1>14 DEF FlowInv

\* What is resolved away is on record.
LEMMA ResolveKeeps ==
  ASSUME FlowInv, Resolve
  PROVE  FlowInv'
<1>1. /\ pc = "follow-up" /\ pc' = "compile"
      /\ UNCHANGED <<raised, comments, summaries, observations, dropped, candidates, outputs, receipt>>
  BY DEF Resolve
<1>2. away' \subseteq DOMAIN candidates
  BY DEF Resolve
<1>3. AwayKnown'
  BY <1>1, <1>2 DEF AwayKnown
<1>4. FlowTypes' /\ FlowOutputs' /\ Apiece' /\ OnRecord' /\ Accounted' /\ NoneDropped'
  BY <1>1 DEF FlowInv, FlowTypes, FlowOutputs, Apiece, OnRecord, Accounted, NoneDropped
<1>5. ResolvedStaysOut' /\ NothingVanishes'
  BY <1>1 DEF ResolvedStaysOut, NothingVanishes
<1> QED BY <1>3, <1>4, <1>5 DEF FlowInv

\* The surfaces that are left, at the step to the final review.
LeftIs ==
  /\ LeftComments \in Seq(Surfaces) /\ Placed(LeftComments)
  /\ \A k \in DOMAIN LeftComments : \E j \in DOMAIN comments :
        LeftComments[k] = comments[j] /\ ~\E i \in away : MatchesComment(candidates[i], comments[j])
  /\ \A j \in DOMAIN comments :
        \/ \E i \in away : MatchesComment(candidates[i], comments[j])
        \/ comments[j].from \in Froms(LeftComments)
  /\ LeftSummaries \in Seq(Surfaces)
  /\ \A k \in DOMAIN LeftSummaries :
        \/ LeftSummaries[k].from = 0
        \/ \E j \in DOMAIN summaries :
             /\ LeftSummaries[k] = summaries[j]
             /\ ~\E i \in away : MatchesSummary(candidates[i], summaries[j])
  /\ \A j \in DOMAIN summaries :
        \/ \E i \in away : MatchesSummary(candidates[i], summaries[j])
        \/ summaries[j].from \in Froms(LeftSummaries)
  /\ AllObservations \in Seq(Observations)

\* Taking away the resolved candidates leaves the others, and adds the follow-ups'.
LEMMA WhatIsLeft ==
  ASSUME FlowInv, pc = "compile"
  PROVE  LeftIs
<1>1. /\ comments \in Seq(Surfaces) /\ summaries \in Seq(Surfaces) /\ observations \in Seq(Observations)
      /\ Placed(comments)
  BY DEF FlowInv, FlowTypes, Apiece
<1> DEFINE CGone(j) == \E i \in away : MatchesComment(candidates[i], comments[j])
           SGone(j) == \E i \in away : MatchesSummary(candidates[i], summaries[j])
           I == {k \in DOMAIN comments : ~CGone(k)}
           J == {k \in DOMAIN summaries : ~SGone(k)}
           p == Where(comments, I)
           q == Where(summaries, J)
           t == FollowUpSummaries
<1>2. LeftComments = p /\ LeftSummaries = q \o t
  BY DEF LeftComments, LeftSummaries
<1>3. p \in Seq(Surfaces) /\ Holds(p, comments, I)
  BY <1>1, WhereHolds
<1>4. q \in Seq(Surfaces) /\ Holds(q, summaries, J)
  BY <1>1, WhereHolds
<1>5. PICK G : outputs \in Seq(Outputs(G))
  BY DEF FlowInv, FlowOutputs
<1>6. t \in Seq(Replied) /\ AllObservations \in Seq(Observations)
  <2> DEFINE ss == [k \in DOMAIN outputs |-> outputs[k].summaries]
             os == [k \in DOMAIN outputs |-> outputs[k].observations]
  <2>1. /\ DOMAIN outputs = 1 .. Len(outputs) /\ Len(outputs) \in Nat
        /\ \A k \in DOMAIN outputs : /\ outputs[k].summaries \in Seq(Replied)
                                     /\ outputs[k].observations \in Seq(Observations)
    <3>1. DOMAIN outputs = 1 .. Len(outputs) /\ Len(outputs) \in Nat
      BY <1>5
    <3>2. \A k \in DOMAIN outputs : outputs[k] \in Outputs(G)
      BY <1>5
    <3> QED BY <3>1, <3>2 DEF Outputs
  <2> DEFINE X == Seq(Replied)
             Y == Seq(Observations)
  <2> HIDE DEF X, Y
  <2>2. ss \in [1 .. Len(outputs) -> X] /\ os \in [1 .. Len(outputs) -> Y]
    BY <2>1 DEF X, Y
  <2> HIDE DEF ss, os
  <2>3. ss \in Seq(X)
    BY <2>1, <2>2, SeqDef
  <2>4. os \in Seq(Y)
    BY <2>1, <2>2, SeqDef
  <2>5. FlattenSeq(ss) \in X /\ FlattenSeq(os) \in Y
    BY <2>3, <2>4, Flattened DEF X, Y
  <2>6. observations \o FlattenSeq(os) \in Seq(Observations)
    BY <1>1, <2>5, Behind DEF Y
  <2> QED BY <2>5, <2>6 DEF X, ss, os, FollowUpSummaries, AllObservations
<1>7. /\ t \in Seq(Surfaces) /\ \A k \in DOMAIN t : t[k].from = 0
  <2>1. Replied \subseteq Surfaces /\ \A s \in Replied : s.from = 0
    BY DEF Replied
  <2> HIDE DEF t
  <2>2. \A k \in DOMAIN t : t[k] \in Replied
    BY <1>6
  <2>3. Seq(Replied) \subseteq Seq(Surfaces)
    BY <2>1
  <2> QED BY <1>6, <2>1, <2>2, <2>3
<1> HIDE DEF CGone, SGone
<1> DEFINE II == I
           JJ == J
<1>8. /\ II \subseteq DOMAIN comments /\ \A j \in DOMAIN comments : CGone(j) \/ j \in II
      /\ \A j \in II : ~CGone(j)
      /\ JJ \subseteq DOMAIN summaries /\ \A j \in DOMAIN summaries : SGone(j) \/ j \in JJ
      /\ \A j \in JJ : ~SGone(j)
      /\ Holds(p, comments, II) /\ Holds(q, summaries, JJ)
  BY <1>3, <1>4
<1> HIDE DEF p, q, t, II, JJ
<1>9. /\ Placed(p)
      /\ \A k \in DOMAIN p : \E j \in DOMAIN comments : p[k] = comments[j] /\ ~CGone(j)
      /\ \A j \in DOMAIN comments : CGone(j) \/ comments[j].from \in Froms(p)
  BY <1>1, <1>8 DEF Holds
<1>10. /\ \A k \in DOMAIN q : \E j \in DOMAIN summaries : q[k] = summaries[j] /\ ~SGone(j)
       /\ \A j \in DOMAIN summaries : SGone(j) \/ summaries[j].from \in Froms(q)
  BY <1>1, <1>8 DEF Holds
<1> DEFINE r == q \o t
<1>11. r \in Seq(Surfaces) /\ Both(r, q, t) /\ Froms(r) = Froms(q) \cup Froms(t)
  BY <1>4, <1>7, Behind
<1> HIDE DEF r
<1>12. \A k \in DOMAIN r : \/ r[k].from = 0
                           \/ \E j \in DOMAIN summaries : r[k] = summaries[j] /\ ~SGone(j)
  <2> SUFFICES ASSUME NEW k \in DOMAIN r
               PROVE  r[k].from = 0 \/ \E j \in DOMAIN summaries : r[k] = summaries[j] /\ ~SGone(j)
    OBVIOUS
  <2>1. CASE \E i \in DOMAIN q : r[k] = q[i]
    BY <1>10, <2>1
  <2>2. CASE \E i \in DOMAIN t : r[k] = t[i]
    BY <1>7, <2>2
  <2> QED BY <1>11, <2>1, <2>2 DEF Both
<1>13. \A j \in DOMAIN summaries : SGone(j) \/ summaries[j].from \in Froms(r)
  BY <1>10, <1>11
<1>14. LeftComments = p /\ LeftSummaries = r
  BY <1>2 DEF r
<1> QED BY <1>3, <1>6, <1>9, <1>11, <1>12, <1>13, <1>14 DEF LeftIs, CGone, SGone

\* The final surfaces are some of those that are left, and the receipt names the rest.
LEMMA CompiledIs ==
  ASSUME FlowInv, Compile
  PROVE  /\ \A k \in DOMAIN comments' : \E j \in DOMAIN LeftComments : comments'[k] = LeftComments[j]
         /\ \A k \in DOMAIN summaries' : \E j \in DOMAIN LeftSummaries : summaries'[k] = LeftSummaries[j]
         /\ receipt'.status = "ok"
         /\ receipt'.removed = Froms(LeftComments \o LeftSummaries) \ Froms(comments' \o summaries')
         /\ comments' \in Seq(Surfaces) /\ summaries' \in Seq(Surfaces)
<1>1. pc = "compile" /\ LeftIs
  BY WhatIsLeft DEF Compile
<1> DEFINE cs == LeftComments
           ss == LeftSummaries
           os == AllObservations
<1>2. cs \in Seq(Surfaces) /\ Placed(cs) /\ ss \in Seq(Surfaces) /\ os \in Seq(Observations)
  BY <1>1 DEF LeftIs
<1>3. PICK graph \in ClaimGraphs :
        LET after == ReconcileSurfaces(graph, cs, ss)
        IN  IF ReceiptHolds(graph, cs, ss, os, after)
            THEN /\ comments' = after.comments /\ summaries' = after.summaries
                 /\ receipt' = [status |-> "ok",
                                removed |-> Froms(cs \o ss)
                                              \ Froms(after.comments \o after.summaries)]
            ELSE /\ comments' = << >> /\ summaries' = << >>
                 /\ receipt' = [status |-> "error", removed |-> {}]
  BY DEF Compile
<1>4. PICK threads, last : graph = Graph(os, cs, ss, threads, last)
  BY <1>3 DEF ClaimGraphs
<1> HIDE DEF cs, ss, os
<1> DEFINE after == ReconcileSurfaces(graph, cs, ss)
<1>5. /\ ReceiptHolds(graph, cs, ss, os, after) =>
           /\ comments' = after.comments /\ summaries' = after.summaries
           /\ receipt' = [status |-> "ok",
                          removed |-> Froms(cs \o ss) \ Froms(after.comments \o after.summaries)]
  BY <1>3
<1>6. graph = Graph(os, cs, ss, threads, last) /\ after = ReconcileSurfaces(graph, cs, ss)
  BY <1>4
<1> HIDE DEF after
<1>7. ReceiptHolds(graph, cs, ss, os, after)
  BY <1>2, <1>6, ReceiptExplains
<1>8. Reconciled(after, graph, cs, ss)
  BY <1>2, <1>6, ReconciledIs
<1>9. comments' = after.comments /\ summaries' = after.summaries
      /\ receipt'.status = "ok" /\ receipt'.removed = Froms(cs \o ss) \ Froms(comments' \o summaries')
  BY <1>5, <1>7
<1> QED BY <1>8, <1>9 DEF Reconciled, cs, ss

\* A resolved candidate takes its own comment or summary away: no other surface
\* stands for the same finding, and a follow-up's stands for none.
LEMMA CompileResolves ==
  ASSUME FlowInv, Compile
  PROVE  ResolvedStaysOut'
<1>1. /\ pc = "compile" /\ UNCHANGED <<raised, observations, dropped, candidates, outputs, away>>
  BY DEF Compile
<1>2. LeftIs
  BY <1>1, WhatIsLeft
<1>3. /\ comments \in Seq(Surfaces) /\ summaries \in Seq(Surfaces)
      /\ SurfacedOnce(comments, summaries)
      /\ Froms(comments) \cup Froms(summaries) \subseteq 1 .. Len(raised)
      /\ candidates = Candidates(comments, summaries) /\ away \subseteq DOMAIN candidates
  BY <1>1 DEF FlowInv, FlowTypes, Accounted, OnRecord, AwayKnown
<1>4. Recorded(candidates, comments, summaries)
  BY <1>3, CandidatesAre
<1>5. /\ \A k \in DOMAIN comments' : \E j \in DOMAIN comments :
            comments'[k] = comments[j] /\ ~\E i \in away : MatchesComment(candidates[i], comments[j])
      /\ \A k \in DOMAIN summaries' :
           \/ summaries'[k].from = 0
           \/ \E j \in DOMAIN summaries :
                /\ summaries'[k] = summaries[j]
                /\ ~\E i \in away : MatchesSummary(candidates[i], summaries[j])
  <2>1. \A k \in DOMAIN comments' : \E j \in DOMAIN LeftComments : comments'[k] = LeftComments[j]
    BY CompiledIs
  <2>2. \A k \in DOMAIN summaries' : \E j \in DOMAIN LeftSummaries : summaries'[k] = LeftSummaries[j]
    BY CompiledIs
  <2> DEFINE cs == LeftComments
             ss == LeftSummaries
  <2>3. \A k \in DOMAIN cs : \E j \in DOMAIN comments :
            cs[k] = comments[j] /\ ~\E i \in away : MatchesComment(candidates[i], comments[j])
    BY <1>2 DEF LeftIs
  <2>4. \A k \in DOMAIN ss :
           \/ ss[k].from = 0
           \/ \E j \in DOMAIN summaries :
                /\ ss[k] = summaries[j]
                /\ ~\E i \in away : MatchesSummary(candidates[i], summaries[j])
    BY <1>2 DEF LeftIs
  <2> HIDE DEF cs, ss
  <2>5. (\A k \in DOMAIN comments' : \E j \in DOMAIN cs : comments'[k] = cs[j])
        /\ (\A k \in DOMAIN summaries' : \E j \in DOMAIN ss : summaries'[k] = ss[j])
    BY <2>1, <2>2 DEF cs, ss
  <2>6. ASSUME NEW k \in DOMAIN comments'
        PROVE  \E j \in DOMAIN comments :
            comments'[k] = comments[j] /\ ~\E i \in away : MatchesComment(candidates[i], comments[j])
    BY <2>3, <2>5
  <2>7. ASSUME NEW k \in DOMAIN summaries'
        PROVE  \/ summaries'[k].from = 0
               \/ \E j \in DOMAIN summaries :
                    /\ summaries'[k] = summaries[j]
                    /\ ~\E i \in away : MatchesSummary(candidates[i], summaries[j])
    BY <2>4, <2>5
  <2> QED BY <2>6, <2>7
<1>6. ASSUME NEW i \in away, NEW k \in DOMAIN comments',
             comments'[k].from = candidates[i].surface.from
      PROVE  FALSE
  <2>1. PICK j \in DOMAIN comments : /\ comments'[k] = comments[j]
                                     /\ ~MatchesComment(candidates[i], comments[j])
    BY <1>5
  <2>2. i \in DOMAIN candidates
    BY <1>3
  <2>3. CASE candidates[i].kind = "inline" /\ \E m \in DOMAIN comments : candidates[i].surface = comments[m]
    <3>1. PICK m \in DOMAIN comments : candidates[i].surface = comments[m]
      BY <2>3
    <3>2. m = j
      BY <1>3, <1>6, <2>1, <3>1 DEF SurfacedOnce, Once
    <3> QED BY <2>1, <2>3, <3>1, <3>2 DEF MatchesComment
  <2>4. CASE candidates[i].kind = "summary" /\ \E m \in DOMAIN summaries : candidates[i].surface = summaries[m]
    <3>1. PICK m \in DOMAIN summaries : candidates[i].surface = summaries[m]
      BY <2>4
    <3>2. comments[j].from = summaries[m].from
      BY <1>6, <2>1, <3>1
    <3> QED BY <1>3, <3>2 DEF SurfacedOnce, Froms
  <2> QED BY <1>4, <2>2, <2>3, <2>4 DEF Recorded
<1>7. ASSUME NEW i \in away, NEW k \in DOMAIN summaries',
             summaries'[k].from = candidates[i].surface.from
      PROVE  FALSE
  <2>1. i \in DOMAIN candidates
    BY <1>3
  <2>2. CASE candidates[i].kind = "inline" /\ \E m \in DOMAIN comments : candidates[i].surface = comments[m]
    <3>1. PICK m \in DOMAIN comments : candidates[i].surface = comments[m]
      BY <2>2
    <3>2. comments[m].from \in Froms(comments) /\ summaries'[k].from = comments[m].from
      BY <1>7, <3>1 DEF Froms
    <3>3. comments[m].from # 0
      BY <1>3, <3>2
    <3>4. PICK j \in DOMAIN summaries : summaries'[k] = summaries[j]
      BY <1>5, <3>2, <3>3
    <3>5. comments[m].from \in Froms(summaries)
      BY <3>2, <3>4 DEF Froms
    <3> QED BY <1>3, <3>2, <3>5 DEF SurfacedOnce
  <2>3. CASE candidates[i].kind = "summary" /\ \E m \in DOMAIN summaries : candidates[i].surface = summaries[m]
    <3>1. PICK m \in DOMAIN summaries : candidates[i].surface = summaries[m]
      BY <2>3
    <3>2. summaries[m].from \in Froms(summaries) /\ summaries'[k].from = summaries[m].from
      BY <1>7, <3>1 DEF Froms
    <3>3. summaries[m].from # 0
      BY <1>3, <3>2
    <3>4. PICK j \in DOMAIN summaries : /\ summaries'[k] = summaries[j]
                                        /\ ~MatchesSummary(candidates[i], summaries[j])
      BY <1>5, <3>2, <3>3
    <3>5. j = m
      BY <1>3, <3>2, <3>4 DEF SurfacedOnce, Once
    <3> QED BY <2>3, <3>1, <3>4, <3>5 DEF MatchesSummary
  <2> QED BY <1>4, <2>1, <2>2, <2>3 DEF Recorded
<1>8. comments' \in Seq(Surfaces) /\ summaries' \in Seq(Surfaces)
  BY CompiledIs
<1>9. Froms(comments' \o summaries') = Froms(comments') \cup Froms(summaries')
  BY <1>8, Behind
<1>10. ASSUME NEW i \in away
       PROVE  candidates[i].surface.from \notin Froms(comments' \o summaries')
  BY <1>6, <1>7, <1>9 DEF Froms
<1> QED BY <1>1, <1>10 DEF ResolvedStaysOut

\* What is not on a final surface was resolved away or is in the receipt.
LEMMA CompileKeepsAll ==
  ASSUME FlowInv, Compile
  PROVE  NothingVanishes'
<1>1. /\ pc = "compile" /\ UNCHANGED <<raised, observations, dropped, candidates, outputs, away>>
  BY DEF Compile
<1>2. LeftIs
  BY <1>1, WhatIsLeft
<1>3. /\ comments \in Seq(Surfaces) /\ summaries \in Seq(Surfaces) /\ Placed(comments)
      /\ SurfacedOnce(comments, summaries) /\ raised \in Seq(Findings)
      /\ Nowhere(comments, summaries, observations, dropped, Len(raised)) = {}
      /\ candidates = Candidates(comments, summaries) /\ away \subseteq DOMAIN candidates
  BY <1>1 DEF FlowInv, FlowTypes, Accounted, OnRecord, AwayKnown, Apiece
<1>4. Recorded(candidates, comments, summaries)
  BY <1>3, CandidatesAre
<1>5. Gone' = Gone
  BY <1>1 DEF Gone
<1> DEFINE final == Froms(comments' \o summaries')
           removed == receipt'.removed
<1>6. /\ receipt'.status = "ok"
      /\ Froms(LeftComments) \cup Froms(LeftSummaries) \subseteq final \cup removed
  <2> DEFINE cs == LeftComments
             ss == LeftSummaries
  <2>1. cs \in Seq(Surfaces) /\ ss \in Seq(Surfaces)
    BY <1>2 DEF LeftIs
  <2>2. removed = Froms(cs \o ss) \ final /\ receipt'.status = "ok"
    BY CompiledIs
  <2> HIDE DEF cs, ss, final, removed
  <2>3. Froms(cs \o ss) = Froms(cs) \cup Froms(ss)
    BY <2>1, Behind
  <2> QED BY <2>2, <2>3 DEF cs, ss
<1> HIDE DEF final, removed
<1>7. ASSUME NEW j \in DOMAIN comments, NEW i \in away, MatchesComment(candidates[i], comments[j])
      PROVE  comments[j].from \in Gone
  <2>1. candidates[i].kind = "inline" /\ candidates[i].surface.at = comments[j].at
    BY <1>7 DEF MatchesComment
  <2>2. i \in DOMAIN candidates
    BY <1>3
  <2>3. PICK m \in DOMAIN comments : candidates[i].surface = comments[m]
    BY <1>4, <2>1, <2>2 DEF Recorded
  <2>4. m = j
    BY <1>3, <2>1, <2>3 DEF Placed
  <2>5. candidates[i] \in ToSet(candidates)
    BY <2>2 DEF ToSet
  <2> QED BY <2>3, <2>4, <2>5 DEF Gone
<1>8. ASSUME NEW j \in DOMAIN summaries, NEW i \in away, MatchesSummary(candidates[i], summaries[j])
      PROVE  summaries[j].from \in Gone
  <2> DEFINE s == summaries[j]
             x == candidates[i].surface
  <2>1. candidates[i].kind = "summary" /\ x.lane = s.lane /\ x.text = s.text
        /\ x.ev = s.ev /\ x.word = s.word
    BY <1>8 DEF MatchesSummary
  <2>2. i \in DOMAIN candidates
    BY <1>3
  <2>3. PICK m \in DOMAIN summaries : x = summaries[m]
    BY <1>4, <2>1, <2>2 DEF Recorded
  <2>4. x.at = NoPlace /\ s.at = NoPlace
    BY <1>3, <2>3 DEF SurfacedOnce, OffPlace
  <2>5. x \in Surfaces /\ s \in Surfaces
    BY <1>3, <2>3
  <2>6. PICK k \in DOMAIN candidates : candidates[k].kind = "summary" /\ candidates[k].surface = s
    BY <1>4 DEF Recorded
  <2> HIDE DEF s, x
  <2>7. Face(x) = Face(s)
    BY <2>1, <2>4, <2>5 DEF Face, Surfaces
  <2>8. candidates[k] \in ToSet(candidates)
    BY <2>6 DEF ToSet
  <2> QED BY <2>1, <2>6, <2>7, <2>8 DEF Gone, s, x
<1>9. ASSUME NEW n \in DOMAIN raised
      PROVE  n \in final \cup Froms(observations) \cup dropped \cup Gone \cup removed
  <2>1. n \in Froms(comments) \cup Froms(summaries) \cup Froms(observations) \cup dropped
    BY <1>3 DEF Nowhere
  <2>2. CASE n \in Froms(comments)
    <3>1. PICK j \in DOMAIN comments : n = comments[j].from
      BY <2>2 DEF Froms
    <3>2. \/ \E i \in away : MatchesComment(candidates[i], comments[j])
          \/ comments[j].from \in Froms(LeftComments)
      BY <1>2 DEF LeftIs
    <3> QED BY <1>6, <1>7, <3>1, <3>2
  <2>3. CASE n \in Froms(summaries)
    <3>1. PICK j \in DOMAIN summaries : n = summaries[j].from
      BY <2>3 DEF Froms
    <3>2. \/ \E i \in away : MatchesSummary(candidates[i], summaries[j])
          \/ summaries[j].from \in Froms(LeftSummaries)
      BY <1>2 DEF LeftIs
    <3> QED BY <1>6, <1>8, <3>1, <3>2
  <2> QED BY <2>1, <2>2, <2>3
<1>10. /\ raised' = raised /\ observations' = observations /\ dropped' = dropped
  BY <1>1
<1>11. /\ receipt'.status = "ok"
       /\ \A i \in DOMAIN raised' :
            i \in Froms(comments' \o summaries') \cup Froms(observations') \cup dropped'
                  \cup Gone' \cup receipt'.removed
  BY <1>5, <1>6, <1>9, <1>10 DEF final, removed
<1> QED BY <1>11 DEF NothingVanishes

\* The final compiler, whatever threads there are.
LEMMA CompileKeeps ==
  ASSUME FlowInv, Compile
  PROVE  FlowInv'
<1>1. /\ pc = "compile" /\ pc' = "done"
      /\ UNCHANGED <<raised, observations, dropped, candidates, outputs, away>>
  BY DEF Compile
<1>2. comments' \in Seq(Surfaces) /\ summaries' \in Seq(Surfaces)
  BY CompiledIs
<1>3. FlowTypes' /\ FlowOutputs'
  BY <1>1, <1>2 DEF FlowInv, FlowTypes, FlowOutputs
<1>4. Accounted' /\ NoneDropped' /\ Apiece' /\ OnRecord' /\ AwayKnown'
  BY <1>1 DEF Accounted, NoneDropped, Apiece, OnRecord, AwayKnown
<1>5. ResolvedStaysOut' /\ NothingVanishes'
  BY CompileResolves, CompileKeepsAll
<1> QED BY <1>3, <1>4, <1>5 DEF FlowInv

\* Every step of a run.
LEMMA FlowSteps ==
  ASSUME FlowInv, [FlowNext]_flowVars
  PROVE  FlowInv'
<1>1. ASSUME NEW o \in Offers, LaneRaises(o) \/ SensorRaises(o) PROVE FlowInv'
  BY <1>1, RaiseKeeps DEF LaneRaises, SensorRaises
<1>2. CASE Merge("lanes", "sensor")
  BY <1>2, MergeKeeps
<1>3. CASE Merge("sensor", "refuter")
  BY <1>3, MergeKeeps
<1>4. CASE Refute
  BY <1>4, RefuteKeeps
<1>5. CASE NoteConflicts
  BY <1>5, NoteConflictsKeeps
<1>6. CASE Record
  BY <1>6, RecordKeeps
<1>7. CASE Ask
  BY <1>7, AskKeeps
<1>8. CASE Resolve
  BY <1>8, ResolveKeeps
<1>9. CASE Compile
  BY <1>9, CompileKeeps
<1>10. CASE UNCHANGED flowVars
  BY <1>10 DEF flowVars, FlowInv, FlowTypes, FlowOutputs, Accounted, NoneDropped, Apiece, OnRecord,
       AwayKnown, ResolvedStaysOut, NothingVanishes, Gone
<1> QED BY <1>1, <1>2, <1>3, <1>4, <1>5, <1>6, <1>7, <1>8, <1>9, <1>10 DEF FlowNext

\* The invariant holds throughout a run.
LEMMA FlowInvariant == FlowSpec => []FlowInv
BY FlowStarts, FlowSteps, PTL DEF FlowSpec

\* A candidate that a follow-up or a prior run resolved to refuted or dropped
\* never comes back to a final surface (#314), whatever the lanes raise, the
\* refuter decides, the follow-ups answer and the claim graph holds.
THEOREM ResolvedAlwaysOut == FlowSpec => []ResolvedStaysOut
<1>1. FlowInv => ResolvedStaysOut
  BY DEF FlowInv
<1> QED BY <1>1, FlowInvariant, PTL

\* Nothing a lane or the sensor raised is lost between the lanes and the final
\* review, and the receipt of the reconciliation never refuses it.
THEOREM NothingEverVanishes == FlowSpec => []NothingVanishes
<1>1. FlowInv => NothingVanishes
  BY DEF FlowInv
<1> QED BY <1>1, FlowInvariant, PTL
================================================================================

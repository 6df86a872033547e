---------------------------- MODULE ReviewJobProofs ----------------------------
(***************************************************************************)
(* Proofs about ReviewJob, for any jobs, settings, facts and candidates.   *)
(* A job is an attempt of the gate as GateAttempts promises it; the        *)
(* outcome of any packet is truthful, by counting the sensors that owed    *)
(* evidence once on each side; and a follow-up is opened once, because a   *)
(* plan names a fingerprint once, an entry is asked for once, and nothing  *)
(* is asked for that the search has seen.                                  *)
(***************************************************************************)
EXTENDS ReviewJob, GateWatchdog, FiniteSetTheorems, WellFoundedInduction, TLAPS

Deciding == {"idle", "run", "planned", "decided"}
Decided  == {"recorded", "post", "entry", "create", "await", "check"}
Points   == Deciding \cup Decided \cup {"failing"} \cup Ended

\* Where a job stands says what it has recorded: nothing yet, a verdict, or a
\* torn file behind which only failure is left.
PacketInv ==
  /\ pc \in [Jobs -> Points]
  /\ packet \in [Jobs -> Verdicts \cup {"none", "torn"}]
  /\ \A j \in Jobs : pc[j] \in Deciding => packet[j] = "none"
  /\ \A j \in Jobs : pc[j] \in Decided => packet[j] \in Verdicts
  /\ \A j \in Jobs : pc[j] = "green" => packet[j] \in Verdicts

LEMMA ConclusionIsVerdict ==
  ASSUME NEW f, NEW c
  PROVE  Conclusion(f, c) \in Verdicts
BY DEF Conclusion, Verdicts

\* A step of a job moves that job alone, along these edges.
LEMMA StepMoves ==
  ASSUME PacketInv, NEW j \in Jobs, Step(j)
  PROVE  /\ UNCHANGED conf
         /\ \E to \in Points : pc' = [pc EXCEPT ![j] = to]
         /\ pc[j] \notin Ended
         /\ \/ /\ UNCHANGED packet
               /\ pc[j] = "idle" <=> pc'[j] = "run"
               /\ pc'[j] # "idle"
               /\ pc'[j] \in Deciding => pc[j] \in Deciding
               /\ pc'[j] \in Decided => pc[j] \in Decided
               /\ pc'[j] = "green" => pc[j] = "check" /\ Green(j)
            \/ /\ pc[j] = "decided"
               /\ \/ pc'[j] = "recorded" /\ \E v \in Verdicts : packet' = [packet EXCEPT ![j] = v]
                  \/ pc'[j] = "failing" /\ packet' = [packet EXCEPT ![j] = "torn"]
<1> USE DEF PacketInv, Goto, NextEntry, Points, Deciding, Decided, Ended, run, hub
<1>1. CASE Start(j)
  BY <1>1 DEF Start
<1>2. CASE PlanIssues(j)
  BY <1>2 DEF PlanIssues
<1>3. CASE Decide(j)
  BY <1>3 DEF Decide
<1>4. CASE Record(j)
  BY <1>4, ConclusionIsVerdict DEF Record
<1>5. CASE FinishRun(j)
  BY <1>5 DEF FinishRun
<1>6. CASE FailRun(j)
  BY <1>6 DEF FailRun
<1>7. CASE PostReview(j)
  BY <1>7 DEF PostReview
<1>8. CASE PassOver(j)
  BY <1>8 DEF PassOver, AtEntry
<1>9. CASE Search(j)
  BY <1>9 DEF Search, AtEntry
<1>10. CASE Create(j)
  BY <1>10 DEF Create
<1>11. CASE Answered(j)
  BY <1>11 DEF Answered
<1>12. CASE LeaveBroker(j)
  BY <1>12 DEF LeaveBroker
<1>13. CASE Check(j)
  BY <1>13 DEF Check
<1>14. CASE Kill(j)
  BY <1>14 DEF Kill
<1> QED
  BY <1>1, <1>2, <1>3, <1>4, <1>5, <1>6, <1>7, <1>8, <1>9, <1>10, <1>11, <1>12, <1>13, <1>14
  DEF Step

LEMMA PacketInitially == Init => PacketInv
BY DEF Init, PacketInv, Points, Deciding, Decided, Ended

LEMMA PacketInductive ==
  ASSUME PacketInv, [Next]_vars
  PROVE  PacketInv'
<1>1. ASSUME NEW j \in Jobs, Step(j) PROVE PacketInv'
  BY <1>1, StepMoves DEF PacketInv, Points, Deciding, Decided, Ended, Verdicts
<1>2. CASE Hub
  BY <1>2 DEF Hub, run, PacketInv
<1>3. CASE UNCHANGED vars
  BY <1>3 DEF vars, PacketInv
<1> QED BY <1>1, <1>2, <1>3 DEF Next

LEMMA PacketInvariant == Spec => []PacketInv
BY PacketInitially, PacketInductive, PTL DEF Spec

--------------------------------------------------------------------------------
\* The job's points, as phases of an attempt.
LEMMA Phases ==
  /\ phaseOf("idle") = "none" /\ phaseOf("green") = "success"
  /\ phaseOf("red") = "failure" /\ phaseOf("cancelled") = "cancelled"
  /\ \A at \in Points \ ({"idle"} \cup Ended) : phaseOf(at) = "working"
BY DEF phaseOf, Points, Deciding, Decided, Ended

\* One step of a job is one step of its attempt, or none.
LEMMA StepRefines ==
  ASSUME PacketInv, NEW j \in Jobs, Step(j)
  PROVE  [Promise!AttemptNext]_(Promise!attempts)
<1> DEFINE reached     == [k \in Jobs |-> phaseOf(pc[k])]
           nextReached == [k \in Jobs |-> phaseOf(pc'[k])]
           held        == [k \in Jobs |-> Enforced(conf[k])]
           heldn       == [k \in Jobs |-> Enforced(conf'[k])]
<1>1. held = heldn
  BY StepMoves
<1>2. PICK to \in Points : pc' = [pc EXCEPT ![j] = to]
  BY StepMoves
<1>3. pc[j] \in Points /\ pc'[j] = to /\ nextReached = [reached EXCEPT ![j] = phaseOf(to)]
      /\ reached[j] = phaseOf(pc[j])
  BY <1>2 DEF PacketInv
<1> HIDE DEF reached, nextReached, held, heldn
<1>4. reached \in [Jobs -> {phaseOf(at) : at \in Points}] /\ DOMAIN reached = Jobs
  BY DEF reached, PacketInv
<1>5. CASE pc[j] = "idle"
  <2>1. to = "run" /\ UNCHANGED packet
    BY <1>3, <1>5, StepMoves DEF Points, Deciding, Decided, Ended
  <2>2. reached[j] = "none" /\ nextReached = [reached EXCEPT ![j] = "working"]
    BY <1>3, <1>5, <2>1, Phases DEF Points, Deciding, Decided, Ended
  <2>3. Promise!StartAttempt(j)
    BY <1>1, <2>1, <2>2 DEF Promise!StartAttempt, reached, nextReached, held, heldn
  <2> QED BY <2>3 DEF Promise!AttemptNext
<1>6. CASE pc[j] = "decided" /\ ~UNCHANGED packet
  <2>1. /\ to \in {"recorded", "failing"}
        /\ \E v \in Verdicts \cup {"torn"} : packet' = [packet EXCEPT ![j] = v]
    BY <1>3, <1>6, StepMoves
  <2>2. reached[j] = "working" /\ nextReached = reached
    BY <1>3, <1>4, <1>6, <2>1, Phases DEF Points, Deciding, Decided, Ended
  <2>3. packet[j] = "none"
    BY <1>6 DEF PacketInv, Deciding
  <2>4. Verdicts = Promise!Outcomes
    BY DEF Verdicts, Promise!Outcomes
  <2>5. Promise!RecordOutcome(j)
    BY <1>1, <2>1, <2>2, <2>3, <2>4 DEF Promise!RecordOutcome, reached, nextReached, held, heldn
  <2> QED BY <2>5 DEF Promise!AttemptNext
<1>7. CASE pc[j] # "idle" /\ UNCHANGED packet
  <2>1. reached[j] = "working" /\ to # "idle"
    BY <1>3, <1>7, StepMoves, Phases DEF Points, Deciding, Decided, Ended
  <2>2. CASE to \notin Ended
    <3>1. nextReached = reached
      BY <1>3, <1>4, <2>1, <2>2, Phases
    <3> QED BY <1>1, <1>7, <3>1 DEF Promise!attempts, reached, nextReached, held, heldn
  <2>3. CASE to \in {"red", "cancelled"}
    <3>1. nextReached = [reached EXCEPT ![j] = "failure"] \/ nextReached = [reached EXCEPT ![j] = "cancelled"]
      BY <1>3, <2>3, Phases
    <3>2. Promise!EndAttempt(j)
      BY <1>1, <1>7, <2>1, <3>1 DEF Promise!EndAttempt, reached, nextReached, held, heldn
    <3> QED BY <3>2 DEF Promise!AttemptNext
  <2>4. CASE to = "green"
    <3>1. pc[j] = "check" /\ Green(j)
      BY <1>3, <1>7, <2>4, StepMoves
    <3>2. packet[j] \in Verdicts
      BY <3>1 DEF PacketInv, Decided
    <3>3. held[j] => packet[j] = "pass"
      BY <3>1 DEF Green, held
    <3>4. nextReached = [reached EXCEPT ![j] = "success"]
      BY <1>3, <2>4, Phases
    <3>5. Promise!MayBeGreen(j)
      BY <3>2, <3>3 DEF Promise!MayBeGreen, Promise!Outcomes, Verdicts, held
    <3>6. Promise!EndAttempt(j)
      BY <1>1, <1>7, <2>1, <3>4, <3>5 DEF Promise!EndAttempt, reached, nextReached, held, heldn
    <3> QED BY <3>6 DEF Promise!AttemptNext
  <2> QED BY <2>2, <2>3, <2>4 DEF Ended
<1>8. \/ pc[j] = "idle"
      \/ pc[j] = "decided" /\ ~UNCHANGED packet
      \/ pc[j] # "idle" /\ UNCHANGED packet
  BY StepMoves
<1> QED BY <1>5, <1>6, <1>7, <1>8

\* A job keeps the promise of an attempt: enforced, it is green only with the
\* verdict "pass" on disk, whatever the packet held and whatever failed.
THEOREM JobsKeepPromise == Spec => KeepsPromise
<1>1. Init => Promise!AttemptInit
  <2> SUFFICES ASSUME Init PROVE Promise!AttemptInit
    OBVIOUS
  <2>1. [j \in Jobs |-> phaseOf(pc[j])] = [j \in Jobs |-> "none"]
    BY Phases DEF Init
  <2>2. \A j \in Jobs : Enforced(conf[j]) \in BOOLEAN
    BY DEF Enforced
  <2> QED BY <2>1, <2>2 DEF Init, Promise!AttemptInit
<1>2. ASSUME PacketInv, [Next]_vars PROVE [Promise!AttemptNext]_(Promise!attempts)
  <2>1. CASE Hub \/ UNCHANGED vars
    BY <2>1 DEF Hub, run, vars, Promise!attempts
  <2> QED BY <1>2, <2>1, StepRefines DEF Next
<1> QED BY <1>1, <1>2, PacketInvariant, PTL DEF Spec, KeepsPromise, Promise!AttemptSpec

--------------------------------------------------------------------------------
LEMMA LeastExists ==
  ASSUME NEW I \in SUBSET Nat, I # {}
  PROVE  Min(I) \in I /\ \A k \in I : Min(I) <= k
<1> DEFINE R == {ss \in Nat \X Nat : ss[1] < ss[2]}
<1>1. IsWellFoundedOn(R, Nat)
  BY NatLessThanWellFounded, Zenon DEF OpToRel
<1>2. \A i, k \in Nat : <<k, i>> \in R <=> k < i
  BY Zenon
<1> HIDE DEF R
<1>3. PICK i \in I : \A k \in I : ~(<<k, i>> \in R)
  BY <1>1, WFMin
<1>4. ASSUME NEW k \in I PROVE i <= k
  <2>1. i \in Nat /\ k \in Nat
    OBVIOUS
  <2>2. ~(k < i)
    BY <1>2, <1>3, <2>1, Zenon
  <2> QED BY <2>1, <2>2
<1> QED BY <1>4 DEF Min

\* The first receipt that names a request answers it.
LEMMA Answers ==
  ASSUME NEW f, NEW q, f.receipts \in Seq(ToSet(f.receipts)),
         \A r \in ToSet(f.receipts) : q \in r.requests => Class(r) = "Skipped"
  PROVE  ProofOf(f, q) = "Skipped"
<1> DEFINE I == {i \in 1 .. Len(f.receipts) : q \in f.receipts[i].requests}
<1>1. ProofOf(f, q) = IF (IF I # {} THEN Min(I) ELSE 0) = 0 THEN "Skipped"
                      ELSE Class(f.receipts[IF I # {} THEN Min(I) ELSE 0])
  BY DEF ProofOf, SelectInSeq
<1>2. I \in SUBSET Nat /\ 0 \notin I
  OBVIOUS
<1>3. ASSUME NEW i \in I PROVE Class(f.receipts[i]) = "Skipped"
  BY DEF ToSet
<1> HIDE DEF I
<1> QED BY <1>1, <1>2, <1>3, LeastExists

\* The sensors that owed evidence fall into those that gave it and those that did not.
Gave(f) == {s \in Owed(f) : ~HasIssue(f, s)}
Kept(f) == {s \in Owed(f) : HasIssue(f, s)}

LEMMA DisjointUnion ==
  ASSUME NEW S, NEW T, NEW U, IsFiniteSet(U), U = S \cup T, S \cap T = {}
  PROVE  /\ IsFiniteSet(S) /\ IsFiniteSet(T)
         /\ Cardinality(S) \in Nat /\ Cardinality(T) \in Nat
         /\ Cardinality(U) = Cardinality(S) + Cardinality(T)
<1>1. IsFiniteSet(S) /\ IsFiniteSet(T)
  BY FS_Subset
<1>2. Cardinality(S) \in Nat /\ Cardinality(T) \in Nat
  BY <1>1, FS_CardinalityType
<1>3. Cardinality(U) = Cardinality(S) + Cardinality(T) - 0
  BY <1>1, FS_Union, FS_EmptySet
<1> QED BY <1>1, <1>2, <1>3

\* The account of the sensors, whose parts are counted apart.
LEMMA Account ==
  ASSUME NEW f, IsFiniteSet(DOMAIN f.sensors), \A s \in DOMAIN f.sensors : f.sensors[s].required \in BOOLEAN
  PROVE  /\ IsFiniteSet(Owed(f)) /\ Total(Coverage(f)) = Cardinality(Owed(f))
         /\ Completed(Coverage(f)) = Cardinality(Gave(f))
         /\ LostOf(Coverage(f)) = Cardinality(Kept(f))
<1> DEFINE R  == {s \in Owed(f) : f.sensors[s].required}
           O  == {s \in Owed(f) : ~f.sensors[s].required}
           RG == {s \in Owed(f) : f.sensors[s].required /\ ~HasIssue(f, s)}
           OG == {s \in Owed(f) : ~f.sensors[s].required /\ ~HasIssue(f, s)}
           F  == {s \in Owed(f) : HasIssue(f, s) /\ Bucket(f.sensors[s].issue) = "failed"}
           T  == {s \in Owed(f) : HasIssue(f, s) /\ Bucket(f.sensors[s].issue) = "timed_out"}
           K  == {s \in Owed(f) : HasIssue(f, s) /\ Bucket(f.sensors[s].issue) = "skipped"}
<1>1. Coverage(f) = [required_total |-> Cardinality(R), required_completed |-> Cardinality(RG),
                     optional_total |-> Cardinality(O), optional_completed |-> Cardinality(OG),
                     failed |-> Cardinality(F), timed_out |-> Cardinality(T), skipped |-> Cardinality(K)]
  BY Zenon DEF Coverage
<1>2. Owed(f) \in SUBSET DOMAIN f.sensors
  BY DEF Owed
<1>3. IsFiniteSet(Owed(f))
  BY <1>2, FS_Subset
<1>4. IsFiniteSet(Gave(f)) /\ IsFiniteSet(Kept(f)) /\ IsFiniteSet(T \cup K)
  <2>1. Gave(f) \subseteq Owed(f) /\ Kept(f) \subseteq Owed(f) /\ T \cup K \subseteq Owed(f)
    BY DEF Gave, Kept
  <2> HIDE DEF T, K
  <2> QED BY <2>1, <1>3, FS_Subset
<1>5. Owed(f) = R \cup O /\ R \cap O = {}
  OBVIOUS
<1>6. Gave(f) = RG \cup OG /\ RG \cap OG = {}
  BY DEF Gave
<1>7. Kept(f) = F \cup (T \cup K) /\ F \cap (T \cup K) = {} /\ T \cap K = {}
  BY DEF Kept, Bucket
<1> HIDE DEF R, O, RG, OG, F, T, K
<1>8. Cardinality(Owed(f)) = Cardinality(R) + Cardinality(O)
  BY <1>3, <1>5, DisjointUnion
<1>9. Cardinality(Gave(f)) = Cardinality(RG) + Cardinality(OG)
  BY <1>4, <1>6, DisjointUnion
<1>10. /\ Cardinality(Kept(f)) = Cardinality(F) + Cardinality(T \cup K)
       /\ Cardinality(F) \in Nat /\ IsFiniteSet(T \cup K)
  BY <1>4, <1>7, DisjointUnion
<1>11. /\ Cardinality(T \cup K) = Cardinality(T) + Cardinality(K)
       /\ Cardinality(T) \in Nat /\ Cardinality(K) \in Nat
  BY <1>4, <1>7, DisjointUnion
<1> QED BY <1>1, <1>3, <1>8, <1>9, <1>10, <1>11 DEF Total, Completed, LostOf

\* What nothing answered is always among the doubts.
LEMMA DoubtTold ==
  ASSUME NEW j \in Jobs, NEW f \in Facts[j], NEW c, Unanswered(f, c)
  PROVE  Doubts(f, c) # {}
<1> DEFINE v == Coverage(f)
<1>1. Doubts(f, c) = {} =>
         /\ Status(f, c) # "failed-to-review" /\ RequiredUnreported(f) = {}
         /\ ProofsThat(f, "Skipped") = {} /\ Unproven(f) = {}
         /\ ~(f.lanes.total > 0 /\ f.lanes.usable = 0)
         /\ ~(Total(v) > 0 /\ Completed(v) = 0)
  BY DEF Doubts
<1> SUFFICES ASSUME Doubts(f, c) = {} PROVE FALSE
  OBVIOUS
<1>2. ASSUME NEW s \in DOMAIN f.sensors, f.sensors[s].required,
             f.sensors[s].issue \in {"no_verdict", "timed_out", "missing"}
      PROVE  FALSE
  BY <1>1, <1>2 DEF RequiredUnreported, RequiredSensors, HasIssue, Demonstrated
<1>3. ASSUME NEW q \in f.required, ~\E r \in ToSet(f.receipts) : q \in r.requests /\ Class(r) # "Skipped"
      PROVE  FALSE
  <2>1. ProofOf(f, q) = "Skipped"
    BY <1>3, Answers, PacketsAssumption
  <2> QED BY <1>1, <2>1 DEF ProofsThat
<1>4. ASSUME Owed(f) # {}, \A s \in Owed(f) : HasIssue(f, s) PROVE FALSE
  <2>1. Gave(f) = {}
    BY <1>4 DEF Gave
  <2>2. /\ IsFiniteSet(Owed(f)) /\ Total(v) = Cardinality(Owed(f))
        /\ Completed(v) = Cardinality(Gave(f))
    BY Account, PacketsAssumption
  <2>3. Total(v) \in Nat /\ Total(v) # 0 /\ Completed(v) = 0
    BY <1>4, <2>1, <2>2, FS_CardinalityType, FS_EmptySet
  <2> QED BY <1>1, <2>3
<1> QED BY <1>1, <1>2, <1>3, <1>4 DEF Unanswered

LEMMA AnyPacketTruthful ==
  ASSUME NEW j \in Jobs, NEW f \in Facts[j], NEW c
  PROVE  Truthful(f, c)
<1> DEFINE v == Coverage(f)
<1>1. Total(v) - Completed(v) = LostOf(v)
  <2>1. /\ IsFiniteSet(Owed(f)) /\ Total(v) = Cardinality(Owed(f))
        /\ Completed(v) = Cardinality(Gave(f)) /\ LostOf(v) = Cardinality(Kept(f))
    BY Account, PacketsAssumption
  <2>2. Owed(f) = Gave(f) \cup Kept(f) /\ Gave(f) \cap Kept(f) = {}
    BY DEF Gave, Kept
  <2>3. /\ Cardinality(Gave(f)) \in Nat /\ Cardinality(Kept(f)) \in Nat
        /\ Cardinality(Owed(f)) = Cardinality(Gave(f)) + Cardinality(Kept(f))
    BY <2>1, <2>2, DisjointUnion
  <2> HIDE DEF v
  <2> QED BY <2>1, <2>3
<1>2. LostOf(v) > 0 => Analysis(f, c) # "clean"
  BY DEF Analysis, Limited
<1>3. Unanswered(f, c) => Analysis(f, c) \in {"findings", "not_proven"}
  BY DoubtTold DEF Analysis
<1>4. \/ Unanswered(f, c) \/ Analysis(f, c) = "not_proven"
      \/ Publication(f, c) = "not_proven" \/ GateResult(f, c) = "not_proven"
      => NotProven(f, c) # {}
  <2>1. Analysis(f, c) = "not_proven" => Doubts(f, c) # {}
    BY DEF Analysis
  <2>2. Publication(f, c) = "not_proven" => Unpublished(f, c)
    BY DEF Unpublished
  <2> QED BY DoubtTold, <2>1, <2>2 DEF NotProven
<1>5. Material(f) /\ ~f.prepared => Unpublished(f, c)
  BY DEF Unpublished, Publication
<1>6. Unpublished(f, c) => GateResult(f, c) = "not_proven"
  BY DEF GateResult
<1>7. ASSUME GateResult(f, c) = "pass"
      PROVE  /\ Conclusion(f, c) = "pass" /\ ~Deterministic(f, c)
             /\ ~Unpublished(f, c) /\ Analysis(f, c) # "not_proven"
  BY <1>7 DEF GateResult, Conclusion
<1>8. ASSUME ~Deterministic(f, c) PROVE ~Defect(f, c)
  <2>1. Reasons(f, c) \subseteq EvidenceUnavailable /\ RequiredFailed(f) = {} /\ ProofsThat(f, "Failed") = {}
    BY <1>8 DEF Deterministic
  <2>2. "policy" \notin Reasons(f, c) /\ "tool-gate" \notin Reasons(f, c)
    BY <2>1 DEF EvidenceUnavailable
  <2>3. ~f.policyErrors
    BY <2>2 DEF Reasons
  <2>4. ~\E t \in DOMAIN f.tools : f.tools[t].outcome = "failed"
    BY <2>2 DEF Reasons
  <2>5. ~\E s \in DOMAIN f.sensors : f.sensors[s].required /\ f.sensors[s].issue = "finding"
    BY <2>1 DEF RequiredFailed, RequiredSensors, Demonstrated
  <2> QED BY <2>1, <2>3, <2>4, <2>5 DEF Defect
<1>9. ASSUME GateResult(f, c) = "pass", Unanswered(f, c) PROVE Material(f) /\ f.prepared
  <2>1. Material(f)
    BY <1>3, <1>7, <1>9 DEF Analysis
  <2> QED BY <1>5, <1>7, <1>9, <2>1
<1> HIDE DEF v
<1> QED BY <1>1, <1>2, <1>3, <1>4, <1>5, <1>6, <1>7, <1>8, <1>9 DEF Truthful, v

\* What a deciding job holds is a packet its run could have found.
FactsInv ==
  /\ pc = [j \in Jobs |-> pc[j]] /\ facts = [j \in Jobs |-> facts[j]]
  /\ \A j \in Jobs : pc[j] = "decided" => facts[j] \in Facts[j]

LEMMA FactsInductive ==
  ASSUME FactsInv, [Next]_vars
  PROVE  FactsInv'
<1> USE DEF FactsInv, Goto, NextEntry, run, hub
<1>1. ASSUME NEW j \in Jobs, Step(j) PROVE FactsInv'
  <2>1. CASE Start(j)
    BY <2>1 DEF Start
  <2>2. CASE PlanIssues(j)
    BY <2>2 DEF PlanIssues
  <2>3. CASE Decide(j)
    BY <2>3 DEF Decide
  <2>4. CASE Record(j)
    BY <2>4 DEF Record
  <2>5. CASE FinishRun(j)
    BY <2>5 DEF FinishRun
  <2>6. CASE FailRun(j)
    BY <2>6 DEF FailRun
  <2>7. CASE PostReview(j)
    BY <2>7 DEF PostReview
  <2>8. CASE PassOver(j)
    BY <2>8 DEF PassOver
  <2>9. CASE Search(j)
    BY <2>9 DEF Search
  <2>10. CASE Create(j)
    BY <2>10 DEF Create
  <2>11. CASE Answered(j)
    BY <2>11 DEF Answered
  <2>12. CASE LeaveBroker(j)
    BY <2>12 DEF LeaveBroker
  <2>13. CASE Check(j)
    BY <2>13 DEF Check
  <2>14. CASE Kill(j)
    BY <2>14 DEF Kill
  <2> QED
    BY <1>1, <2>1, <2>2, <2>3, <2>4, <2>5, <2>6, <2>7, <2>8, <2>9, <2>10, <2>11, <2>12, <2>13, <2>14
    DEF Step
<1>2. CASE Hub
  BY <1>2 DEF Hub
<1>3. CASE UNCHANGED vars
  BY <1>3 DEF vars
<1> QED BY <1>1, <1>2, <1>3 DEF Next

\* #839: whatever the packet holds and however strict the run is, the gate's
\* account of the sensors balances, what nothing answered is told, and a pass
\* hides neither a defect nor a finding that was not published.
THEOREM OutcomeAlwaysTruthful == Spec => []TruthfulOutcome
<1>1. Init => FactsInv
  BY DEF Init, FactsInv
<1>2. FactsInv => TruthfulOutcome
  BY AnyPacketTruthful DEF FactsInv, TruthfulOutcome
<1> QED BY <1>1, <1>2, FactsInductive, PTL DEF Spec

--------------------------------------------------------------------------------
\* The place of i in the order of S.
Rank(S, i) == Cardinality({k \in S : k < i})

LEMMA RankOrders ==
  ASSUME NEW S \in SUBSET Nat, IsFiniteSet(S), NEW i \in S, NEW k \in Nat, i < k
  PROVE  Rank(S, i) \in Nat /\ Rank(S, k) \in Nat /\ Rank(S, i) < Rank(S, k)
<1> DEFINE B == {x \in S : x < i}
           A == {x \in S : x < k}
<1>0. i \in Nat /\ \A x \in S : x \in Nat
  OBVIOUS
<1>1. B \cup {i} \subseteq A /\ i \notin B /\ A \subseteq S /\ B \subseteq S
  <2>1. \A x \in S : x < i => x < k
    BY <1>0
  <2>2. ~(i < i)
    BY <1>0
  <2> QED BY <2>1, <2>2, Zenon
<1>2. A = {x \in S : x < k} /\ B = {x \in S : x < i}
  OBVIOUS
<1> HIDE DEF A, B
<1>3. IsFiniteSet(A) /\ IsFiniteSet(B)
  BY <1>1, FS_Subset
<1>4. Cardinality(B \cup {i}) <= Cardinality(A)
  BY <1>1, <1>3, FS_Subset
<1>5. Cardinality(B \cup {i}) = Cardinality(B) + 1
  BY <1>1, <1>3, FS_AddElement
<1>6. Cardinality(A) \in Nat /\ Cardinality(B) \in Nat
  BY <1>3, FS_CardinalityType
<1> QED BY <1>2, <1>4, <1>5, <1>6 DEF Rank

LEMMA RankBounded ==
  ASSUME NEW S \in SUBSET Nat, IsFiniteSet(S), NEW i \in S
  PROVE  Rank(S, i) \in Nat /\ Rank(S, i) < Cardinality(S)
<1> DEFINE B == {x \in S : x < i}
<1>1. B \subseteq S /\ i \notin B
  OBVIOUS
<1>2. B = {x \in S : x < i}
  OBVIOUS
<1> HIDE DEF B
<1>3. IsFiniteSet(B) /\ Cardinality(B) <= Cardinality(S) /\ Cardinality(B) # Cardinality(S)
  BY <1>1, FS_Subset
<1> QED BY <1>2, <1>3, FS_CardinalityType DEF Rank

LEMMA OrderExists ==
  ASSUME NEW S \in SUBSET Nat, IsFiniteSet(S)
  PROVE  /\ InOrder(S) \in [1 .. Cardinality(S) -> S]
         /\ \A a, b \in 1 .. Cardinality(S) : a < b => InOrder(S)[a] < InOrder(S)[b]
<1> DEFINE n == Cardinality(S)
           f == [i \in S |-> Rank(S, i) + 1]
           o == [a \in 1 .. n |-> CHOOSE i \in S : f[i] = a]
<1>0. n \in Nat
  BY FS_CardinalityType
<1>1. f \in Injection(S, 1 .. n)
  <2>1. f \in [S -> 1 .. n]
    BY <1>0, RankBounded
  <2>2. ASSUME NEW i \in S, NEW k \in S, f[i] = f[k] PROVE i = k
    <3>1. i \in Nat /\ k \in Nat /\ Rank(S, i) \in Nat /\ Rank(S, k) \in Nat
      BY RankBounded
    <3>2. Rank(S, i) = Rank(S, k)
      BY <2>2, <3>1
    <3>3. ~(i < k) /\ ~(k < i)
      BY <3>1, <3>2, RankOrders
    <3> QED BY <3>1, <3>3
  <2> HIDE DEF f
  <2> QED BY <2>1, <2>2 DEF Injection, IsInjective
<1>2. IsFiniteSet(1 .. n) /\ Cardinality(1 .. n) = n
  BY <1>0, FS_Interval
<1>3. f \in Surjection(S, 1 .. n)
  <2> HIDE DEF f
  <2> QED BY <1>1, <1>2, FS_Injection
<1>4. \A a \in 1 .. n : o[a] \in S /\ f[o[a]] = a
  <2>1. \A a \in 1 .. n : \E i \in S : f[i] = a
    BY <1>3 DEF Surjection
  <2> HIDE DEF f
  <2> QED BY <2>1
<1>5. ASSUME NEW a \in 1 .. n, NEW b \in 1 .. n, a < b PROVE o[a] < o[b]
  <2>1. o[a] \in S /\ o[b] \in S /\ f[o[a]] = a /\ f[o[b]] = b
    BY <1>4
  <2> HIDE DEF o
  <2>2. Rank(S, o[a]) + 1 = a /\ Rank(S, o[b]) + 1 = b
    BY <2>1
  <2>3. o[a] \in Nat /\ o[b] \in Nat /\ Rank(S, o[a]) \in Nat /\ Rank(S, o[b]) \in Nat
    BY <2>1, RankBounded
  <2>4. ~(o[b] < o[a])
    BY <1>5, <2>1, <2>2, <2>3, RankOrders
  <2> QED BY <1>5, <2>2, <2>3, <2>4
<1>6. o \in [1 .. n -> S] /\ \A a, b \in DOMAIN o : a < b => o[a] < o[b]
  BY <1>4, <1>5
<1> HIDE DEF o, f
<1>7. \E p \in [1 .. n -> S] : \A a, b \in DOMAIN p : a < b => p[a] < p[b]
  BY <1>6
<1> QED BY <1>7 DEF InOrder

--------------------------------------------------------------------------------
\* The fingerprints a plan would open.
Asks(p) == {p[n].fp : n \in {m \in DOMAIN p : p[m].decision = "attempt"}}

PlanSound(p) ==
  /\ \A m, n \in DOMAIN p : p[m].fp = p[n].fp => m = n
  /\ \A n \in DOMAIN p : p[n].decision = "attempt" => p[n].target \in OpenIn
  /\ IsFiniteSet(Asks(p)) /\ Cardinality(Asks(p)) <= OpenCap

LEMMA CapHolds ==
  ASSUME NEW cands \in CandidateLists
  PROVE  IsFiniteSet(MayAttempt(cands)) /\ Cardinality(MayAttempt(cands)) <= OpenCap
<1> DEFINE A == Allowed(cands)
           M == MayAttempt(cands)
           f == [i \in M |-> Rank(A, i) + 1]
<1>1. DOMAIN cands = 1 .. Len(cands) /\ Len(cands) \in Nat
  BY CandidatesAssumption
<1>2. IsFiniteSet(A) /\ A \in SUBSET Nat
  <2>1. A \subseteq 1 .. Len(cands)
    BY <1>1 DEF Allowed, Suggested
  <2>2. IsFiniteSet(1 .. Len(cands))
    BY <1>1, FS_Interval
  <2> QED BY <2>1, <2>2, FS_Subset
<1>3. M \subseteq A /\ \A i \in M : Rank(A, i) < OpenCap
  BY DEF MayAttempt, Rank
<1> HIDE DEF A, M
<1>4. f \in Injection(M, 1 .. OpenCap)
  <2>1. f \in [M -> 1 .. OpenCap]
    BY <1>2, <1>3, RankBounded, BrokerAssumption
  <2>2. ASSUME NEW i \in M, NEW k \in M, f[i] = f[k] PROVE i = k
    <3>1. i \in A /\ k \in A /\ i \in Nat /\ k \in Nat /\ Rank(A, i) \in Nat /\ Rank(A, k) \in Nat
      BY <1>2, <1>3, RankBounded
    <3>2. Rank(A, i) = Rank(A, k)
      BY <2>2, <3>1
    <3>3. ~(i < k) /\ ~(k < i)
      BY <1>2, <3>1, <3>2, RankOrders
    <3> QED BY <3>1, <3>3
  <2> HIDE DEF f
  <2> QED BY <2>1, <2>2 DEF Injection, IsInjective
<1> HIDE DEF f
<1>5. IsFiniteSet(1 .. OpenCap) /\ Cardinality(1 .. OpenCap) = OpenCap
  BY BrokerAssumption, FS_Interval
<1>6. IsFiniteSet(M) /\ Cardinality(M) <= OpenCap
  BY <1>4, <1>5, FS_Injection
<1> QED BY <1>6 DEF M

LEMMA BrokerPlanSound ==
  ASSUME NEW cands \in CandidateLists
  PROVE  /\ PlanSound(BrokerPlan(cands))
         /\ DOMAIN BrokerPlan(cands) = 1 .. Cardinality(Suggested(cands))
         /\ Cardinality(Suggested(cands)) \in Nat
<1> DEFINE S == Suggested(cands)
           p == BrokerPlan(cands)
           o == InOrder(S)
<1>1. DOMAIN cands = 1 .. Len(cands) /\ Len(cands) \in Nat
  BY CandidatesAssumption
<1>2. IsFiniteSet(S) /\ S \in SUBSET Nat /\ S \subseteq DOMAIN cands
  <2>1. S \subseteq 1 .. Len(cands)
    BY <1>1 DEF Suggested
  <2>2. IsFiniteSet(1 .. Len(cands))
    BY <1>1, FS_Interval
  <2> QED BY <1>1, <2>1, <2>2, FS_Subset
<1>3. /\ Cardinality(S) \in Nat /\ o \in [1 .. Cardinality(S) -> S]
      /\ \A a, b \in 1 .. Cardinality(S) : a < b => o[a] < o[b]
  BY <1>2, OrderExists, FS_CardinalityType
<1>4. p = [k \in DOMAIN o |-> [fp |-> cands[o[k]].fp, target |-> cands[o[k]].target,
             decision |-> IF o[k] \in MayAttempt(cands) THEN "attempt" ELSE "skip"]]
  BY DEF BrokerPlan
<1> HIDE DEF p, o
<1>5. \A i, k \in S : cands[i].fp = cands[k].fp => i = k
  <2>1. \A i, k \in S : i < k => cands[i].fp # cands[k].fp
    BY <1>1, <1>2 DEF Suggested, EarlierTwin
  <2> HIDE DEF S
  <2> QED BY <1>2, <2>1
<1> HIDE DEF S
<1>6. ASSUME NEW m \in DOMAIN p, NEW n \in DOMAIN p, p[m].fp = p[n].fp PROVE m = n
  <2>1. o[m] \in S /\ o[n] \in S /\ cands[o[m]].fp = cands[o[n]].fp
    BY <1>3, <1>4, <1>6
  <2>2. o[m] = o[n] /\ o[m] \in Nat
    BY <1>2, <1>5, <2>1
  <2>3. m \in 1 .. Cardinality(S) /\ n \in 1 .. Cardinality(S)
    BY <1>3, <1>4
  <2>4. ~(m < n) /\ ~(n < m)
    BY <1>3, <2>2, <2>3
  <2> QED BY <1>3, <2>3, <2>4
<1>7. \A n \in DOMAIN p : p[n].decision = "attempt" => o[n] \in MayAttempt(cands)
  BY <1>4
<1>8. \A n \in DOMAIN p : p[n].decision = "attempt" => p[n].target \in OpenIn
  BY <1>4, <1>7 DEF MayAttempt, Allowed
<1>9. IsFiniteSet(Asks(p)) /\ Cardinality(Asks(p)) <= OpenCap
  <2> DEFINE M == {i \in MayAttempt(cands) : cands[i].fp \in Asks(p)}
             f == [i \in M |-> cands[i].fp]
  <2>1. f \in Surjection(M, Asks(p))
    <3>1. f \in [M -> Asks(p)]
      OBVIOUS
    <3>2. ASSUME NEW x \in Asks(p) PROVE \E i \in M : f[i] = x
      <4>1. PICK n \in DOMAIN p : p[n].decision = "attempt" /\ p[n].fp = x
        BY DEF Asks
      <4>2. o[n] \in MayAttempt(cands) /\ cands[o[n]].fp = x
        BY <1>4, <1>7, <4>1
      <4> QED BY <4>2
    <3> QED BY <3>1, <3>2 DEF Surjection
  <2>2. M \subseteq MayAttempt(cands)
    OBVIOUS
  <2> HIDE DEF M, f
  <2>3. IsFiniteSet(MayAttempt(cands)) /\ Cardinality(MayAttempt(cands)) <= OpenCap
    BY CapHolds
  <2>4. IsFiniteSet(M) /\ Cardinality(M) <= Cardinality(MayAttempt(cands))
    BY <2>2, <2>3, FS_Subset
  <2>5. IsFiniteSet(Asks(p)) /\ Cardinality(Asks(p)) <= Cardinality(M)
    BY <2>1, <2>4, FS_Surjection
  <2> QED BY <2>3, <2>4, <2>5, FS_CardinalityType, BrokerAssumption
<1>10. DOMAIN p = 1 .. Cardinality(S)
  BY <1>3, <1>4
<1> QED BY <1>3, <1>6, <1>8, <1>9, <1>10 DEF PlanSound, p, S

--------------------------------------------------------------------------------
\* What the plans of the jobs can hold, and what GitHub can be asked.
Offers   == UNION {{BrokerPlan(c)[n] : n \in DOMAIN BrokerPlan(c)} : c \in CandidateLists}
Fps      == {o.fp : o \in Offers}
Requests == [by : Jobs, fp : Fps, target : OpenIn, after : Nat]

Same(a, b) == a.fp = b.fp /\ a.target = b.target

\* Nothing like r was among the first n of these issues.
Unseen(list, n, r) == \A i \in DOMAIN list : i <= n => ~Same(list[i], r)

\* What a job has asked GitHub to open, opened or not.
Sent(j) == {f \in Fps : \/ \E m \in wire : m.by = j /\ m.fp = f
                        \/ \E i \in DOMAIN issues : issues[i].by = j /\ issues[i].fp = f}

Unsent == {"idle", "run", "planned", "decided", "recorded", "post"}

BrokerJob(j) ==
  /\ plan[j] \in Seq(Offers) /\ PlanSound(plan[j])
  /\ asked[j] \in 0 .. Len(issues)
  /\ pc[j] \in Unsent => Sent(j) = {}
  /\ pc[j] \in {"entry", "create"} => \A n \in DOMAIN plan[j] : plan[j][n].fp \notin Sent(j)
  /\ pc[j] = "create" =>
       plan[j] # << >> /\ Head(plan[j]).decision = "attempt" /\ Unseen(issues, asked[j], Head(plan[j]))
  /\ pc[j] = "await" =>
       plan[j] # << >> /\ \A n \in DOMAIN plan[j] : n # 1 => plan[j][n].fp \notin Sent(j)
  /\ IsFiniteSet(Asks(plan[j]) \cup Sent(j))
  /\ Cardinality(Asks(plan[j]) \cup Sent(j)) <= OpenCap

BrokerHub ==
  /\ wire \subseteq Requests /\ issues \in Seq(Requests)
  /\ \A m \in wire : m.after <= Len(issues) /\ Unseen(issues, m.after, m)
  /\ \A i \in DOMAIN issues : issues[i].after < i /\ Unseen(issues, issues[i].after, issues[i])
  /\ \A m, r \in wire : m.by = r.by /\ m.fp = r.fp => m = r
  /\ \A m \in wire : \A i \in DOMAIN issues : ~(m.by = issues[i].by /\ m.fp = issues[i].fp)
  /\ \A i, k \in DOMAIN issues :
       issues[i].by = issues[k].by /\ issues[i].fp = issues[k].fp => i = k

BrokerInv ==
  /\ PacketInv
  /\ plan = [j \in Jobs |-> plan[j]] /\ asked = [j \in Jobs |-> asked[j]]
  /\ BrokerHub
  /\ \A j \in Jobs : BrokerJob(j)

LEMMA PlansOffer ==
  ASSUME NEW cands \in CandidateLists
  PROVE  BrokerPlan(cands) \in Seq(Offers) /\ PlanSound(BrokerPlan(cands))
<1> DEFINE p == BrokerPlan(cands)
           n == Cardinality(Suggested(cands))
<1>1. PlanSound(p) /\ DOMAIN p = 1 .. n /\ n \in Nat
  BY BrokerPlanSound
<1>2. p = [k \in DOMAIN p |-> p[k]]
  BY DEF BrokerPlan
<1>3. \A k \in DOMAIN p : p[k] \in Offers
  BY DEF Offers
<1> HIDE DEF p, n
<1>4. p \in Seq(Offers)
  BY <1>1, <1>2, <1>3
<1> QED BY <1>1, <1>4 DEF p

LEMMA NoPlanSound == << >> \in Seq(Offers) /\ PlanSound(<< >>) /\ Asks(<< >>) = {}
<1>1. Asks(<< >>) = {}
  BY DEF Asks
<1> QED BY <1>1, FS_EmptySet, BrokerAssumption DEF PlanSound

LEMMA TailSound ==
  ASSUME NEW p \in Seq(Offers), p # << >>, PlanSound(p)
  PROVE  /\ Tail(p) \in Seq(Offers) /\ PlanSound(Tail(p)) /\ Asks(Tail(p)) \subseteq Asks(p)
         /\ \A n \in DOMAIN Tail(p) : n + 1 \in DOMAIN p /\ n + 1 # 1 /\ Tail(p)[n] = p[n + 1]
<1>1. \A n \in DOMAIN Tail(p) : n \in Nat /\ n + 1 \in DOMAIN p /\ n + 1 # 1 /\ Tail(p)[n] = p[n + 1]
  OBVIOUS
<1>2. Asks(Tail(p)) \subseteq Asks(p)
  BY <1>1 DEF Asks
<1>3. \A m, n \in DOMAIN Tail(p) : Tail(p)[m].fp = Tail(p)[n].fp => m = n
  BY <1>1 DEF PlanSound
<1>4. \A n \in DOMAIN Tail(p) : Tail(p)[n].decision = "attempt" => Tail(p)[n].target \in OpenIn
  BY <1>1 DEF PlanSound
<1>5. IsFiniteSet(Asks(Tail(p))) /\ Cardinality(Asks(Tail(p))) <= OpenCap
  <2>1. IsFiniteSet(Asks(p)) /\ Cardinality(Asks(p)) <= OpenCap /\ Cardinality(Asks(p)) \in Nat
    BY FS_CardinalityType DEF PlanSound
  <2>2. IsFiniteSet(Asks(Tail(p))) /\ Cardinality(Asks(Tail(p))) <= Cardinality(Asks(p))
    BY <1>2, <2>1, FS_Subset
  <2> QED BY <2>1, <2>2, FS_CardinalityType, BrokerAssumption
<1>6. Tail(p) \in Seq(Offers)
  OBVIOUS
<1> QED BY <1>1, <1>2, <1>3, <1>4, <1>5, <1>6 DEF PlanSound

\* A budget that shrinks stays within the cap.
LEMMA Shrinks ==
  ASSUME NEW A, NEW B, IsFiniteSet(A), Cardinality(A) <= OpenCap, B \subseteq A
  PROVE  IsFiniteSet(B) /\ Cardinality(B) <= OpenCap
<1>1. IsFiniteSet(B) /\ Cardinality(B) <= Cardinality(A)
  BY FS_Subset
<1> QED BY <1>1, FS_CardinalityType, BrokerAssumption

LEMMA BrokerInitially == Init => BrokerInv
<1> SUFFICES ASSUME Init PROVE BrokerInv
  OBVIOUS
<1>1. PacketInv
  BY PacketInitially
<1>2. wire = {} /\ issues = << >> /\ DOMAIN issues = {} /\ Len(issues) = 0
  BY DEF Init
<1>3. BrokerHub
  BY <1>2 DEF BrokerHub
<1>4. ASSUME NEW j \in Jobs PROVE BrokerJob(j)
  <2>1. Sent(j) = {}
    BY <1>2 DEF Sent
  <2>2. plan[j] = << >> /\ asked[j] = 0 /\ pc[j] = "idle"
    BY DEF Init
  <2>3. Asks(plan[j]) \cup Sent(j) = {}
    BY <2>1, <2>2, NoPlanSound
  <2> QED BY <1>2, <2>1, <2>2, <2>3, NoPlanSound, FS_EmptySet, BrokerAssumption, SMTT(60) DEF BrokerJob
<1> QED BY <1>1, <1>3, <1>4 DEF Init, BrokerInv

\* A step that leaves GitHub alone, and keeps its own job sound, keeps the rest.
LEMMA JobAlone ==
  ASSUME BrokerInv, PacketInv', NEW j \in Jobs, UNCHANGED hub,
         \A k \in Jobs : k # j => pc'[k] = pc[k],
         \/ UNCHANGED plan
         \/ \E p : plan' = [plan EXCEPT ![j] = p],
         \/ UNCHANGED asked
         \/ \E n : asked' = [asked EXCEPT ![j] = n],
         BrokerJob(j)'
  PROVE  BrokerInv'
<1>1. BrokerHub'
  BY DEF BrokerInv, BrokerHub, hub, Unseen
<1>2. ASSUME NEW k \in Jobs, k # j PROVE BrokerJob(k)'
  <2>1. Sent(k)' = Sent(k) /\ UNCHANGED <<plan[k], asked[k], pc[k], issues>>
    BY <1>2 DEF BrokerInv, Sent, hub
  <2> QED BY <2>1, ZenonT(60) DEF BrokerInv, BrokerJob, Unseen
<1> QED BY <1>1, <1>2 DEF BrokerInv

LEMMA Shapes ==
  ASSUME BrokerInv
  PROVE  /\ issues \in Seq(Requests) /\ Len(issues) \in Nat /\ DOMAIN issues = 1 .. Len(issues)
         /\ \A i \in DOMAIN issues : issues[i] \in Requests /\ issues[i].after \in 0 .. Len(issues)
         /\ DOMAIN plan = Jobs /\ DOMAIN asked = Jobs
<1>1. issues \in Seq(Requests)
  BY DEF BrokerInv, BrokerHub
<1>2. Len(issues) \in Nat /\ DOMAIN issues = 1 .. Len(issues) /\ \A i \in DOMAIN issues : issues[i] \in Requests
  BY <1>1
<1>3. ASSUME NEW i \in DOMAIN issues PROVE issues[i].after \in 0 .. Len(issues)
  <2>1. issues[i].after \in Nat
    BY <1>2 DEF Requests
  <2>2. issues[i].after < i
    BY DEF BrokerInv, BrokerHub
  <2> QED BY <1>2, <2>1, <2>2
<1>4. DOMAIN plan = Jobs /\ DOMAIN asked = Jobs
  BY DEF BrokerInv
<1> QED BY <1>1, <1>2, <1>3, <1>4

\* A step that leaves plan and GitHub alone, away from the entries.
LEMMA Elsewhere ==
  ASSUME BrokerInv, PacketInv', NEW j \in Jobs, UNCHANGED <<plan, hub>>,
         NEW to \in Points, pc' = [pc EXCEPT ![j] = to],
         to \in Unsent => pc[j] \in Unsent, to \notin {"entry", "create", "await"},
         UNCHANGED asked \/ asked' = [asked EXCEPT ![j] = Len(issues)]
  PROVE  BrokerInv'
<1>1. pc'[j] = to /\ \A k \in Jobs : k # j => pc'[k] = pc[k]
  BY DEF BrokerInv, PacketInv
<1>2. UNCHANGED asked \/ \E n : asked' = [asked EXCEPT ![j] = n]
  OBVIOUS
<1>3. asked'[j] \in 0 .. Len(issues)
  <2>1. asked[j] \in 0 .. Len(issues)
    BY DEF BrokerInv, BrokerJob
  <2> QED BY <2>1, Shapes
<1>4. Sent(j)' = Sent(j) /\ UNCHANGED <<issues, plan>>
  BY DEF Sent, hub
<1>5. BrokerJob(j)'
  BY <1>1, <1>3, <1>4 DEF BrokerInv, BrokerJob
<1> QED BY <1>1, <1>2, <1>5, JobAlone

\* The broker is done with an entry.
LEMMA EntryDone ==
  ASSUME BrokerInv, PacketInv', NEW j \in Jobs, NextEntry(j), UNCHANGED <<asked, hub>>,
         pc[j] \in {"entry", "create", "await"}, plan[j] # << >>
  PROVE  BrokerInv'
<1>1. /\ pc'[j] = "entry" /\ \A k \in Jobs : k # j => pc'[k] = pc[k]
      /\ plan'[j] = Tail(plan[j]) /\ \E p : plan' = [plan EXCEPT ![j] = p]
  BY DEF NextEntry, Goto, BrokerInv, PacketInv
<1>2. Sent(j)' = Sent(j) /\ UNCHANGED <<issues, asked>>
  BY DEF Sent, hub
<1>3. plan[j] \in Seq(Offers) /\ PlanSound(plan[j])
  BY DEF BrokerInv, BrokerJob
<1>4. /\ Tail(plan[j]) \in Seq(Offers) /\ PlanSound(Tail(plan[j]))
      /\ Asks(Tail(plan[j])) \subseteq Asks(plan[j])
      /\ \A n \in DOMAIN Tail(plan[j]) :
            n + 1 \in DOMAIN plan[j] /\ n + 1 # 1 /\ Tail(plan[j])[n] = plan[j][n + 1]
  BY <1>3, TailSound
<1>5. \A n \in DOMAIN Tail(plan[j]) : Tail(plan[j])[n].fp \notin Sent(j)
  BY <1>4 DEF BrokerInv, BrokerJob
<1>6. /\ IsFiniteSet(Asks(Tail(plan[j])) \cup Sent(j))
      /\ Cardinality(Asks(Tail(plan[j])) \cup Sent(j)) <= OpenCap
  BY <1>4, Shrinks DEF BrokerInv, BrokerJob
<1>7. BrokerJob(j)'
  BY <1>1, <1>2, <1>4, <1>5, <1>6 DEF BrokerInv, BrokerJob, Unsent
<1> QED BY <1>1, <1>2, <1>7, JobAlone

LEMMA PlanKeeps ==
  ASSUME BrokerInv, PacketInv', NEW j \in Jobs, PlanIssues(j)
  PROVE  BrokerInv'
<1>1. /\ pc[j] = "run" /\ pc'[j] = "planned" /\ \A k \in Jobs : k # j => pc'[k] = pc[k]
      /\ UNCHANGED <<asked, hub>> /\ \E p : plan' = [plan EXCEPT ![j] = p]
      /\ \/ plan'[j] = << >>
         \/ \E cands \in CandidateLists : plan'[j] = BrokerPlan(cands)
  BY DEF PlanIssues, Goto, BrokerInv, PacketInv
<1>2. Sent(j)' = Sent(j) /\ Sent(j) = {} /\ UNCHANGED <<issues, asked>>
  <2>1. UNCHANGED <<wire, issues, asked>>
    BY <1>1 DEF hub
  <2>2. Sent(j) = {}
    BY <1>1 DEF BrokerInv, BrokerJob, Unsent
  <2> QED BY <2>1, <2>2 DEF Sent
<1>3. plan'[j] \in Seq(Offers) /\ PlanSound(plan'[j])
  BY <1>1, PlansOffer, NoPlanSound
<1>4. IsFiniteSet(Asks(plan'[j]) \cup Sent(j)') /\ Cardinality(Asks(plan'[j]) \cup Sent(j)') <= OpenCap
  <2>1. Asks(plan'[j]) \cup Sent(j)' = Asks(plan'[j])
    BY <1>2
  <2> QED BY <1>3, <2>1 DEF PlanSound
<1>5. BrokerJob(j)'
  BY <1>1, <1>2, <1>3, <1>4 DEF BrokerInv, BrokerJob
<1> QED BY <1>1, <1>2, <1>5, JobAlone

LEMMA PostKeeps ==
  ASSUME BrokerInv, PacketInv', NEW j \in Jobs, PostReview(j)
  PROVE  BrokerInv'
<1>1. /\ pc[j] = "post" /\ pc'[j] \in {"entry", "red"} /\ \A k \in Jobs : k # j => pc'[k] = pc[k]
      /\ UNCHANGED <<asked, hub>>
      /\ UNCHANGED plan \/ \E p : plan' = [plan EXCEPT ![j] = p]
      /\ plan'[j] \in {plan[j], << >>}
  BY DEF PostReview, Goto, BrokerInv, PacketInv
<1>2. Sent(j)' = Sent(j) /\ Sent(j) = {} /\ UNCHANGED <<issues, asked>>
  BY <1>1, ZenonT(60) DEF Sent, hub, BrokerInv, BrokerJob, Unsent
<1>3. plan'[j] \in Seq(Offers) /\ PlanSound(plan'[j])
  BY <1>1, NoPlanSound DEF BrokerInv, BrokerJob
<1>4. IsFiniteSet(Asks(plan'[j]) \cup Sent(j)') /\ Cardinality(Asks(plan'[j]) \cup Sent(j)') <= OpenCap
  <2>1. Asks(plan'[j]) \cup Sent(j)' = Asks(plan'[j])
    BY <1>2
  <2> QED BY <1>3, <2>1 DEF PlanSound
<1>5. BrokerJob(j)'
  BY <1>1, <1>2, <1>3, <1>4 DEF BrokerInv, BrokerJob, Unsent
<1> QED BY <1>1, <1>2, <1>5, JobAlone

\* A search that finds nothing: nothing open now is the entry.
LEMMA SearchKeeps ==
  ASSUME BrokerInv, PacketInv', NEW j \in Jobs, Search(j)
  PROVE  BrokerInv'
<1>1. pc[j] = "entry" /\ plan[j] # << >>
  BY DEF Search, AtEntry
<1>2. CASE NextEntry(j) /\ UNCHANGED asked
  BY <1>1, <1>2, EntryDone DEF Search
<1>3. CASE /\ ~Found(Head(plan[j])) /\ Goto(j, "create") /\ UNCHANGED plan
           /\ asked' = [asked EXCEPT ![j] = Len(issues)]
  <2>1. /\ pc'[j] = "create" /\ \A k \in Jobs : k # j => pc'[k] = pc[k]
        /\ asked'[j] = Len(issues) /\ UNCHANGED <<plan, hub>>
        /\ \E n : asked' = [asked EXCEPT ![j] = n]
    BY <1>3 DEF Search, Goto, BrokerInv, PacketInv
  <2>2. Len(issues) \in Nat
    BY DEF BrokerInv, BrokerHub
  <2>3. Sent(j)' = Sent(j) /\ UNCHANGED <<issues, plan>>
    BY <2>1 DEF Sent, hub
  <2>4. Unseen(issues, Len(issues), Head(plan[j])) /\ Head(plan[j]).decision = "attempt"
    BY <1>3 DEF Search, Found, Unseen, Same
  <2>5. BrokerJob(j)'
    <3>1. asked'[j] \in 0 .. Len(issues')
      BY <2>1, <2>2, <2>3
    <3>2. Unseen(issues', asked'[j], Head(plan'[j])) /\ Head(plan'[j]).decision = "attempt"
      BY <2>1, <2>3, <2>4
    <3> QED BY <1>1, <2>1, <2>3, <3>1, <3>2 DEF BrokerInv, BrokerJob, Unsent
  <2> QED BY <2>1, <2>5, JobAlone
<1> QED BY <1>2, <1>3 DEF Search

LEMMA CreateKeeps ==
  ASSUME BrokerInv, PacketInv', NEW j \in Jobs, Create(j)
  PROVE  BrokerInv'
<1>1. pc[j] = "create" /\ plan[j] # << >>
  BY DEF Create, BrokerInv, BrokerJob
<1>2. CASE NextEntry(j) /\ UNCHANGED wire
  BY <1>1, <1>2, EntryDone DEF Create, hub
<1> DEFINE e == Head(plan[j])
           m == [by |-> j, fp |-> e.fp, target |-> e.target, after |-> asked[j]]
<1>3. CASE Goto(j, "await") /\ UNCHANGED plan /\ wire' = wire \cup {m}
  <2>1. /\ pc'[j] = "await" /\ \A k \in Jobs : k # j => pc'[k] = pc[k]
        /\ UNCHANGED <<plan, asked, issues>>
    BY <1>3 DEF Create, Goto, BrokerInv, PacketInv
  <2>2. /\ plan[j] \in Seq(Offers) /\ PlanSound(plan[j]) /\ e.decision = "attempt"
        /\ asked[j] \in 0 .. Len(issues) /\ Unseen(issues, asked[j], e)
        /\ \A n \in DOMAIN plan[j] : plan[j][n].fp \notin Sent(j)
    BY <1>1 DEF BrokerInv, BrokerJob
  <2>3. 1 \in DOMAIN plan[j] /\ e = plan[j][1] /\ e \in Offers
    BY <1>1, <2>2
  <2>4. e.fp \in Fps /\ e.fp \in Asks(plan[j]) /\ e.target \in OpenIn /\ e.fp \notin Sent(j)
    BY <2>2, <2>3 DEF Fps, Asks, PlanSound
  <2>5. m \in Requests /\ m.by = j /\ m.fp = e.fp /\ m.target = e.target /\ m.after = asked[j]
    BY <2>2, <2>4 DEF Requests
  <2> HIDE DEF m, e
  <2>6. Unseen(issues, m.after, m) /\ m.after <= Len(issues)
    BY <2>2, <2>5 DEF Unseen, Same
  <2>7. /\ \A r \in wire : ~(r.by = m.by /\ r.fp = m.fp)
        /\ \A i \in DOMAIN issues : ~(m.by = issues[i].by /\ m.fp = issues[i].fp)
    BY <2>4, <2>5 DEF Sent
  <2>8. BrokerHub'
    BY <1>3, <2>1, <2>5, <2>6, <2>7 DEF BrokerInv, BrokerHub, Unseen
  <2>9. Sent(j)' = Sent(j) \cup {e.fp} /\ \A k \in Jobs : k # j => Sent(k)' = Sent(k)
    BY <1>3, <2>1, <2>4, <2>5 DEF Sent
  <2>10. BrokerJob(j)'
    <3>1. \A n \in DOMAIN plan[j] : n # 1 => plan[j][n].fp \notin Sent(j) \cup {e.fp}
      BY <2>2, <2>3 DEF PlanSound
    <3>2. Asks(plan[j]) \cup (Sent(j) \cup {e.fp}) = Asks(plan[j]) \cup Sent(j)
      BY <2>4
    <3> QED BY <1>1, <2>1, <2>9, <3>1, <3>2 DEF BrokerInv, BrokerJob, Unsent
  <2>11. ASSUME NEW k \in Jobs, k # j PROVE BrokerJob(k)'
    BY <2>1, <2>9, <2>11, ZenonT(60) DEF BrokerInv, BrokerJob, Unseen
  <2> QED BY <2>1, <2>8, <2>10, <2>11 DEF BrokerInv
<1> QED BY <1>2, <1>3 DEF Create

\* GitHub opens what was asked, or drops it.
LEMMA HubKeeps ==
  ASSUME BrokerInv, PacketInv', Hub
  PROVE  BrokerInv'
<1>1. PICK m \in wire : wire' = wire \ {m} /\ issues' \in {issues, Append(issues, m)}
  BY DEF Hub
<1>2. UNCHANGED <<pc, plan, asked>>
  BY DEF Hub
<1>3. m \in Requests /\ issues \in Seq(Requests) /\ Len(issues) \in Nat /\ DOMAIN issues = 1 .. Len(issues)
  BY DEF BrokerInv, BrokerHub
<1>4. /\ issues' \in Seq(Requests) /\ Len(issues') \in Nat /\ DOMAIN issues' = 1 .. Len(issues')
      /\ Len(issues) <= Len(issues')
      /\ \A i \in DOMAIN issues : i \in DOMAIN issues' /\ issues'[i] = issues[i]
      /\ \A i \in DOMAIN issues' : i \in DOMAIN issues \/ (i = Len(issues) + 1 /\ issues'[i] = m)
  BY <1>1, <1>3
<1>5. \A n \in 0 .. Len(issues) : \A r : Unseen(issues, n, r) => Unseen(issues', n, r)
  BY <1>3, <1>4 DEF Unseen
<1>6. m.after \in 0 .. Len(issues) /\ Unseen(issues, m.after, m)
  BY <1>3 DEF BrokerInv, BrokerHub, Requests
<1>7. \A i \in DOMAIN issues : issues[i] \in Requests /\ issues[i].after \in 0 .. Len(issues)
  BY Shapes
<1>8. /\ \A q, r \in wire : q.by = r.by /\ q.fp = r.fp => q = r
      /\ \A r \in wire : \A i \in DOMAIN issues : ~(r.by = issues[i].by /\ r.fp = issues[i].fp)
      /\ \A i, k \in DOMAIN issues :
           issues[i].by = issues[k].by /\ issues[i].fp = issues[k].fp => i = k
  BY DEF BrokerInv, BrokerHub
<1>9. BrokerHub'
  <2>1. wire' \subseteq Requests /\ issues' \in Seq(Requests)
    BY <1>1, <1>4 DEF BrokerInv, BrokerHub
  <2>2. ASSUME NEW r \in wire' PROVE r.after <= Len(issues') /\ Unseen(issues', r.after, r)
    <3>1. r \in wire /\ r \in Requests /\ r.after <= Len(issues) /\ Unseen(issues, r.after, r)
      BY <1>1 DEF BrokerInv, BrokerHub
    <3>2. r.after \in Nat
      BY <3>1 DEF Requests
    <3>3. r.after \in 0 .. Len(issues)
      BY <1>3, <3>1, <3>2
    <3> QED BY <1>3, <1>4, <1>5, <3>1, <3>3
  <2>3. ASSUME NEW i \in DOMAIN issues'
        PROVE  issues'[i].after < i /\ Unseen(issues', issues'[i].after, issues'[i])
    <3>1. CASE i \in DOMAIN issues
      <4>1. issues'[i] = issues[i] /\ issues[i].after < i /\ Unseen(issues, issues[i].after, issues[i])
        BY <1>4, <3>1 DEF BrokerInv, BrokerHub
      <4> QED BY <1>5, <1>7, <3>1, <4>1
    <3>2. CASE i = Len(issues) + 1 /\ issues'[i] = m
      BY <1>3, <1>5, <1>6, <3>2
    <3> QED BY <1>4, <3>1, <3>2
  <2>4. \A q, r \in wire' : q.by = r.by /\ q.fp = r.fp => q = r
    BY <1>1 DEF BrokerInv, BrokerHub
  <2>5. ASSUME NEW r \in wire', NEW i \in DOMAIN issues', r.by = issues'[i].by, r.fp = issues'[i].fp
        PROVE  FALSE
    <3>1. r \in wire /\ r # m
      BY <1>1
    <3>2. issues'[i] = m \/ (i \in DOMAIN issues /\ issues'[i] = issues[i])
      BY <1>4
    <3> QED BY <1>8, <2>5, <3>1, <3>2
  <2>6. ASSUME NEW i \in DOMAIN issues', NEW k \in DOMAIN issues',
               issues'[i].by = issues'[k].by, issues'[i].fp = issues'[k].fp
        PROVE  i = k
    <3>1. ASSUME NEW n \in DOMAIN issues'
          PROVE  \/ n \in DOMAIN issues /\ issues'[n] = issues[n]
                 \/ n = Len(issues) + 1 /\ issues'[n] = m
      BY <1>4
    <3> QED BY <1>8, <2>6, <3>1
  <2> QED BY <2>1, <2>2, <2>3, <2>4, <2>5, <2>6 DEF BrokerHub
<1>10. ASSUME NEW j \in Jobs PROVE BrokerJob(j)'
  <2>1. Sent(j)' \subseteq Sent(j)
    BY <1>1, <1>4 DEF Sent
  <2>2. BrokerJob(j)
    BY DEF BrokerInv
  <2>3. /\ IsFiniteSet(Asks(plan[j]) \cup Sent(j)')
        /\ Cardinality(Asks(plan[j]) \cup Sent(j)') <= OpenCap
    BY <2>1, <2>2, Shrinks DEF BrokerJob
  <2>4. asked[j] \in 0 .. Len(issues')
    BY <1>3, <1>4, <2>2 DEF BrokerJob
  <2>5. pc[j] = "create" => Unseen(issues', asked[j], Head(plan[j]))
    BY <1>2, <1>5, <2>2 DEF BrokerJob
  <2> QED BY <1>2, <2>1, <2>2, <2>3, <2>4, <2>5 DEF BrokerJob
<1> QED BY <1>2, <1>9, <1>10 DEF BrokerInv

LEMMA BrokerInductive ==
  ASSUME BrokerInv, [Next]_vars
  PROVE  BrokerInv'
<1>0. PacketInv'
  BY PacketInductive DEF BrokerInv
<1>1. ASSUME NEW j \in Jobs, Step(j) PROVE BrokerInv'
  <2>1. CASE Start(j)
    BY <1>0, <2>1, Elsewhere DEF Start, Goto, Points, Deciding, Unsent
  <2>2. CASE PlanIssues(j)
    BY <1>0, <2>2, PlanKeeps
  <2>3. CASE Decide(j)
    BY <1>0, <2>3, Elsewhere DEF Decide, Goto, Points, Deciding, Unsent
  <2>4. CASE Record(j)
    BY <1>0, <2>4, Elsewhere DEF Record, Goto, Points, Decided, Unsent
  <2>5. CASE FinishRun(j)
    BY <1>0, <2>5, Elsewhere DEF FinishRun, Goto, Points, Decided, Unsent
  <2>6. CASE FailRun(j)
    BY <1>0, <2>6, Elsewhere DEF FailRun, Goto, Points, Ended, Unsent
  <2>7. CASE PostReview(j)
    BY <1>0, <2>7, PostKeeps
  <2>8. CASE PassOver(j)
    BY <1>0, <2>8, EntryDone DEF PassOver, AtEntry
  <2>9. CASE Search(j)
    BY <1>0, <2>9, SearchKeeps
  <2>10. CASE Create(j)
    BY <1>0, <2>10, CreateKeeps
  <2>11. CASE Answered(j)
    BY <1>0, <2>11, EntryDone DEF Answered, BrokerInv, BrokerJob
  <2>12. CASE LeaveBroker(j)
    <3>1. PICK to \in {"check", "red"} : Goto(j, to)
      BY <2>12 DEF LeaveBroker
    <3> QED BY <1>0, <2>12, <3>1, Elsewhere DEF LeaveBroker, Goto, Points, Decided, Ended, Unsent
  <2>13. CASE Check(j)
    BY <1>0, <2>13, Elsewhere DEF Check, Goto, Points, Ended, Unsent
  <2>14. CASE Kill(j)
    BY <1>0, <2>14, Elsewhere DEF Kill, Goto, Points, Ended, Unsent
  <2> QED
    BY <1>1, <2>1, <2>2, <2>3, <2>4, <2>5, <2>6, <2>7, <2>8, <2>9, <2>10, <2>11, <2>12, <2>13, <2>14
    DEF Step
<1>2. CASE Hub
  BY <1>0, <1>2, HubKeeps
<1>3. CASE UNCHANGED vars
  <2>1. UNCHANGED <<pc, plan, asked, wire, issues>>
    BY <1>3 DEF vars
  <2>2. BrokerHub'
    BY <2>1 DEF BrokerInv, BrokerHub, Unseen
  <2>3. ASSUME NEW j \in Jobs PROVE BrokerJob(j)'
    <3>1. Sent(j)' = Sent(j)
      BY <2>1 DEF Sent
    <3> QED BY <2>1, <3>1 DEF BrokerInv, BrokerJob
  <2> QED BY <1>0, <2>1, <2>2, <2>3 DEF BrokerInv
<1> QED BY <1>1, <1>2, <1>3 DEF Next

\* cmd_post(): however many jobs run, are killed or never get an answer, a
\* follow-up is open twice only if the second search came before the first
\* issue; the cap and the allow-list hold.
THEOREM FollowUpsOpenedOnce == Spec => []OpenedOnce
<1>1. BrokerInv => OpenedOnce
  <2> SUFFICES ASSUME BrokerInv PROVE OpenedOnce
    OBVIOUS
  <2>1. DOMAIN issues = 1 .. Len(issues) /\ \A i \in DOMAIN issues : issues[i] \in Requests
    BY Shapes
  <2>2. ASSUME NEW i \in DOMAIN issues, NEW k \in DOMAIN issues, i < k,
               issues[i].fp = issues[k].fp, issues[i].target = issues[k].target
        PROVE  issues[i].by # issues[k].by /\ issues[k].after < i
    <3>1. issues[k] \in Requests /\ issues[k].after \in Nat /\ i \in Nat /\ k \in Nat
      BY <2>1 DEF Requests
    <3>2. ~(i <= issues[k].after)
      BY <2>2 DEF BrokerInv, BrokerHub, Unseen, Same
    <3>3. issues[i].by # issues[k].by
      BY <2>2, <3>1 DEF BrokerInv, BrokerHub
    <3> QED BY <3>1, <3>2, <3>3
  <2>3. ASSUME NEW i \in DOMAIN issues PROVE issues[i].target \in OpenIn
    BY <2>1 DEF Requests
  <2>4. ASSUME NEW j \in Jobs
        PROVE  Cardinality({i \in DOMAIN issues : issues[i].by = j}) <= OpenCap
    <3> DEFINE D == {i \in DOMAIN issues : issues[i].by = j}
               f == [i \in D |-> issues[i].fp]
    <3>1. f \in Injection(D, Sent(j))
      <4>1. \A i \in D : issues[i].fp \in Sent(j)
        <5>1. \A i \in DOMAIN issues : issues[i].fp \in Fps
          BY <2>1 DEF Requests
        <5> QED BY <5>1 DEF Sent
      <4>2. \A i, k \in D : issues[i].fp = issues[k].fp => i = k
        BY DEF BrokerInv, BrokerHub
      <4> HIDE DEF D
      <4> QED BY <4>1, <4>2 DEF Injection, IsInjective
    <3>2. IsFiniteSet(Sent(j)) /\ Cardinality(Sent(j)) <= OpenCap
      BY Shrinks DEF BrokerInv, BrokerJob
    <3> HIDE DEF D, f
    <3>3. IsFiniteSet(D) /\ Cardinality(D) <= Cardinality(Sent(j))
      BY <3>1, <3>2, FS_Injection
    <3>4. Cardinality(D) <= OpenCap
      BY <3>2, <3>3, FS_CardinalityType, BrokerAssumption
    <3> QED BY <3>4 DEF D
  <2> QED BY <2>2, <2>3, <2>4 DEF OpenedOnce
<1> QED BY <1>1, BrokerInitially, BrokerInductive, PTL DEF Spec

--------------------------------------------------------------------------------
(***************************************************************************)
(* The watchdog over the attempts of a pull request, for any attempts,     *)
(* heads and observations.                                                 *)
(***************************************************************************)
AttemptPhases == {"none", "working"} \cup Over

\* The promise of an attempt, read in its state.
GreenIsEarned ==
  \A a \in Attempts : phase[a] = "success" => MayBeGreen(a)

\* The shape of the attempts.
AttemptsOK ==
  /\ phase \in [Attempts -> AttemptPhases]
  /\ recorded \in [Attempts -> Outcomes \cup {"none", "torn"}]

\* The shape of the watch: what is pending is no verdict.
WatchOK ==
  /\ head \in Nat /\ sha \in [Attempts -> Nat]
  /\ verdict = NoVerdict \/ verdict.state \in {"pending", "inconclusive", "terminal"}

WatchInv == AttemptsOK /\ WatchOK /\ GreenIsEarned /\ PassIsEarned

\* A step of an attempt keeps its promise: what is recorded is not recorded
\* again, and an attempt that is over stays as it ended.
LEMMA AttemptKeeps ==
  ASSUME AttemptsOK, GreenIsEarned, NEW a \in Attempts, StartAttempt(a) \/ RecordOutcome(a) \/ EndAttempt(a)
  PROVE  AttemptsOK' /\ GreenIsEarned'
<1>1. CASE StartAttempt(a)
  BY <1>1 DEF StartAttempt, AttemptsOK, GreenIsEarned, MayBeGreen, AttemptPhases
<1>2. CASE RecordOutcome(a)
  BY <1>2 DEF RecordOutcome, AttemptsOK, GreenIsEarned, MayBeGreen, AttemptPhases
<1>3. CASE EndAttempt(a)
  <2>1. AttemptsOK'
    BY <1>3 DEF EndAttempt, AttemptsOK, AttemptPhases, Over
  <2>2. GreenIsEarned'
    BY <1>3 DEF EndAttempt, AttemptsOK, GreenIsEarned, MayBeGreen, AttemptPhases
  <2> QED BY <2>1, <2>2
<1> QED BY <1>1, <1>2, <1>3

\* What an observation says of an attempt that is over is true.
LEMMA SightsAreTrue ==
  ASSUME NEW s \in Sights
  PROVE  /\ s.at \in Attempts /\ s.sha = sha[s.at]
         /\ s.conclusion # "none" => s.conclusion = phase[s.at]
BY DEF Sights, Sight

\* An artifact was left by some attempt, with its verdict.
LEMMA ArtifactsAreTrue ==
  ASSUME NEW r \in Artifacts, r.present
  PROVE  \E a \in Attempts : r.sha = sha[a] /\ r.conclusion = recorded[a]
BY DEF Artifacts, Artifact, NoArtifact

\* A terminal classification names the newest attempt and the artifact's word.
LEMMA TerminalIsRead ==
  ASSUME NEW o, Classify(o).state = "terminal"
  PROVE  \E s \in Newest(o) :
           /\ s.conclusion \in {"success", "failure"}
           /\ Matches(o, s) /\ o.artifact.conclusion \in Outcomes
           /\ ~RetainedPass(o, s)
           /\ Classify(o) = Ends(o, s)
<1> DEFINE s == CHOOSE x \in Newest(o) : TRUE
<1>1. \A state, reason : Says(o, state, reason).state = state
  BY DEF Says
<1>2. OfNone(o).state # "terminal"
  BY <1>1 DEF OfNone
<1>3. Newest(o) # {} /\ Classify(o) = OfAttempt(o, s)
  BY <1>1, <1>2 DEF Classify
<1>4. s \in Newest(o)
  BY <1>3
<1>5. OfAttempt(o, s).state = "terminal"
  BY <1>3
<1> HIDE DEF s
<1>6. /\ s.conclusion \in {"success", "failure"}
      /\ Matches(o, s) /\ o.artifact.conclusion \in Outcomes
      /\ ~RetainedPass(o, s)
      /\ OfAttempt(o, s) = Ends(o, s)
  BY <1>1, <1>5 DEF OfAttempt
<1> QED BY <1>3, <1>4, <1>6

\* Watching earns its pass: the retained verdict of a failed attempt is not
\* enough, so the selected attempt is green, and the gate was kept.
LEMMA WatchKeeps ==
  ASSUME WatchInv, Watch
  PROVE  WatchInv'
<1>1. AttemptsOK' /\ GreenIsEarned'
  BY DEF Watch, WatchInv, AttemptsOK, GreenIsEarned, MayBeGreen
<1>2. PICK o \in Observations : verdict' = Classify(o)
  BY DEF Watch
<1>3. /\ o.runs \subseteq Sights /\ o.artifact \in Artifacts /\ o.expected = head
  BY DEF Observations
<1>4. \A state, reason : Says(o, state, reason).state = state
  BY DEF Says
<1>5. Classify(o).state \in {"pending", "inconclusive", "terminal"}
  <2>1. OfNone(o).state \in {"pending", "inconclusive"}
    BY <1>4 DEF OfNone
  <2>2. \A s : Ends(o, s).state = "terminal"
    BY DEF Ends
  <2>3. \A s : OfAttempt(o, s).state \in {"inconclusive", "terminal"}
    BY <1>4, <2>2 DEF OfAttempt
  <2> QED BY <1>4, <2>1, <2>3 DEF Classify
<1>6. WatchOK'
  BY <1>2, <1>5 DEF Watch, WatchInv, WatchOK
<1>7. PassIsEarned'
  <2>1. SUFFICES ASSUME Classify(o).state = "terminal", Classify(o).conclusion = "pass"
                 PROVE  /\ phase[Classify(o).of] = "success"
                        /\ sha[Classify(o).of] = Classify(o).expected
                        /\ enforced[Classify(o).of] => recorded[Classify(o).of] = "pass"
                        /\ \E a \in Attempts : sha[a] = Classify(o).expected /\ recorded[a] = "pass"
    BY <1>2 DEF Watch, PassIsEarned
  <2>2. PICK s \in Newest(o) : /\ s.conclusion \in {"success", "failure"}
                               /\ Matches(o, s) /\ o.artifact.conclusion \in Outcomes
                               /\ ~RetainedPass(o, s)
                               /\ Classify(o) = Ends(o, s)
    BY <2>1, TerminalIsRead
  <2>3. /\ o.artifact.conclusion = "pass"
        /\ Classify(o).of = s.at /\ Classify(o).expected = o.expected
    BY <2>1, <2>2 DEF Ends
  <2>4. s \in Sights /\ s.sha = o.expected
    BY <1>3, <2>2 DEF Newest, AtHead
  <2>5. s.conclusion = "success"
    BY <2>2, <2>3 DEF RetainedPass
  <2>6. s.at \in Attempts /\ sha[s.at] = o.expected /\ phase[s.at] = "success"
    BY <2>4, <2>5, SightsAreTrue
  <2>7. MayBeGreen(s.at)
    BY <2>6 DEF WatchInv, GreenIsEarned
  <2>8. \E a \in Attempts : sha[a] = o.expected /\ recorded[a] = "pass"
    BY <1>3, <2>2, <2>3, ArtifactsAreTrue DEF Matches
  <2> QED BY <2>3, <2>6, <2>7, <2>8 DEF MayBeGreen
<1> QED BY <1>1, <1>6, <1>7 DEF WatchInv

LEMMA WatchBegins ==
  WatchInit => WatchInv
<1> SUFFICES ASSUME WatchInit PROVE WatchInv
  OBVIOUS
<1>1. AttemptsOK /\ GreenIsEarned
  BY DEF WatchInit, AttemptInit, AttemptsOK, GreenIsEarned, AttemptPhases
<1>2. WatchOK /\ PassIsEarned
  BY HeadsAssumption DEF WatchInit, NoVerdict, WatchOK, PassIsEarned
<1> QED BY <1>1, <1>2 DEF WatchInv

LEMMA WatchStep ==
  ASSUME WatchInv, [WatchNext]_watchVars
  PROVE  WatchInv'
<1>1. CASE Push
  <2>1. AttemptsOK' /\ GreenIsEarned'
    BY <1>1 DEF Push, WatchInv, AttemptsOK, GreenIsEarned, MayBeGreen
  <2>2. WatchOK' /\ PassIsEarned'
    BY <1>1, HeadsAssumption DEF Push, WatchInv, WatchOK, PassIsEarned
  <2> QED BY <2>1, <2>2 DEF WatchInv
<1>2. CASE Watch
  BY <1>2, WatchKeeps
<1>3. ASSUME NEW a \in Attempts, Begin(a)
      PROVE  WatchInv'
  <2>1. AttemptsOK' /\ GreenIsEarned'
    BY <1>3, AttemptKeeps DEF Begin, WatchInv
  <2>2. verdict' = NoVerdict
    BY <1>3 DEF Begin, Unwatched
  <2>3. PassIsEarned'
    BY <2>2 DEF NoVerdict, PassIsEarned
  <2>4. WatchOK'
    BY <1>3, <2>2, HeadsAssumption DEF Begin, WatchInv, WatchOK
  <2> QED BY <2>1, <2>3, <2>4 DEF WatchInv
<1>4. ASSUME NEW a \in Attempts, Proceed(a)
      PROVE  WatchInv'
  <2>1. AttemptsOK' /\ GreenIsEarned'
    BY <1>4, AttemptKeeps DEF Proceed, WatchInv
  <2>2. WatchOK' /\ PassIsEarned'
    BY <1>4 DEF Proceed, Unwatched, WatchInv, WatchOK, PassIsEarned, NoVerdict
  <2> QED BY <2>1, <2>2 DEF WatchInv
<1>5. CASE UNCHANGED watchVars
  BY <1>5 DEF watchVars, WatchInv, AttemptsOK, WatchOK, GreenIsEarned, MayBeGreen, PassIsEarned
<1> QED BY <1>1, <1>2, <1>3, <1>4, <1>5 DEF WatchNext

\* Whatever is observed, however late, twice or not at all, the watchdog never
\* reads a pass that the gate of the attempt it selected did not earn.
THEOREM PassAlwaysEarned == WatchSpec => []PassIsEarned
<1>1. WatchInv => PassIsEarned
  BY DEF WatchInv
<1> QED BY <1>1, WatchBegins, WatchStep, PTL DEF WatchSpec
================================================================================

---------------------------- MODULE ProofRunProofs ----------------------------
(***************************************************************************)
(* Proofs about the proof work of one run, for any tasks, requests,        *)
(* budgets and profiles, whatever the commands do and wherever the run is  *)
(* let down by what is outside it.                                         *)
(***************************************************************************)
EXTENDS ProofRun, RecorderProofs, FiniteSetTheorems

--------------------------------------------------------------------------------
(***************************************************************************)
(* Orders and filters.                                                     *)
(***************************************************************************)
Orders(R, S) ==
  /\ \A x \in S : <<x, x>> \notin R
  /\ \A x, y \in S : x # y => <<x, y>> \in R \/ <<y, x>> \in R
  /\ \A x, y, z \in S : <<x, y>> \in R /\ <<y, z>> \in R => <<x, z>> \in R

Before(x, R, S) == {y \in S : <<y, x>> \in R}

LEMMA PlacesDiffer ==
  ASSUME NEW S, IsFiniteSet(S), NEW R, Orders(R, S), NEW x \in S, NEW y \in S, <<x, y>> \in R
  PROVE  /\ Cardinality(Before(x, R, S)) \in Nat /\ Cardinality(Before(y, R, S)) \in Nat
         /\ Cardinality(Before(x, R, S)) < Cardinality(Before(y, R, S))
<1> DEFINE A == Before(x, R, S)
           B == Before(y, R, S)
<1>1. A \cup {x} \subseteq B /\ x \notin A /\ A \subseteq S /\ B \subseteq S
  BY DEF Orders, Before
<1> HIDE DEF A, B
<1>2. IsFiniteSet(A) /\ IsFiniteSet(B)
  BY <1>1, FS_Subset
<1>3. Cardinality(A \cup {x}) <= Cardinality(B)
  BY <1>1, <1>2, FS_Subset
<1>4. Cardinality(A \cup {x}) = Cardinality(A) + 1
  BY <1>1, <1>2, FS_AddElement
<1>5. Cardinality(A) \in Nat /\ Cardinality(B) \in Nat
  BY <1>2, FS_CardinalityType
<1> QED BY <1>3, <1>4, <1>5 DEF A, B

LEMMA PlaceBounded ==
  ASSUME NEW S, IsFiniteSet(S), NEW R, Orders(R, S), NEW x \in S
  PROVE  /\ Cardinality(Before(x, R, S)) \in Nat
         /\ Cardinality(Before(x, R, S)) < Cardinality(S)
<1> DEFINE A == Before(x, R, S)
<1>1. A \subseteq S /\ x \notin A
  BY DEF Orders, Before
<1> HIDE DEF A
<1>2. IsFiniteSet(A) /\ Cardinality(A) <= Cardinality(S) /\ Cardinality(A) # Cardinality(S)
  BY <1>1, FS_Subset
<1> QED BY <1>2, FS_CardinalityType DEF A

\* Ranked lists the set, in its order.
LEMMA RankedLists ==
  ASSUME NEW S, IsFiniteSet(S), NEW R, Orders(R, S)
  PROVE  /\ Cardinality(S) \in Nat
         /\ Ranked(S, R) \in [1 .. Cardinality(S) -> S]
         /\ \A a, b \in 1 .. Cardinality(S) :
              a # b => Ranked(S, R)[a] # Ranked(S, R)[b]
         /\ \A x \in S : \E a \in 1 .. Cardinality(S) : Ranked(S, R)[a] = x
<1> DEFINE n == Cardinality(S)
           f == [x \in S |-> Cardinality(Before(x, R, S)) + 1]
           o == [a \in 1 .. n |-> CHOOSE x \in S : f[x] = a]
<1>0. n \in Nat
  BY FS_CardinalityType
<1>1. f \in Injection(S, 1 .. n)
  <2>1. f \in [S -> 1 .. n]
    BY <1>0, PlaceBounded
  <2>2. ASSUME NEW x \in S, NEW y \in S, f[x] = f[y] PROVE x = y
    <3>1. /\ Cardinality(Before(x, R, S)) \in Nat /\ Cardinality(Before(y, R, S)) \in Nat
      BY PlaceBounded
    <3>2. Cardinality(Before(x, R, S)) = Cardinality(Before(y, R, S))
      BY <2>2, <3>1
    <3>3. <<x, y>> \notin R /\ <<y, x>> \notin R
      BY <3>1, <3>2, PlacesDiffer
    <3> QED BY <3>3 DEF Orders
  <2> HIDE DEF f
  <2> QED BY <2>1, <2>2 DEF Injection, IsInjective
<1>2. IsFiniteSet(1 .. n) /\ Cardinality(1 .. n) = n
  BY <1>0, FS_Interval
<1>3. f \in Surjection(S, 1 .. n)
  <2> HIDE DEF f
  <2> QED BY <1>1, <1>2, FS_Injection
<1>4. \A a \in 1 .. n : o[a] \in S /\ f[o[a]] = a
  <2>1. \A a \in 1 .. n : \E x \in S : f[x] = a
    BY <1>3 DEF Surjection
  <2> HIDE DEF f
  <2> QED BY <2>1
<1>5. \A x, y \in S : f[x] = f[y] => x = y
  <2> HIDE DEF f
  <2> QED BY <1>1 DEF Injection, IsInjective
<1>6. \A x \in S : f[x] \in 1 .. n
  <2> HIDE DEF f
  <2> QED BY <1>1 DEF Injection
<1>7. Ranked(S, R) = o
  <2>1. ASSUME NEW a \in 1 .. n, NEW x \in S
        PROVE  f[x] = a <=> Cardinality(Before(x, R, S)) = a - 1
    <3>1. Cardinality(Before(x, R, S)) \in Nat /\ a \in Nat
      BY <1>0, PlaceBounded
    <3>2. \A c, d \in Nat : c + 1 = d <=> c = d - 1
      OBVIOUS
    <3>3. f[x] = Cardinality(Before(x, R, S)) + 1
      OBVIOUS
    <3> QED BY <3>1, <3>2, <3>3
  <2>2. ASSUME NEW a \in 1 .. n
        PROVE  (CHOOSE x \in S : f[x] = a) = CHOOSE x \in S : Cardinality(Before(x, R, S)) = a - 1
    <3> HIDE DEF f
    <3> QED BY <2>1
  <2> HIDE DEF f
  <2> QED BY <2>2 DEF Ranked, Before
<1> HIDE DEF f, o
<1>8. \A a, b \in 1 .. n : a # b => o[a] # o[b]
  BY <1>4
<1>9. ASSUME NEW x \in S PROVE o[f[x]] = x
  <2>1. o[f[x]] \in S /\ f[o[f[x]]] = f[x]
    BY <1>4, <1>6
  <2> QED BY <1>5, <2>1
<1>10. o \in [1 .. n -> S]
  BY <1>4 DEF o
<1> QED BY <1>0, <1>6, <1>7, <1>8, <1>9, <1>10

LEMMA IndicesOrdered ==
  ASSUME NEW D \in SUBSET Nat
  PROVE  Orders({p \in D \X D : p[1] < p[2]}, D)
<1> DEFINE R == {p \in D \X D : p[1] < p[2]}
<1>1. \A x, y \in D : <<x, y>> \in R <=> x < y
  BY Zenon
<1>2. \A x \in D : x \in Nat
  OBVIOUS
<1> HIDE DEF R
<1>3. Orders(R, D)
  BY <1>1, <1>2 DEF Orders
<1> QED BY <1>3 DEF R

\* Among keeps what is in S, once for each time, and nothing else.
LEMMA AmongKeeps ==
  ASSUME NEW T, NEW s \in Seq(T), NEW S
  PROVE  /\ Among(s, S) \in Seq(SetOfSeq(s) \cap S)
         /\ SetOfSeq(Among(s, S)) = SetOfSeq(s) \cap S
         /\ IsInjective(s) => IsInjective(Among(s, S))
         /\ Among(s, S) = << >> <=> SetOfSeq(s) \cap S = {}
<1> DEFINE at == {i \in DOMAIN s : s[i] \in S}
           R == {p \in at \X at : p[1] < p[2]}
           n == Cardinality(at)
           o == Ranked(at, R)
           k == Among(s, S)
<1>1. at \subseteq 1 .. Len(s) /\ at \subseteq Nat /\ Len(s) \in Nat
  OBVIOUS
<1>2. IsFiniteSet(at)
  <2>1. IsFiniteSet(1 .. Len(s))
    BY <1>1, FS_Interval
  <2> HIDE DEF at
  <2> QED BY <1>1, <2>1, FS_Subset
<1>3. Orders(R, at)
  BY <1>1, IndicesOrdered
<1>4. k = [a \in 1 .. n |-> s[o[a]]]
  BY DEF Among
<1>5. \A i \in at : s[i] \in SetOfSeq(s) \cap S
  BY DEF SetOfSeq
<1>6. \A x \in SetOfSeq(s) \cap S : \E i \in at : s[i] = x
  BY DEF SetOfSeq
<1>7. \A i \in at : i \in DOMAIN s
  OBVIOUS
<1> HIDE DEF at, R, k
<1>8. /\ n \in Nat /\ o \in [1 .. n -> at]
      /\ \A a, b \in 1 .. n : a # b => o[a] # o[b]
      /\ \A i \in at : \E a \in 1 .. n : o[a] = i
  BY <1>2, <1>3, RankedLists
<1> HIDE DEF o, n
<1>9. \A a \in 1 .. n : k[a] \in SetOfSeq(s) \cap S /\ k[a] = s[o[a]]
  BY <1>4, <1>5, <1>8
<1>10. k \in Seq(SetOfSeq(s) \cap S) /\ DOMAIN k = 1 .. n /\ Len(k) = n
  BY <1>4, <1>8, <1>9
<1>11. SetOfSeq(k) = SetOfSeq(s) \cap S
  <2>1. ASSUME NEW x \in SetOfSeq(s) \cap S
        PROVE  x \in SetOfSeq(k)
    <3>1. PICK i \in at : s[i] = x
      BY <1>6
    <3>2. PICK a \in 1 .. n : o[a] = i
      BY <1>8
    <3> QED BY <1>9, <1>10, <3>1, <3>2 DEF SetOfSeq
  <2>2. ASSUME NEW x \in SetOfSeq(k)
        PROVE  x \in SetOfSeq(s) \cap S
    BY <1>9, <1>10 DEF SetOfSeq
  <2> QED BY <2>1, <2>2
<1>12. IsInjective(s) => IsInjective(k)
  BY <1>7, <1>8, <1>9, <1>10 DEF IsInjective
<1>13. k = << >> <=> SetOfSeq(k) = {}
  <2>1. n # 0 => k[1] \in SetOfSeq(k)
    <3>1. n # 0 => 1 \in DOMAIN k
      BY <1>8, <1>10
    <3> QED BY <3>1 DEF SetOfSeq
  <2>2. n = 0 => k = << >> /\ SetOfSeq(k) = {}
    BY <1>10 DEF SetOfSeq
  <2>3. k = << >> => n = 0
    BY <1>10
  <2> QED BY <2>1, <2>2, <2>3
<1> QED BY <1>10, <1>11, <1>12, <1>13 DEF k

--------------------------------------------------------------------------------
(***************************************************************************)
(* The selection of a portfolio.                                           *)
(***************************************************************************)
LEMMA TargetsTasks ==
  ASSUME NEW rs
  PROVE  TargetsOf(rs) \subseteq Tasks /\ Tests \subseteq Tasks /\ Builds \subseteq Tasks
BY DEF TargetsOf, Tests, Builds

LEMMA CostsNat ==
  ASSUME NEW t \in Tasks
  PROVE  /\ t \in Nat /\ Cost(t) \in Nat \ {0} /\ Allowance[t] \in Nat \ {0}
         /\ Kind[t] \in {"head", "red_green", "build"}
<1>1. t \in Nat /\ Allowance[t] \in Nat \ {0} /\ Kind[t] \in {"head", "red_green", "build"}
  BY PortfolioConstants
<1>2. Commands(t) \in {1, 2}
  BY DEF Commands
<1> QED BY <1>1, <1>2 DEF Cost

LEMMA OwnFinite ==
  ASSUME NEW S, NEW rs \in Seq(S), NEW t
  PROVE  IsFiniteSet(RequestsOf(t, rs)) /\ Cardinality(RequestsOf(t, rs)) \in Nat
<1>1. IsFiniteSet(DOMAIN rs)
  <2>1. DOMAIN rs = 1 .. Len(rs) /\ Len(rs) \in Nat
    OBVIOUS
  <2> QED BY <2>1, FS_Interval
<1>2. IsFiniteSet(SetOfSeq(rs))
  <2>1. rs \in Surjection(DOMAIN rs, SetOfSeq(rs))
    BY DEF Surjection, SetOfSeq
  <2> QED BY <1>1, <2>1, FS_Surjection
<1>3. RequestsOf(t, rs) \subseteq SetOfSeq(rs)
  BY DEF RequestsOf
<1> QED BY <1>2, <1>3, FS_Subset, FS_CardinalityType

\* The lexicographic order, the greater first.
Outranks(x, y) == \E i \in 1 .. 5 : x[i] > y[i] /\ \A j \in 1 .. i - 1 : x[j] = y[j]

Outranking(x, y) == \/ x[1] > y[1]
                    \/ x[1] = y[1] /\ x[2] > y[2]
                    \/ x[1] = y[1] /\ x[2] = y[2] /\ x[3] > y[3]
                    \/ x[1] = y[1] /\ x[2] = y[2] /\ x[3] = y[3] /\ x[4] > y[4]
                    \/ /\ x[1] = y[1] /\ x[2] = y[2] /\ x[3] = y[3] /\ x[4] = y[4]
                       /\ x[5] > y[5]

FiveIntegers(x) == x[1] \in Int /\ x[2] \in Int /\ x[3] \in Int /\ x[4] \in Int /\ x[5] \in Int

LEMMA OutranksIs ==
  ASSUME NEW x, NEW y
  PROVE  Outranks(x, y) <=> Outranking(x, y)
<1> DEFINE Same(i) == \A j \in 1 .. i - 1 : x[j] = y[j]
<1>1. Same(1) <=> TRUE
  OBVIOUS
<1>2. Same(2) <=> x[1] = y[1]
  OBVIOUS
<1>3. Same(3) <=> x[1] = y[1] /\ x[2] = y[2]
  OBVIOUS
<1>4. Same(4) <=> x[1] = y[1] /\ x[2] = y[2] /\ x[3] = y[3]
  OBVIOUS
<1>5. Same(5) <=> x[1] = y[1] /\ x[2] = y[2] /\ x[3] = y[3] /\ x[4] = y[4]
  OBVIOUS
<1>6. Outranks(x, y) <=> \E i \in 1 .. 5 : x[i] > y[i] /\ Same(i)
  BY DEF Outranks
<1> HIDE DEF Same
<1>7. \A i : i \in 1 .. 5 <=> i = 1 \/ i = 2 \/ i = 3 \/ i = 4 \/ i = 5
  OBVIOUS
<1> QED BY <1>1, <1>2, <1>3, <1>4, <1>5, <1>6, <1>7 DEF Outranking

LEMMA LexicographicOrder ==
  ASSUME NEW a, NEW b, NEW c, FiveIntegers(a), FiveIntegers(b), FiveIntegers(c)
  PROVE  /\ ~Outranks(a, a)
         /\ a[5] # b[5] => Outranks(a, b) \/ Outranks(b, a)
         /\ Outranks(a, b) /\ Outranks(b, c) => Outranks(a, c)
<1>1. ~Outranking(a, a)
  BY DEF Outranking, FiveIntegers
<1>2. a[5] # b[5] => Outranking(a, b) \/ Outranking(b, a)
  BY DEF Outranking, FiveIntegers
<1>3. Outranking(a, b) /\ Outranking(b, c) => Outranking(a, c)
  BY DEF Outranking, FiveIntegers
<1> QED BY <1>1, <1>2, <1>3, OutranksIs

\* The priorities of tasks are five integers, the last of which tells two tasks apart.
LEMMA PriorityIs ==
  ASSUME NEW S, NEW rs \in Seq(S), NEW t \in Tasks
  PROVE  FiveIntegers(Priority(t, rs)) /\ Priority(t, rs)[5] = -t
<1>1. KindRank(t) \in {1, 2, 3}
  BY DEF KindRank
<1> DEFINE a == IF RequestsOf(t, rs) \cap Required # {} THEN 1 ELSE 0
           b == KindRank(t)
           c == Cardinality(RequestsOf(t, rs))
           d == -Cost(t)
           e == -t
<1>2. a \in Int /\ b \in Int /\ c \in Int /\ d \in Int /\ e \in Int
  BY <1>1, OwnFinite, CostsNat
<1>3. Priority(t, rs) = <<a, b, c, d, e>>
  BY DEF Priority
<1> HIDE DEF a, b, c, d, e
<1>4. FiveIntegers(<<a, b, c, d, e>>) /\ <<a, b, c, d, e>>[5] = e
  BY <1>2 DEF FiveIntegers
<1> QED BY <1>3, <1>4 DEF e

LEMMA CandidatesOrdered ==
  ASSUME NEW S, NEW rs \in Seq(S), NEW C \in SUBSET Tasks
  PROVE  Orders({p \in C \X C : Precedes(p[1], p[2], rs)}, C)
<1> DEFINE R == {p \in C \X C : Precedes(p[1], p[2], rs)}
<1>1. \A x, y \in C : <<x, y>> \in R <=> Precedes(x, y, rs)
  BY Zenon
<1>2. \A x, y : Precedes(x, y, rs) <=> Outranks(Priority(x, rs), Priority(y, rs))
  BY DEF Precedes, Outranks
<1>3. \A x \in C : FiveIntegers(Priority(x, rs)) /\ Priority(x, rs)[5] = -x /\ x \in Nat
  BY PriorityIs, PortfolioConstants
<1>4. \A a, b, c : FiveIntegers(a) /\ FiveIntegers(b) /\ FiveIntegers(c) =>
        /\ ~Outranks(a, a)
        /\ a[5] # b[5] => Outranks(a, b) \/ Outranks(b, a)
        /\ Outranks(a, b) /\ Outranks(b, c) => Outranks(a, c)
  BY LexicographicOrder
<1> HIDE DEF R
<1>5. \A x \in C : ~Precedes(x, x, rs)
  BY <1>2, <1>3, <1>4
<1>6. ASSUME NEW x \in C, NEW y \in C, x # y
      PROVE  Precedes(x, y, rs) \/ Precedes(y, x, rs)
  <2>1. Priority(x, rs)[5] # Priority(y, rs)[5]
    BY <1>3, <1>6
  <2> QED BY <1>2, <1>3, <1>4, <2>1
<1>7. ASSUME NEW x \in C, NEW y \in C, NEW z \in C, Precedes(x, y, rs), Precedes(y, z, rs)
      PROVE  Precedes(x, z, rs)
  BY <1>2, <1>3, <1>4, <1>7
<1>8. Orders(R, C)
  BY <1>1, <1>5, <1>6, <1>7 DEF Orders
<1> QED BY <1>8 DEF R

Statuses == {"answered_by_existing_receipt", "satisfied_by_existing_evidence", "selected",
             "declined_for_box_capacity", "deferred_by_safe_wind_down",
             "declined_for_higher_value_proof"}
Decisions == [task : Tasks, status : Statuses, required : BOOLEAN, requests : SUBSET Requests,
              receipts : SUBSET Tasks]

\* What selecting from the tasks in done may have led to.
Selected(sel, done, receipts0) ==
  /\ sel = [chosen |-> sel.chosen, files |-> sel.files, seconds |-> sel.seconds,
            decisions |-> sel.decisions]
  /\ sel.chosen \in Seq(done \ Receipted(receipts0)) /\ IsInjective(sel.chosen)
  /\ sel.decisions \in Seq(Decisions)

LEMMA LengthenedInjective ==
  ASSUME NEW S, NEW s \in Seq(S), IsInjective(s), NEW x, x \notin S
  PROVE  Append(s, x) \in Seq(S \cup {x}) /\ IsInjective(Append(s, x))
<1>1. s \in Seq(S \cup {x})
  OBVIOUS
<1>2. Append(s, x) \in Seq(S \cup {x})
  BY <1>1
<1>3. \A i \in DOMAIN s : s[i] \in S
  OBVIOUS
<1>4. /\ DOMAIN Append(s, x) = 1 .. Len(s) + 1 /\ DOMAIN s = 1 .. Len(s) /\ Len(s) \in Nat
      /\ \A i \in 1 .. Len(s) + 1 : Append(s, x)[i] = IF i = Len(s) + 1 THEN x ELSE s[i]
  OBVIOUS
<1>5. ASSUME NEW i \in 1 .. Len(s) + 1, NEW j \in 1 .. Len(s) + 1,
             Append(s, x)[i] = Append(s, x)[j]
      PROVE  i = j
  BY <1>3, <1>4, <1>5 DEF IsInjective
<1> QED BY <1>2, <1>4, <1>5 DEF IsInjective

LEMMA Deciding ==
  ASSUME NEW receipts0, \A i \in DOMAIN receipts0 : receipts0[i].id \in Tasks,
         NEW rs, NEW budget, NEW runtime, NEW done, NEW t \in Tasks, t \notin done, NEW sel,
         Selected(sel, done, receipts0)
  PROVE  Selected(Decide(sel, t, rs, receipts0, budget, runtime), done \cup {t}, receipts0)
<1> DEFINE D == Decide(sel, t, rs, receipts0, budget, runtime)
           exact == ExactReceipts(t, receipts0)
           shared == SharedReceipts(t, rs, receipts0)
<1>1. exact = {} => t \notin Receipted(receipts0)
  BY DEF ExactReceipts, SetOfSeq, Receipted
<1>2. ASSUME NEW status \in Statuses, NEW from \in {exact, shared}
      PROVE  Decision(t, status, rs, from) \in Decisions
  <2>1. \A r \in from : r.id \in Tasks
    BY DEF ExactReceipts, SharedReceipts, SetOfSeq
  <2>2. IsRequired(t, rs) \in BOOLEAN /\ RequestsOf(t, rs) \subseteq Requests
    BY DEF IsRequired, RequestsOf, OpenFor
  <2> HIDE DEF exact, shared
  <2>3. {r.id : r \in from} \subseteq Tasks
    BY <2>1
  <2> QED BY <2>2, <2>3 DEF Decision, Decisions
<1>3. \E status \in Statuses, from \in {exact, shared} :
         LET decided == [sel EXCEPT !.decisions = Append(@, Decision(t, status, rs, from))]
         IN \/ D = decided
            \/ /\ exact = {}
               /\ D = [decided EXCEPT !.chosen = Append(@, t), !.seconds = @ + Cost(t),
                          !.files = IF t \in Tests THEN @ \cup {File[t]} ELSE @]
  <2> DEFINE status == StatusOfCandidate(sel, t, rs, receipts0, budget, runtime)
             from == IF exact # {} THEN exact ELSE shared
  <2>1. status \in Statuses /\ (status = "selected" => exact = {})
    BY DEF StatusOfCandidate, Statuses
  <2>2. from \in {exact, shared}
    OBVIOUS
  <2> HIDE DEF status, exact, shared
  <2>3. LET decided == [sel EXCEPT !.decisions = Append(@, Decision(t, status, rs, from))]
        IN D = IF status # "selected" THEN decided
               ELSE [decided EXCEPT !.chosen = Append(@, t), !.seconds = @ + Cost(t),
                          !.files = IF t \in Tests THEN @ \cup {File[t]} ELSE @]
    BY DEF Decide, status, exact, shared
  <2> HIDE DEF from, D
  <2> QED BY <2>1, <2>2, <2>3
<1>4. PICK status \in Statuses, from \in {exact, shared} :
         LET decided == [sel EXCEPT !.decisions = Append(@, Decision(t, status, rs, from))]
         IN \/ D = decided
            \/ /\ exact = {}
               /\ D = [decided EXCEPT !.chosen = Append(@, t), !.seconds = @ + Cost(t),
                          !.files = IF t \in Tests THEN @ \cup {File[t]} ELSE @]
  BY <1>3
<1>5. Decision(t, status, rs, from) \in Decisions
  BY <1>2
<1> DEFINE d == Decision(t, status, rs, from)
           left0 == done \ Receipted(receipts0)
           left1 == (done \cup {t}) \ Receipted(receipts0)
<1> HIDE DEF D, exact, shared, d
<1>6. Append(sel.decisions, d) \in Seq(Decisions)
  BY <1>5 DEF Selected, d
<1>7. sel.chosen \in Seq(left0) /\ left0 \subseteq left1 /\ IsInjective(sel.chosen)
  BY DEF Selected
<1>8. exact = {} => t \in left1 /\ t \notin left0
  BY <1>1 DEF exact
<1> HIDE DEF left0, left1
<1>9. sel.chosen \in Seq(left1)
  BY <1>7
<1>10. exact = {} => Append(sel.chosen, t) \in Seq(left1) /\ IsInjective(Append(sel.chosen, t))
  <2>1. exact = {} => IsInjective(Append(sel.chosen, t))
    BY <1>7, <1>8, LengthenedInjective
  <2> QED BY <1>8, <1>9, <2>1
<1>11. \/ /\ D.chosen = sel.chosen /\ D.decisions = Append(sel.decisions, d)
          /\ D = [chosen |-> D.chosen, files |-> D.files, seconds |-> D.seconds,
                  decisions |-> D.decisions]
       \/ /\ exact = {} /\ D.chosen = Append(sel.chosen, t)
          /\ D.decisions = Append(sel.decisions, d)
          /\ D = [chosen |-> D.chosen, files |-> D.files, seconds |-> D.seconds,
                  decisions |-> D.decisions]
  BY <1>4 DEF Selected, d
<1> QED BY <1>6, <1>7, <1>9, <1>10, <1>11 DEF Selected, D, left1

\* Whatever is selected is a candidate without a receipt, once; and every
\* decision is recorded in full.
LEMMA SelectionSound ==
  ASSUME NEW receipts0, \A i \in DOMAIN receipts0 : receipts0[i].id \in Tasks,
         NEW S, NEW rs \in Seq(S), NEW budget, NEW runtime, NEW C \in SUBSET Tasks
  PROVE  Selected(Selection(C, rs, receipts0, budget, runtime), C, receipts0)
<1> DEFINE R == {p \in C \X C : Precedes(p[1], p[2], rs)}
           order == Ranked(C, R)
           N == Cardinality(C)
           Step(s, t) == Decide(s, t, rs, receipts0, budget, runtime)
           Is(g, n) == g = [k \in 0 .. n |-> IF k = 0 THEN {NothingChosen}
                                             ELSE {Step(s, order[k]) : s \in g[k - 1]}]
           Reached(n) == \E g : Is(g, n)
           sel == CHOOSE g : g = [k \in 0 .. N |-> IF k = 0 THEN {NothingChosen}
                                             ELSE {Step(s, order[k]) : s \in g[k - 1]}]
           Done(n) == {order[k] : k \in 1 .. n}
           Right(n) == \E s : sel[n] = {s} /\ Selected(s, Done(n), receipts0)
<1>1. IsFiniteSet(C)
  BY PortfolioConstants, FS_Subset
<1>2. Orders(R, C)
  BY CandidatesOrdered
<1>3. Selection(C, rs, receipts0, budget, runtime) = CHOOSE s \in sel[N] : TRUE
  BY DEF Selection
<1> HIDE DEF R
<1>4. /\ N \in Nat /\ order \in [1 .. N -> C]
      /\ \A a, b \in 1 .. N : a # b => order[a] # order[b]
      /\ \A x \in C : \E a \in 1 .. N : order[a] = x
  BY <1>1, <1>2, RankedLists
<1> HIDE DEF order, N
<1>5. Reached(0)
  <2> DEFINE g == [k \in 0 .. 0 |-> {NothingChosen}]
  <2>1. Is(g, 0)
    OBVIOUS
  <2> HIDE DEF g
  <2> QED BY <2>1
<1>6. ASSUME NEW n \in 1 .. N, Reached(n - 1)
      PROVE  Reached(n)
  <2>1. PICK g : Is(g, n - 1)
    BY <1>6
  <2> DEFINE last == {Step(x, order[n]) : x \in g[n - 1]}
             h == [k \in 0 .. n |-> IF k = n THEN last ELSE g[k]]
  <2>2. \A k \in 0 .. n - 1 : g[k] = IF k = 0 THEN {NothingChosen}
                                     ELSE {Step(x, order[k]) : x \in g[k - 1]}
    BY <2>1
  <2>3. last = {Step(x, order[n]) : x \in g[n - 1]}
    OBVIOUS
  <2> HIDE DEF last, Step
  <2>4. ASSUME NEW k \in 0 .. n
        PROVE  h[k] = IF k = 0 THEN {NothingChosen} ELSE {Step(x, order[k]) : x \in h[k - 1]}
    <3>0. n \in Nat /\ n # 0
      BY <1>4
    <3>1. CASE k = n
      <4>1. h[k] = last /\ h[k - 1] = g[n - 1] /\ k # 0
        BY <3>0, <3>1
      <4> QED BY <2>3, <3>1, <4>1
    <3>2. CASE k \in 1 .. n - 1
      <4>1. h[k] = g[k] /\ h[k - 1] = g[k - 1] /\ k # 0 /\ k \in 0 .. n - 1
        BY <3>0, <3>2
      <4> QED BY <2>2, <4>1
    <3>3. CASE k = 0
      <4>1. h[k] = g[k] /\ k \in 0 .. n - 1
        BY <3>0, <3>3
      <4> QED BY <2>2, <3>3, <4>1
    <3> QED BY <3>0, <3>1, <3>2, <3>3
  <2>5. h = [k \in 0 .. n |-> h[k]]
    BY <1>4
  <2> HIDE DEF h
  <2>6. Is(h, n)
    BY <2>4, <2>5
  <2> HIDE DEF Is
  <2> QED BY <2>6
<1>7. Reached(N)
  <2> DEFINE bad == {n \in 0 .. N : ~Reached(n)}
  <2>1. bad \subseteq Nat /\ N \in 0 .. N
    BY <1>4
  <2>2. ASSUME NEW n \in bad, \A k \in bad : n <= k
        PROVE  FALSE
    <3> HIDE DEF Reached
    <3>1. n \in 0 .. N /\ ~Reached(n)
      OBVIOUS
    <3>2. n \in 1 .. N /\ n - 1 \in 0 .. N /\ ~(n <= n - 1)
      BY <1>4, <1>5, <3>1
    <3>3. Reached(n - 1)
      BY <2>2, <3>2
    <3> QED BY <1>6, <3>1, <3>2, <3>3
  <2> HIDE DEF bad
  <2>3. bad = {}
    BY <2>1, <2>2, LeastOne
  <2> QED BY <2>1, <2>3 DEF bad
<1>8. Is(sel, N)
  <2>1. PICK g : Is(g, N)
    BY <1>7
  <2> HIDE DEF Step
  <2> QED BY <2>1
<1> HIDE DEF sel
<1>9. \A k \in 0 .. N : sel[k] = IF k = 0 THEN {NothingChosen}
                                 ELSE {Step(x, order[k]) : x \in sel[k - 1]}
  <2> HIDE DEF Step
  <2> QED BY <1>8
<1> HIDE DEF Is
<1>10. Right(0)
  <2>1. Done(0) = {}
    OBVIOUS
  <2>2. Selected(NothingChosen, {}, receipts0)
    BY DEF Selected, NothingChosen, IsInjective
  <2>3. sel[0] = {NothingChosen}
    <3>1. 0 \in 0 .. N
      BY <1>4
    <3> HIDE DEF Step
    <3> QED BY <1>9, <3>1
  <2> HIDE DEF Done, Step
  <2> QED BY <2>1, <2>2, <2>3
<1>11. ASSUME NEW n \in 1 .. N, Right(n - 1)
       PROVE  Right(n)
  <2>1. PICK s : sel[n - 1] = {s} /\ Selected(s, Done(n - 1), receipts0)
    BY <1>11
  <2>2. order[n] \in C /\ order[n] \notin Done(n - 1) /\ Done(n) = Done(n - 1) \cup {order[n]}
    <3>0. n \in Nat /\ n - 1 \in Nat /\ \A k : k \in 1 .. n <=> (k \in 1 .. n - 1 \/ k = n)
      BY <1>4
    <3>1. order[n] \in C
      BY <1>4
    <3>2. \A k \in 1 .. n - 1 : order[k] # order[n]
      BY <1>4, <3>0
    <3> QED BY <3>0, <3>1, <3>2
  <2>3. Selected(Step(s, order[n]), Done(n), receipts0)
    <3> HIDE DEF Done
    <3>1. order[n] \in Tasks
      BY <2>2
    <3> QED BY <2>1, <2>2, <3>1, Deciding
  <2>4. sel[n] = {Step(x, order[n]) : x \in sel[n - 1]}
    <3> HIDE DEF Step
    <3>1. n \in 0 .. N /\ n # 0
      BY <1>4
    <3> QED BY <1>9, <3>1
  <2> HIDE DEF Done, Step
  <2>5. sel[n] = {Step(s, order[n])}
    BY <2>1, <2>4
  <2> QED BY <2>3, <2>5
<1>12. Right(N)
  <2> DEFINE bad == {n \in 0 .. N : ~Right(n)}
  <2>1. bad \subseteq Nat /\ N \in 0 .. N
    BY <1>4
  <2>2. ASSUME NEW n \in bad, \A k \in bad : n <= k
        PROVE  FALSE
    <3> HIDE DEF Right
    <3>1. n \in 0 .. N /\ ~Right(n)
      OBVIOUS
    <3>2. n \in 1 .. N /\ n - 1 \in 0 .. N /\ ~(n <= n - 1)
      BY <1>4, <1>10, <3>1
    <3>3. Right(n - 1)
      BY <2>2, <3>2
    <3> QED BY <1>11, <3>1, <3>2, <3>3
  <2> HIDE DEF bad
  <2>3. bad = {}
    BY <2>1, <2>2, LeastOne
  <2> QED BY <2>1, <2>3 DEF bad
<1>13. Done(N) = C
  BY <1>4
<1> HIDE DEF Done
<1> QED BY <1>3, <1>12, <1>13

--------------------------------------------------------------------------------
(***************************************************************************)
(* The invariant.  Of a run that has not failed and whose receipts are not *)
(* yet read back, WorkSound says what relates its receipts and its book:   *)
(* a task has a receipt, or is the one at hand, or nothing is known of it. *)
(***************************************************************************)
Sided == {"head", "base-plus-tests"}
Results == {"skipped_profile", "skipped_budget", "base_patch_failed", "head_passed",
            "head_failed", "discriminating", "non_discriminating", "timed_out",
            "terminated_without_exit_code"}
Rows == [side : Sided, status : {"passed", "failed", "timed_out", "skipped"}, exit : BOOLEAN,
         limit : Nat, ticks : Nat]
Receipts == [id : Tasks, requests : Seq(Requests), kind : {"head", "red_green", "build"},
             result : Results, rows : Seq(Rows)]
LeaseRecords == [task : Tasks, status : {"granted", "skipped_profile", "absent", "exhausted"},
                 ceiling : Nat]
Books == [log : [CommandTasks \cup SourceTasks -> Seq(TaskEvent)],
          expected : [Tasks -> Seq(Sided)], pending : SUBSET CommandTasks]

Pcs == {"initial", "seeded", "model", "request", "followup", "loop", "launch", "wait", "base",
        "publish", "reconcile", "terminal", "ledger", "done", "failed"}
Busy == {"launch", "wait", "base"}

RunTyped ==
  /\ pc \in Pcs
  /\ asked \in Seq(Requests)
  /\ phase \in [name : {"initial", "seeded", "model", "followup"}, requests : Seq(Requests),
                stage : {"tests", "builds"}]
  /\ loop = [queue |-> loop.queue, budget |-> loop.budget, ran |-> loop.ran,
             files |-> loop.files, spent |-> loop.spent]
  /\ loop.queue \in Seq(Tasks)
  /\ cmd = [task |-> cmd.task, side |-> cmd.side, rows |-> cmd.rows]
  /\ pc \in Busy => cmd.task \in Tasks /\ cmd.side \in Sided
  /\ child \in [CommandTasks -> {"none", "running", "gone", "unconfirmed"}]
  /\ tree \in BOOLEAN
  /\ book \in Books

\* The rows of the receipt of t, and what the receipt makes of them.
RowSound(t, row) ==
  /\ row \in Rows
  /\ row.limit = 0 => row = SkippedRow(row.side)
  /\ row.limit # 0 => /\ row.limit = Allowance[t]
                      /\ row.status = "skipped" => row.ticks > 0

PassedHead(t, rows) ==
  /\ Kind[t] = "red_green" /\ RowSound(t, rows[1]) /\ rows[1].side = "head"
  /\ rows[1].status = "passed" /\ rows[1].limit # 0

Whole(x) ==
  /\ x \in Receipts /\ x.kind = Kind[x.id]
  /\ \A r \in SetOfSeq(x.requests) : Target[r] = x.id
  /\ \A row \in SetOfSeq(x.rows) : RowSound(x.id, row)
  /\ \/ /\ Len(x.rows) = 1 /\ x.rows[1].side = "head"
        /\ ~(x.kind = "red_green" /\ x.rows[1].status = "passed")
        /\ IF x.rows[1].limit = 0 THEN x.result \in {"skipped_profile", "skipped_budget"}
           ELSE x.result = ResultOf(x.rows)
     \/ /\ Len(x.rows) = 2 /\ x.rows[2].side = "base-plus-tests" /\ PassedHead(x.id, x.rows)
        /\ IF x.rows[2].limit = 0 THEN x.result = "base_patch_failed"
           ELSE x.result = ResultOf(x.rows)

\* What a log says of a row.
SaysIn(log, row) ==
  \E e \in ToSet(log) :
    \/ e.kind = "SetupFailed" /\ row.status = "skipped"
    \/ /\ e.kind = "ProcessFinished"
       /\ \E o \in Outcomes : e.disposition = Disposition(o) /\ row.status = StatusOf(o)

Quiet(log) == \A e \in ToSet(log) : e.kind \notin {"ReceiptCreated", "ResourcesReleased"}

Untouched(b, c) == b.log[c] = << >> /\ c \notin b.pending

Recorded(b, t, row) ==
  LET c == <<t, row.side>>
  IN IF row.limit = 0 THEN Reaches(b.log[c], "TerminallyDeclined") /\ c \notin b.pending
     ELSE Reaches(b.log[c], "ReceiptPending") /\ c \in b.pending /\ SaysIn(b.log[c], row)

SidesOf(rows) == [i \in DOMAIN rows |-> rows[i].side]

Covered(b, t, rows) ==
  /\ b.expected[t] = SidesOf(rows)
  /\ \A row \in SetOfSeq(rows) : Recorded(b, t, row)
  /\ \A side \in Sided : (\A row \in SetOfSeq(rows) : row.side # side) => Untouched(b, <<t, side>>)

QuietBook(b) ==
  /\ b \in Books
  /\ \A c \in CommandTasks : Quiet(b.log[c])
  /\ \A c \in SourceTasks : b.log[c] = << >>

\* T is the task at hand, if there is one.
WorkSound(b, rs, T) ==
  /\ QuietBook(b)
  /\ rs \in Seq(Receipts)
  /\ \A i \in DOMAIN rs : Whole(rs[i]) /\ Covered(b, rs[i].id, rs[i].rows)
  /\ \A i, j \in DOMAIN rs : rs[i].id = rs[j].id => i = j
  /\ T \cap Receipted(rs) = {}
  /\ \A t \in Tasks \ (Receipted(rs) \cup T) : Covered(b, t, << >>)

AtHand == IF pc \in Busy THEN {cmd.task} ELSE {}

\* The rows a receipt has when a side of it begins.
RowsSoFar(t, side, rows) ==
  IF side = "base-plus-tests"
  THEN rows \in Seq(Rows) /\ Len(rows) = 1 /\ PassedHead(t, rows)
  ELSE rows = << >>

SidesTo(side) ==
  IF side = "base-plus-tests" THEN <<"head", "base-plus-tests">> ELSE <<"head">>

\* Command c is registered, and its log has reached st.
Opened(b, c, rows, st) ==
  /\ b.expected[c[1]] = SidesTo(c[2])
  /\ \A row \in SetOfSeq(rows) : Recorded(b, c[1], row)
  /\ Reaches(b.log[c], st) /\ c \notin b.pending
  /\ c[2] = "head" => Untouched(b, <<c[1], "base-plus-tests">>)

\* The command at hand: one side of its receipt after the other.
CommandSound ==
  /\ pc \in Busy => loop.queue # << >> /\ cmd.task = loop.queue[1]
  /\ pc = "base" => /\ cmd.side = "head" /\ RowsSoFar(cmd.task, "base-plus-tests", cmd.rows)
                    /\ Covered(book, cmd.task, cmd.rows)
  /\ pc \in {"launch", "wait"} =>
       /\ RowsSoFar(cmd.task, cmd.side, cmd.rows)
       /\ Opened(book, This, cmd.rows, IF pc = "launch" THEN "Setup" ELSE "Running")

QueueSound ==
  pc \in Busy \cup {"loop"} =>
    IsInjective(loop.queue) /\ SetOfSeq(loop.queue) \cap Receipted(receipts) = {}

Working0 == pc \notin {"terminal", "ledger", "done", "failed"}

\* What was run is read back, and no other command is credited.
ReadBack(b, rs) ==
  /\ b \in Books
  /\ rs \in Seq(Receipts) /\ \A i \in DOMAIN rs : Whole(rs[i])
  /\ \A c \in CommandTasks :
       \/ b.log[c] = << >>
       \/ Reaches(b.log[c], "TerminallyDeclined") /\ Quiet(b.log[c])
       \/ /\ Reaches(b.log[c], "ResourcesReleased")
          /\ \E i \in DOMAIN rs : \E row \in SetOfSeq(rs[i].rows) :
               rs[i].id = c[1] /\ row.side = c[2] /\ SaysIn(b.log[c], row)
  /\ \A i \in DOMAIN rs : \A row \in SetOfSeq(rs[i].rows) :
       row.limit > 0 => Logged(b, <<rs[i].id, row.side>>, "ReceiptCreated")

ProcessesSound ==
  /\ pc \notin {"wait", "failed"} => \A c \in CommandTasks : child[c] \notin Alive
  /\ pc = "wait" => /\ This \in CommandTasks
                    /\ \A c \in CommandTasks : child[c] \in Alive <=> c = This
  /\ pc \in {"launch", "wait"} /\ OnBase => tree
  /\ pc = "failed" =>
       /\ \A c, d \in CommandTasks : child[c] \in Alive /\ child[d] \in Alive => c = d
       /\ \A c \in CommandTasks :
            child[c] \in Alive => Quiet(book.log[c]) /\ (c[2] = "base-plus-tests" => tree)

FailureSound ==
  pc = "failed" =>
    /\ fault
    /\ \A c \in CommandTasks : ~Logged(book, c, "ReceiptCreated")

EndSound ==
  /\ pc \in {"reconcile", "terminal", "ledger", "done"} => published = receipts
  /\ pc \in {"terminal", "ledger", "done"} => ReadBack(book, receipts)
  /\ pc = "terminal" => \A c \in SourceTasks : book.log[c] = << >>
  /\ pc \in {"ledger", "done"} =>
       \A c \in SourceTasks : book.log[c] = << >> \/ Reaches(book.log[c], "TerminallyDeclined")
  /\ pc = "done" => ledger = "published"
  /\ pc \notin {"ledger", "done"} => verdicts = [r \in Requests |-> "none"]
  /\ pc \in {"ledger", "done"} =>
       /\ \A r \in Requests :
            verdicts[r] = "satisfied" =>
              \E x \in SetOfSeq(published) : x.id = Target[r] /\ Proves(x)
       /\ \A r \in SetOfSeq(asked) : verdicts[r] # "none"

RunInv ==
  /\ RunTyped
  /\ Working0 => WorkSound(book, receipts, AtHand)
  /\ CommandSound /\ QueueSound
  /\ ProcessesSound /\ FailureSound /\ EndSound

--------------------------------------------------------------------------------
(***************************************************************************)
(* What the calls of the proof task ledger do to a book.                   *)
(***************************************************************************)
\* b2 differs from b in what it says of c, at most.
Only(b, b2, c) ==
  /\ b2 \in Books
  /\ \A x \in CommandTasks \cup SourceTasks : x # c => b2.log[x] = b.log[x]
  /\ \A t \in Tasks : t # c[1] => b2.expected[t] = b.expected[t]
  /\ \A x \in CommandTasks : x # c => (x \in b2.pending <=> x \in b.pending)

LEMMA CommandTaskIs ==
  ASSUME NEW c \in CommandTasks
  PROVE  /\ c[1] \in Tasks /\ c[2] \in Sided /\ c = <<c[1], c[2]>>
         /\ c \notin SourceTasks
BY DEF CommandTasks, SourceTasks, Sided

LEMMA CommandTaskOf ==
  ASSUME NEW t \in Tasks, NEW side \in Sided
  PROVE  <<t, side>> \in CommandTasks /\ <<t, side>>[1] = t /\ <<t, side>>[2] = side
BY DEF CommandTasks, Sided

LEMMA BookIs ==
  ASSUME NEW b \in Books
  PROVE  /\ b = [log |-> b.log, expected |-> b.expected, pending |-> b.pending]
         /\ b.log \in [CommandTasks \cup SourceTasks -> Seq(TaskEvent)]
         /\ b.expected \in [Tasks -> Seq(Sided)] /\ b.pending \subseteq CommandTasks
BY DEF Books

LEMMA Logs ==
  ASSUME NEW b \in Books, NEW c \in CommandTasks, NEW es \in Seq(TaskEvent)
  PROVE  /\ Only(b, Log(b, c, es), c)
         /\ Log(b, c, es).log[c] = b.log[c] \o es
         /\ Log(b, c, es).expected = b.expected /\ Log(b, c, es).pending = b.pending
<1>1. b.log[c] \o es \in Seq(TaskEvent)
  BY Appending, BookIs
<1> DEFINE l == [b.log EXCEPT ![c] = @ \o es]
<1>2. Log(b, c, es) = [b EXCEPT !.log = l]
  BY DEF Log, Books
<1>3. /\ l \in [CommandTasks \cup SourceTasks -> Seq(TaskEvent)]
      /\ l[c] = b.log[c] \o es
      /\ \A x \in CommandTasks \cup SourceTasks : x # c => l[x] = b.log[x]
  BY <1>1, BookIs
<1> HIDE DEF l
<1>4. Log(b, c, es) \in Books
  BY <1>2, <1>3 DEF Books
<1>5. /\ Log(b, c, es).log = l /\ Log(b, c, es).expected = b.expected
      /\ Log(b, c, es).pending = b.pending
  BY <1>2 DEF Books
<1> QED BY <1>3, <1>4, <1>5 DEF Only

LEMMA Registers ==
  ASSUME NEW b \in Books, NEW c \in CommandTasks
  PROVE  /\ Only(b, Registered(b, c), c)
         /\ Registered(b, c).log = b.log
         /\ Registered(b, c).expected[c[1]] = Append(b.expected[c[1]], c[2])
         /\ Registered(b, c).pending = b.pending
<1>1. c[1] \in Tasks /\ Append(b.expected[c[1]], c[2]) \in Seq(Sided)
  BY BookIs, CommandTaskIs
<1> DEFINE e == [b.expected EXCEPT ![c[1]] = Append(@, c[2])]
<1>2. Registered(b, c) = [b EXCEPT !.expected = e]
  BY DEF Registered, Books
<1>3. /\ e \in [Tasks -> Seq(Sided)] /\ e[c[1]] = Append(b.expected[c[1]], c[2])
      /\ \A t \in Tasks : t # c[1] => e[t] = b.expected[t]
  BY <1>1, BookIs
<1> HIDE DEF e
<1>4. Registered(b, c) \in Books
  BY <1>2, <1>3 DEF Books
<1>5. /\ Registered(b, c).log = b.log /\ Registered(b, c).expected = e
      /\ Registered(b, c).pending = b.pending
  BY <1>2 DEF Books
<1> QED BY <1>3, <1>4, <1>5 DEF Only

LEMMA OnlyTwice ==
  ASSUME NEW c, NEW b, NEW b1, NEW b2, Only(b, b1, c), Only(b1, b2, c)
  PROVE  Only(b, b2, c)
BY DEF Only

LEMMA Waits ==
  ASSUME NEW b \in Books, NEW c \in CommandTasks
  PROVE  /\ Only(b, Awaiting(b, c), c)
         /\ Awaiting(b, c).log = b.log /\ Awaiting(b, c).expected = b.expected
         /\ Awaiting(b, c).pending = b.pending \cup {c}
<1>1. /\ Awaiting(b, c).log = b.log /\ Awaiting(b, c).expected = b.expected
      /\ Awaiting(b, c).pending = b.pending \cup {c}
      /\ Awaiting(b, c) \in Books
  BY DEF Awaiting, Books
<1> QED BY <1>1 DEF Only

\* Only the last events of a log tell whether it stays quiet.
LEMMA QuietAppended ==
  ASSUME NEW es \in Seq(TaskEvent), NEW us \in Seq(TaskEvent)
  PROVE  /\ Quiet(es \o us) <=> Quiet(es) /\ Quiet(us)
         /\ \A row : SaysIn(es, row) \/ SaysIn(us, row) => SaysIn(es \o us, row)
BY Appending DEF Quiet, SaysIn

LEMMA OneEvent ==
  ASSUME NEW e \in TaskEvent
  PROVE  /\ <<e>> \in Seq(TaskEvent)
         /\ Quiet(<<e>>) <=> e.kind \notin {"ReceiptCreated", "ResourcesReleased"}
         /\ \A row : SaysIn(<<e>>, row) <=>
              \/ e.kind = "SetupFailed" /\ row.status = "skipped"
              \/ /\ e.kind = "ProcessFinished"
                 /\ \E o \in Outcomes : e.disposition = Disposition(o) /\ row.status = StatusOf(o)
<1>1. <<e>> \in Seq(TaskEvent) /\ ToSet(<<e>>) = {e}
  BY EventLists
<1> DEFINE es == <<e>>
<1> HIDE DEF es
<1>2. es \in Seq(TaskEvent) /\ ToSet(es) = {e}
  BY <1>1 DEF es
<1>3. Quiet(es) <=> e.kind \notin {"ReceiptCreated", "ResourcesReleased"}
  BY <1>2 DEF Quiet
<1>4. \A row : SaysIn(es, row) <=>
              \/ e.kind = "SetupFailed" /\ row.status = "skipped"
              \/ /\ e.kind = "ProcessFinished"
                 /\ \E o \in Outcomes : e.disposition = Disposition(o) /\ row.status = StatusOf(o)
  BY <1>2 DEF SaysIn
<1> QED BY <1>2, <1>3, <1>4 DEF es

LEMMA NothingAppended ==
  ASSUME NEW es \in Seq(TaskEvent)
  PROVE  << >> \o es = es
OBVIOUS

\* begin_command().
LEMMA BeginsCommand ==
  ASSUME NEW b \in Books, NEW c \in CommandTasks, b.log[c] = << >>
  PROVE  /\ Only(b, Began(b, c), c)
         /\ Reaches(Began(b, c).log[c], "Setup") /\ Quiet(Began(b, c).log[c])
         /\ Began(b, c).expected[c[1]] = Append(b.expected[c[1]], c[2])
         /\ Began(b, c).pending = b.pending
<1> DEFINE es == Queueing \o AdmitAndSetup
           r == Registered(b, c)
<1>1. es \in Seq(TaskEvent) /\ Quiet(es) /\ Reaches(es, "Setup")
  BY BeganList, ReachesSetup DEF Quiet
<1>2. Began(b, c) = Log(r, c, es)
  BY DEF Began, Queueing
<1> HIDE DEF es, r
<1>3. /\ Only(b, r, c) /\ r \in Books /\ r.log = b.log /\ r.pending = b.pending
      /\ r.expected[c[1]] = Append(b.expected[c[1]], c[2])
  BY Registers DEF r, Only
<1>4. /\ Only(r, Log(r, c, es), c) /\ Log(r, c, es).log[c] = r.log[c] \o es
      /\ Log(r, c, es).expected = r.expected /\ Log(r, c, es).pending = r.pending
  BY <1>1, <1>3, Logs
<1>5. r.log[c] \o es = es
  BY <1>1, <1>3, NothingAppended
<1>6. Only(b, Log(r, c, es), c)
  BY <1>3, <1>4, OnlyTwice
<1> QED BY <1>1, <1>2, <1>3, <1>4, <1>5, <1>6

LEMMA Refusing ==
  ASSUME NEW d \in Dispositions
  PROVE  /\ <<ProposedNow, DeclinedNow(d)>> \in Seq(TaskEvent)
         /\ Quiet(<<ProposedNow, DeclinedNow(d)>>)
<1>1. ProposedNow \in TaskEvent /\ DeclinedNow(d) \in TaskEvent
  BY TaskEventsAre
<1> DEFINE p == ProposedNow
           q == DeclinedNow(d)
<1>2. p.kind \notin {"ReceiptCreated", "ResourcesReleased"}
      /\ q.kind \notin {"ReceiptCreated", "ResourcesReleased"}
  BY KindsOfEvents
<1> HIDE DEF p, q
<1>3. <<p, q>> \in Seq(TaskEvent) /\ ToSet(<<p, q>>) = {p, q}
  BY <1>1, EventLists DEF p, q
<1>4. Quiet(<<p, q>>)
  BY <1>2, <1>3 DEF Quiet
<1> QED BY <1>3, <1>4 DEF p, q

\* decline_command().
LEMMA DeclinesCommand ==
  ASSUME NEW b \in Books, NEW c \in CommandTasks, b.log[c] = << >>, NEW d \in Dispositions
  PROVE  /\ Only(b, Declined(b, c, d), c)
         /\ Reaches(Declined(b, c, d).log[c], "TerminallyDeclined")
         /\ Quiet(Declined(b, c, d).log[c])
         /\ Declined(b, c, d).expected[c[1]] = Append(b.expected[c[1]], c[2])
         /\ Declined(b, c, d).pending = b.pending
<1> DEFINE es == <<ProposedNow, DeclinedNow(d)>>
           r == Registered(b, c)
<1>1. es \in Seq(TaskEvent) /\ Quiet(es) /\ Reaches(es, "TerminallyDeclined")
  BY Refusing, ReachesRefusal
<1>2. Declined(b, c, d) = Log(r, c, es)
  BY DEF Declined
<1> HIDE DEF es, r
<1>3. /\ Only(b, r, c) /\ r \in Books /\ r.log = b.log /\ r.pending = b.pending
      /\ r.expected[c[1]] = Append(b.expected[c[1]], c[2])
  BY Registers DEF r, Only
<1>4. /\ Only(r, Log(r, c, es), c) /\ Log(r, c, es).log[c] = r.log[c] \o es
      /\ Log(r, c, es).expected = r.expected /\ Log(r, c, es).pending = r.pending
  BY <1>1, <1>3, Logs
<1>5. r.log[c] \o es = es
  BY <1>1, <1>3, NothingAppended
<1>6. Only(b, Log(r, c, es), c)
  BY <1>3, <1>4, OnlyTwice
<1> QED BY <1>1, <1>2, <1>3, <1>4, <1>5, <1>6

\* One event of a command that runs.
LEMMA LogsEvent ==
  ASSUME NEW b \in Books, NEW c \in CommandTasks, Quiet(b.log[c]), NEW e \in TaskEvent,
         e.kind \notin {"ReceiptCreated", "ResourcesReleased"}
  PROVE  /\ Only(b, Log(b, c, <<e>>), c) /\ Log(b, c, <<e>>) \in Books
         /\ Log(b, c, <<e>>).log[c] = b.log[c] \o <<e>> /\ Quiet(Log(b, c, <<e>>).log[c])
         /\ Log(b, c, <<e>>).expected = b.expected /\ Log(b, c, <<e>>).pending = b.pending
         /\ \A row : SaysIn(b.log[c], row) \/ SaysIn(<<e>>, row) => SaysIn(b.log[c] \o <<e>>, row)
<1> DEFINE es == <<e>>
<1>1. es \in Seq(TaskEvent) /\ Quiet(es)
  BY OneEvent
<1> HIDE DEF es
<1>2. b.log[c] \in Seq(TaskEvent)
  BY BookIs
<1>3. /\ Only(b, Log(b, c, es), c) /\ Log(b, c, es).log[c] = b.log[c] \o es
      /\ Log(b, c, es).expected = b.expected /\ Log(b, c, es).pending = b.pending
  BY <1>1, Logs
<1>4. /\ Quiet(b.log[c] \o es)
      /\ \A row : SaysIn(b.log[c], row) \/ SaysIn(es, row) => SaysIn(b.log[c] \o es, row)
  BY <1>1, <1>2, QuietAppended
<1>5. Log(b, c, es) \in Books
  BY <1>3 DEF Only
<1> QED BY <1>3, <1>4, <1>5 DEF es

\* run_started().
LEMMA RunsCommand ==
  ASSUME NEW b \in Books, NEW c \in CommandTasks, Quiet(b.log[c]), Reaches(b.log[c], "Setup")
  PROVE  /\ Only(b, Ran(b, c), c) /\ Ran(b, c).expected = b.expected
         /\ Ran(b, c).pending = b.pending
         /\ Reaches(Ran(b, c).log[c], "Running") /\ Quiet(Ran(b, c).log[c])
<1>1. Event("RunStarted") \in TaskEvent
      /\ Event("RunStarted").kind \notin {"ReceiptCreated", "ResourcesReleased"}
  BY TaskEventsAre, KindsOfEvents DEF EventKinds
<1>2. b.log[c] \in Seq(TaskEvent)
  BY BookIs
<1> QED BY <1>1, <1>2, LogsEvent, ReachesNext DEF Ran

\* setup_failed().
LEMMA LosesSetup ==
  ASSUME NEW b \in Books, NEW c \in CommandTasks, Quiet(b.log[c]), Reaches(b.log[c], "Setup")
  PROVE  /\ Only(b, SetupLost(b, c), c) /\ SetupLost(b, c).expected = b.expected
         /\ SetupLost(b, c).pending = b.pending \cup {c}
         /\ Reaches(SetupLost(b, c).log[c], "ReceiptPending") /\ Quiet(SetupLost(b, c).log[c])
         /\ \A row : row.status = "skipped" => SaysIn(SetupLost(b, c).log[c], row)
<1> DEFINE e == Event("SetupFailed")
           l == Log(b, c, <<e>>)
<1>1. e \in TaskEvent /\ e.kind = "SetupFailed"
  BY TaskEventsAre, KindsOfEvents DEF EventKinds
<1>2. b.log[c] \in Seq(TaskEvent)
  BY BookIs
<1>3. Reaches(b.log[c] \o <<e>>, "ReceiptPending")
  BY <1>2, ReachesNext
<1>4. SetupLost(b, c) = Awaiting(l, c)
  BY DEF SetupLost
<1> HIDE DEF e
<1>5. /\ Only(b, l, c) /\ l \in Books /\ l.expected = b.expected /\ l.pending = b.pending
      /\ l.log[c] = b.log[c] \o <<e>> /\ Quiet(l.log[c])
      /\ \A row : SaysIn(<<e>>, row) => SaysIn(b.log[c] \o <<e>>, row)
  BY <1>1, LogsEvent
<1>6. \A row : row.status = "skipped" => SaysIn(<<e>>, row)
  BY <1>1, OneEvent
<1> HIDE DEF l
<1>7. /\ Only(l, Awaiting(l, c), c) /\ Awaiting(l, c).log = l.log
      /\ Awaiting(l, c).expected = l.expected /\ Awaiting(l, c).pending = l.pending \cup {c}
  BY <1>5, Waits
<1>8. Only(b, Awaiting(l, c), c)
  BY <1>5, <1>7, OnlyTwice
<1> QED BY <1>3, <1>4, <1>5, <1>6, <1>7, <1>8

\* process_finished(), then cleanup_finished().
LEMMA FinishesCommand ==
  ASSUME NEW b \in Books, NEW c \in CommandTasks, Quiet(b.log[c]), Reaches(b.log[c], "Running"),
         NEW o \in Outcomes
  PROVE  LET f == Finished(b, c, Disposition(o))
             u == CleanedUp(f, c)
         IN /\ Only(b, f, c) /\ Quiet(f.log[c]) /\ f.pending = b.pending
            /\ Only(b, u, c) /\ u.expected = b.expected /\ u.pending = b.pending \cup {c}
            /\ Reaches(u.log[c], "ReceiptPending") /\ Quiet(u.log[c])
            /\ \A row : row.status = StatusOf(o) => SaysIn(u.log[c], row)
<1> DEFINE d == Disposition(o)
           e == Concluded(d)
           k == Event("CleanupFinished")
           f == Finished(b, c, d)
           l == Log(f, c, <<k>>)
           u == CleanedUp(f, c)
<1>1. d \in Dispositions
  BY DEF Outcomes, Disposition, Dispositions
<1>2. e \in TaskEvent /\ e.kind = "ProcessFinished" /\ e.disposition = d
  BY <1>1, TaskEventsAre, KindsOfEvents
<1>3. k \in TaskEvent /\ k.kind = "CleanupFinished"
  BY TaskEventsAre, KindsOfEvents DEF EventKinds
<1>4. b.log[c] \in Seq(TaskEvent)
  BY BookIs
<1>5. Reaches(b.log[c] \o <<e>>, "Cleanup")
  BY <1>1, <1>4, ReachesNext
<1>6. f = Log(b, c, <<e>>) /\ u = Awaiting(l, c)
  BY DEF Finished, CleanedUp
<1>7. \A row : row.status = StatusOf(o) => SaysIn(<<e>>, row)
  BY <1>2, OneEvent
<1> HIDE DEF d, e, f, u
<1>8. /\ Only(b, f, c) /\ f \in Books /\ f.expected = b.expected /\ f.pending = b.pending
      /\ f.log[c] = b.log[c] \o <<e>> /\ Quiet(f.log[c])
      /\ \A row : SaysIn(<<e>>, row) => SaysIn(f.log[c], row)
  BY <1>2, <1>6, LogsEvent
<1>9. f.log[c] \in Seq(TaskEvent)
  BY <1>8, BookIs
<1>10. Reaches(f.log[c] \o <<k>>, "ReceiptPending")
  BY <1>5, <1>8, <1>9, ReachesNext
<1> HIDE DEF k
<1>11. /\ Only(f, l, c) /\ l \in Books /\ l.expected = f.expected /\ l.pending = f.pending
       /\ l.log[c] = f.log[c] \o <<k>> /\ Quiet(l.log[c])
       /\ \A row : SaysIn(f.log[c], row) => SaysIn(l.log[c], row)
  BY <1>3, <1>8, LogsEvent, ZenonT(60)
<1> HIDE DEF l
<1>12. /\ Only(l, u, c) /\ u.log = l.log
       /\ u.expected = l.expected /\ u.pending = l.pending \cup {c}
  BY <1>6, <1>11, Waits
<1>13. Only(b, u, c)
  BY <1>8, <1>11, <1>12, OnlyTwice
<1>14. /\ Only(b, f, c) /\ Quiet(f.log[c]) /\ f.pending = b.pending
       /\ Only(b, u, c) /\ u.expected = b.expected /\ u.pending = b.pending \cup {c}
       /\ Reaches(u.log[c], "ReceiptPending") /\ Quiet(u.log[c])
       /\ \A row : row.status = StatusOf(o) => SaysIn(u.log[c], row)
  BY <1>7, <1>8, <1>10, <1>11, <1>12, <1>13
<1> QED BY <1>14 DEF f, u, d

\* receipt_creation_failed_and_resources_released(): the command is credited
\* with nothing.
LEMMA LosesReceipt ==
  ASSUME NEW b \in Books, NEW c \in CommandTasks,
         \A x \in CommandTasks : ~Logged(b, x, "ReceiptCreated")
  PROVE  /\ ReceiptLost(b, c) \in Books
         /\ \A x \in CommandTasks : ~Logged(ReceiptLost(b, c), x, "ReceiptCreated")
<1> DEFINE p == Event("ReceiptCreationFailed")
           q == Event("ResourcesReleased")
           l == Log(b, c, ReceiptEvents(FALSE))
<1>1. p \in TaskEvent /\ q \in TaskEvent /\ p.kind # "ReceiptCreated" /\ q.kind # "ReceiptCreated"
  BY TaskEventsAre, KindsOfEvents DEF EventKinds
<1>2. ReceiptEvents(FALSE) = <<p, q>>
  BY DEF ReceiptEvents
<1> HIDE DEF p, q
<1>3. ReceiptEvents(FALSE) \in Seq(TaskEvent) /\ ToSet(ReceiptEvents(FALSE)) = {p, q}
  BY <1>1, <1>2, EventLists
<1> DEFINE es == ReceiptEvents(FALSE)
<1> HIDE DEF es
<1>4. Only(b, Log(b, c, es), c) /\ Log(b, c, es).log[c] = b.log[c] \o es
  BY <1>3, Logs DEF es
<1>5. b.log[c] \in Seq(TaskEvent)
  BY BookIs
<1>6. ToSet(b.log[c] \o es) = ToSet(b.log[c]) \cup ToSet(es)
  BY <1>3, <1>5, Appending DEF es
<1>7. l = Log(b, c, es)
  BY DEF es
<1> HIDE DEF l
<1>8. ASSUME NEW x \in CommandTasks
      PROVE  \A e \in ToSet(l.log[x]) : e.kind # "ReceiptCreated"
  <2>1. \A e \in ToSet(b.log[x]) : e.kind # "ReceiptCreated"
    BY DEF Logged, ToSet
  <2>2. CASE x = c
    BY <1>1, <1>3, <1>4, <1>6, <1>7, <2>1, <2>2 DEF es
  <2>3. CASE x # c
    BY <1>4, <1>7, <2>1, <2>3 DEF Only
  <2> QED BY <2>2, <2>3
<1>9. ReceiptLost(b, c) \in Books /\ ReceiptLost(b, c).log = l.log
  <2>1. ReceiptLost(b, c) = [l EXCEPT !.pending = @ \ {c}]
    BY DEF ReceiptLost, l
  <2>2. l \in Books
    BY <1>4, <1>7 DEF Only
  <2> QED BY <2>1, <2>2 DEF Books
<1> QED BY <1>8, <1>9 DEF Logged, ToSet

\* reconcile_pending_references().
LEMMA Reconciles ==
  ASSUME NEW b \in Books
  PROVE  /\ Reconciled(b) \in Books
         /\ \A c \in CommandTasks \cup SourceTasks :
              c \notin b.pending => Reconciled(b).log[c] = b.log[c]
         /\ \A c \in b.pending :
              /\ Logged(Reconciled(b), c, "ReceiptCreated")
              /\ Reaches(b.log[c], "ReceiptPending") =>
                   Reaches(Reconciled(b).log[c], "ResourcesReleased")
              /\ \A row : SaysIn(b.log[c], row) => SaysIn(Reconciled(b).log[c], row)
<1> DEFINE es == ReceiptEvents(TRUE)
           p == Event("ReceiptCreated")
           q == Event("ResourcesReleased")
           r == Reconciled(b)
           l == [t \in DOMAIN b.log |-> IF t \in b.pending THEN b.log[t] \o es ELSE b.log[t]]
<1>1. p \in TaskEvent /\ q \in TaskEvent /\ p.kind = "ReceiptCreated"
  BY TaskEventsAre, KindsOfEvents DEF EventKinds
<1>2. es = <<p, q>>
  BY DEF ReceiptEvents
<1>3. r = [[b EXCEPT !.log = l] EXCEPT !.pending = {}]
  BY DEF Reconciled, Closed, Books
<1> HIDE DEF p, q, es
<1>4. es \in Seq(TaskEvent) /\ ToSet(es) = {p, q}
  BY <1>1, <1>2, EventLists
<1>5. \A c \in CommandTasks \cup SourceTasks : b.log[c] \in Seq(TaskEvent)
  BY BookIs
<1>6. \A c \in CommandTasks \cup SourceTasks :
        /\ b.log[c] \o es \in Seq(TaskEvent)
        /\ ToSet(b.log[c] \o es) = ToSet(b.log[c]) \cup ToSet(es)
  BY <1>4, <1>5, Appending
<1>7. l \in [CommandTasks \cup SourceTasks -> Seq(TaskEvent)]
  BY <1>5, <1>6, BookIs
<1>8. \A c \in CommandTasks \cup SourceTasks :
        l[c] = IF c \in b.pending THEN b.log[c] \o es ELSE b.log[c]
  BY BookIs
<1> HIDE DEF l, r
<1>9. r \in Books /\ r.log = l
  BY <1>3, <1>7 DEF Books
<1>10. ASSUME NEW c \in b.pending
       PROVE  /\ Logged(r, c, "ReceiptCreated")
              /\ Reaches(b.log[c], "ReceiptPending") => Reaches(r.log[c], "ResourcesReleased")
              /\ \A row : SaysIn(b.log[c], row) => SaysIn(r.log[c], row)
  <2>1. c \in CommandTasks
    BY BookIs
  <2>2. r.log[c] = b.log[c] \o es
    BY <1>8, <1>9, <2>1
  <2>3. p \in ToSet(r.log[c])
    BY <1>4, <1>6, <2>1, <2>2
  <2>4. Logged(r, c, "ReceiptCreated")
    BY <1>1, <2>3 DEF Logged, ToSet
  <2>5. \A row : SaysIn(b.log[c], row) => SaysIn(r.log[c], row)
    BY <1>6, <2>1, <2>2 DEF SaysIn
  <2>6. Reaches(b.log[c], "ReceiptPending") => Reaches(r.log[c], "ResourcesReleased")
    BY <1>5, <2>1, <2>2, ReachesRelease DEF es
  <2> QED BY <2>4, <2>5, <2>6
<1>11. \A c \in CommandTasks \cup SourceTasks : c \notin b.pending => r.log[c] = b.log[c]
  BY <1>8, <1>9
<1> QED BY <1>9, <1>10, <1>11 DEF r

\* record_source_requests().
LEMMA RecordsSources ==
  ASSUME NEW b \in Books, \A c \in SourceTasks : b.log[c] = << >>,
         NEW ds, \A r \in DOMAIN ds : ds[r] \in Dispositions
  PROVE  /\ Sourced(b, ds) \in Books
         /\ \A c \in CommandTasks : Sourced(b, ds).log[c] = b.log[c]
         /\ \A c \in SourceTasks :
              \/ Sourced(b, ds).log[c] = << >>
              \/ Reaches(Sourced(b, ds).log[c], "TerminallyDeclined")
<1> DEFINE l == [t \in DOMAIN b.log |->
                   IF t[2] = "request" /\ t[1] \in DOMAIN ds
                   THEN b.log[t] \o <<ProposedNow, DeclinedNow(ds[t[1]])>> ELSE b.log[t]]
           s == Sourced(b, ds)
<1>1. s = [b EXCEPT !.log = l]
  BY DEF Sourced
<1>2. \A c \in CommandTasks : c[2] # "request" /\ b.log[c] \in Seq(TaskEvent)
  BY BookIs DEF CommandTasks
<1>3. \A c \in CommandTasks : l[c] = b.log[c]
  BY <1>2, BookIs
<1>4. ASSUME NEW c \in SourceTasks
      PROVE  /\ l[c] \in Seq(TaskEvent)
             /\ l[c] = << >> \/ Reaches(l[c], "TerminallyDeclined")
  <2>1. CASE c[2] = "request" /\ c[1] \in DOMAIN ds
    <3> DEFINE es == <<ProposedNow, DeclinedNow(ds[c[1]])>>
    <3>1. es \in Seq(TaskEvent) /\ Reaches(es, "TerminallyDeclined")
      BY <2>1, Refusing, ReachesRefusal
    <3>2. l[c] = << >> \o es
      BY <2>1, BookIs
    <3> HIDE DEF es, l
    <3> QED BY <3>1, <3>2, NothingAppended
  <2>2. CASE ~(c[2] = "request" /\ c[1] \in DOMAIN ds)
    <3>1. l[c] = << >>
      BY <2>2, BookIs
    <3> HIDE DEF l
    <3> QED BY <3>1
  <2> QED BY <2>1, <2>2
<1>5. DOMAIN l = CommandTasks \cup SourceTasks
  BY BookIs
<1>6. l = [t \in CommandTasks \cup SourceTasks |-> l[t]]
  BY <1>5
<1> HIDE DEF l, s
<1>7. l \in [CommandTasks \cup SourceTasks -> Seq(TaskEvent)]
  BY <1>2, <1>3, <1>4, <1>6
<1>8. s \in Books /\ s.log = l
  BY <1>1, <1>7 DEF Books
<1> QED BY <1>3, <1>4, <1>8 DEF s

--------------------------------------------------------------------------------
(***************************************************************************)
(* The receipts and the book.                                              *)
(***************************************************************************)
LEMMA ReachesSomething ==
  ASSUME NEW es \in Seq(TaskEvent), NEW st, Reaches(es, st), st # "Absent"
  PROVE  es # << >>
<1>1. Plays(<< >>, Unheard)
  BY PlaysNothing
<1>2. ASSUME es = << >> PROVE FALSE
  <2>1. PICK m : Plays(<< >>, m) /\ m.snap.state = st
    BY <1>2 DEF Reaches
  <2>2. Fed(Unheard, << >>) = {m} /\ Fed(Unheard, << >>) = {Unheard}
    <3> DEFINE none == << >>
    <3>1. none \in Seq(TaskEvent)
      OBVIOUS
    <3> HIDE DEF none
    <3>2. \A k : Plays(none, k) => Fed(Unheard, none) = {k}
      BY <3>1, PlaysIsFed
    <3> QED BY <1>1, <2>1, <3>2 DEF none
  <2>3. Unheard.snap.state = "Absent"
    BY DEF Unheard, NoSnapshot
  <2> QED BY <2>1, <2>2, <2>3
<1> QED BY <1>2

LEMMA RowsOf ==
  ASSUME NEW S, NEW rows \in Seq(S)
  PROVE  SetOfSeq(rows) \subseteq S /\ \A i \in 1 .. Len(rows) : rows[i] \in SetOfSeq(rows)
BY DEF SetOfSeq

LEMMA Joined ==
  ASSUME NEW S, NEW u \in Seq(S), NEW v \in Seq(S)
  PROVE  u \o v \in Seq(S) /\ SetOfSeq(u \o v) = SetOfSeq(u) \cup SetOfSeq(v)
<1> DEFINE w == u \o v
<1>1. w \in Seq(S)
  OBVIOUS
<1>2. /\ DOMAIN u = 1 .. Len(u) /\ DOMAIN v = 1 .. Len(v) /\ Len(u) \in Nat /\ Len(v) \in Nat
      /\ DOMAIN w = 1 .. Len(u) + Len(v)
      /\ \A i \in 1 .. Len(u) + Len(v) : w[i] = IF i <= Len(u) THEN u[i] ELSE v[i - Len(u)]
  OBVIOUS
<1> HIDE DEF w
<1>3. \A i \in DOMAIN u : i \in DOMAIN w /\ w[i] = u[i]
  BY <1>2
<1>4. \A i \in DOMAIN v : i + Len(u) \in DOMAIN w /\ w[i + Len(u)] = v[i]
  BY <1>2
<1>5. ASSUME NEW i \in DOMAIN w PROVE w[i] \in SetOfSeq(u) \cup SetOfSeq(v)
  BY <1>2 DEF SetOfSeq
<1>6. SetOfSeq(w) = SetOfSeq(u) \cup SetOfSeq(v)
  BY <1>3, <1>4, <1>5 DEF SetOfSeq
<1> QED BY <1>1, <1>6 DEF w

\* What is said of a receipt is not touched by what is said of another task.
LEMMA CoveredElsewhere ==
  ASSUME NEW b, NEW b2, NEW c \in CommandTasks, Only(b, b2, c),
         NEW t \in Tasks, t # c[1], NEW rows \in Seq(Rows), Covered(b, t, rows)
  PROVE  Covered(b2, t, rows)
<1>1. \A side \in Sided : /\ <<t, side>> \in CommandTasks /\ <<t, side>> # c
  BY CommandTaskOf
<1>2. \A side \in Sided : /\ b2.log[<<t, side>>] = b.log[<<t, side>>]
                          /\ <<t, side>> \in b2.pending <=> <<t, side>> \in b.pending
  BY <1>1 DEF Only
<1>3. \A row \in SetOfSeq(rows) : row.side \in Sided
  <2>1. SetOfSeq(rows) \subseteq Rows
    BY RowsOf
  <2> QED BY <2>1 DEF Rows
<1>4. b2.expected[t] = b.expected[t]
  BY DEF Only
<1>5. \A row \in SetOfSeq(rows) : Recorded(b2, t, row)
  BY <1>2, <1>3 DEF Covered, Recorded
<1>6. \A side \in Sided : Untouched(b, <<t, side>>) => Untouched(b2, <<t, side>>)
  BY <1>2 DEF Untouched
<1> QED BY <1>4, <1>5, <1>6 DEF Covered

LEMMA NoRows == << >> \in Seq(Rows) /\ SetOfSeq(<< >>) = {}
BY DEF SetOfSeq

\* The command at hand moves on.
LEMMA WorkMoves ==
  ASSUME NEW b, NEW rs, NEW c \in CommandTasks, WorkSound(b, rs, {c[1]}),
         NEW b2, Only(b, b2, c), Quiet(b2.log[c])
  PROVE  WorkSound(b2, rs, {c[1]})
<1>1. c[1] \in Tasks /\ c \notin SourceTasks
  BY CommandTaskIs
<1>2. QuietBook(b2)
  <2>1. \A x \in CommandTasks : Quiet(b2.log[x])
    BY DEF Only, WorkSound, QuietBook
  <2>2. \A x \in SourceTasks : b2.log[x] = << >>
    BY <1>1 DEF Only, WorkSound, QuietBook
  <2> QED BY <2>1, <2>2 DEF QuietBook, Only
<1>3. ASSUME NEW i \in DOMAIN rs
      PROVE  Whole(rs[i]) /\ Covered(b2, rs[i].id, rs[i].rows)
  <2>1. Whole(rs[i]) /\ Covered(b, rs[i].id, rs[i].rows) /\ rs[i] \in Receipts
    BY DEF WorkSound
  <2>2. rs[i].id \in Tasks /\ rs[i].rows \in Seq(Rows)
    BY <2>1 DEF Receipts
  <2>3. rs[i].id # c[1]
    BY DEF WorkSound, Receipted
  <2> QED BY <2>1, <2>2, <2>3, CoveredElsewhere
<1>4. ASSUME NEW t \in Tasks \ (Receipted(rs) \cup {c[1]})
      PROVE  Covered(b2, t, << >>)
  <2>1. Covered(b, t, << >>)
    BY DEF WorkSound
  <2> QED BY <2>1, NoRows, CoveredElsewhere
<1> QED BY <1>2, <1>3, <1>4 DEF WorkSound

LEMMA WorkStarts ==
  ASSUME NEW b, NEW rs, WorkSound(b, rs, {}), NEW t \in Tasks, t \notin Receipted(rs)
  PROVE  WorkSound(b, rs, {t}) /\ Covered(b, t, << >>)
BY DEF WorkSound

LEMMA WorkConcludes ==
  ASSUME NEW b, NEW rs, NEW t \in Tasks, WorkSound(b, rs, {t}),
         NEW x, Whole(x), x.id = t, Covered(b, t, x.rows)
  PROVE  WorkSound(b, Append(rs, x), {}) /\ Receipted(Append(rs, x)) = Receipted(rs) \cup {t}
<1> DEFINE rx == Append(rs, x)
           n == Len(rs) + 1
<1>1. x \in Receipts /\ rs \in Seq(Receipts)
  BY DEF Whole, WorkSound
<1>2. /\ rx \in Seq(Receipts) /\ DOMAIN rs = 1 .. Len(rs) /\ Len(rs) \in Nat
      /\ DOMAIN rx = 1 .. n
      /\ \A i \in 1 .. n : rx[i] = IF i = n THEN x ELSE rs[i]
  BY <1>1
<1>3. \A i : i \in 1 .. n <=> i = n \/ i \in DOMAIN rs
  BY <1>2
<1>4. n \notin DOMAIN rs
  BY <1>2
<1> HIDE DEF rx, n
<1>5. rx[n] = x /\ \A i \in DOMAIN rs : rx[i] = rs[i]
  BY <1>2, <1>3, <1>4
<1>6. Receipted(rx) = Receipted(rs) \cup {t}
  BY <1>2, <1>3, <1>5 DEF Receipted
<1>7. \A i \in DOMAIN rx : Whole(rx[i]) /\ Covered(b, rx[i].id, rx[i].rows)
  BY <1>2, <1>3, <1>5 DEF WorkSound
<1>8. \A i \in DOMAIN rs : rs[i].id # t
  BY DEF WorkSound, Receipted
<1>9. \A i, j \in DOMAIN rx : rx[i].id = rx[j].id => i = j
  BY <1>2, <1>3, <1>5, <1>8 DEF WorkSound
<1>10. QuietBook(b) /\ \A u \in Tasks \ Receipted(rx) : Covered(b, u, << >>)
  BY <1>6 DEF WorkSound
<1> QED BY <1>2, <1>6, <1>7, <1>9, <1>10 DEF WorkSound, rx

LEMMA PairMade ==
  ASSUME NEW p, NEW q
  PROVE  Append(<<p>>, q) = <<p, q>>
<1> DEFINE S == {p, q}
           s == Append(<<p>>, q)
<1>1. s \in Seq(S) /\ Len(s) = 2 /\ s[1] = p /\ s[2] = q
  OBVIOUS
<1>2. \A u \in Seq(S) : Len(u) = 2 => u = <<u[1], u[2]>>
  OBVIOUS
<1> HIDE DEF s, S
<1>3. s = <<p, q>>
  BY <1>1, <1>2
<1> QED BY <1>3 DEF s

\* The rows a receipt has so far are those of the sides before this one.
LEMMA SidesSoFar ==
  ASSUME NEW t, NEW side \in Sided, NEW rows, RowsSoFar(t, side, rows)
  PROVE  /\ rows \in Seq(Rows)
         /\ \A row \in SetOfSeq(rows) : row.side = "head" /\ row.side # side
         /\ Append(SidesOf(rows), side) = SidesTo(side)
<1>1. CASE side = "base-plus-tests"
  <2>1. rows \in Seq(Rows) /\ Len(rows) = 1 /\ rows[1].side = "head"
    BY <1>1 DEF RowsSoFar, PassedHead
  <2>2. DOMAIN rows = {1}
    BY <2>1
  <2>3. SidesOf(rows) = <<"head">>
    BY <2>1, <2>2 DEF SidesOf
  <2>4. \A row \in SetOfSeq(rows) : row.side = "head"
    BY <2>1, <2>2 DEF SetOfSeq
  <2>5. Append(<<"head">>, side) = <<"head", "base-plus-tests">>
    BY <1>1, PairMade
  <2>6. \A row \in SetOfSeq(rows) : row.side # side
    BY <1>1, <2>4
  <2>7. Append(SidesOf(rows), side) = <<"head", "base-plus-tests">>
    BY <2>3, <2>5, Zenon
  <2> QED BY <1>1, <2>1, <2>4, <2>6, <2>7 DEF SidesTo
<1>2. CASE side # "base-plus-tests"
  <2>1. rows = << >> /\ side = "head"
    BY <1>2 DEF RowsSoFar, Sided
  <2>2. SidesOf(rows) = << >>
    BY <2>1 DEF SidesOf
  <2>3. Append(<< >>, side) = <<side>>
    OBVIOUS
  <2>4. Append(SidesOf(rows), side) = <<"head">>
    BY <2>1, <2>2, <2>3
  <2> QED BY <1>2, <2>1, <2>4, NoRows DEF SidesTo
<1> QED BY <1>1, <1>2

LEMMA RowAppended ==
  ASSUME NEW rows \in Seq(Rows), NEW row \in Rows
  PROVE  /\ Append(rows, row) \in Seq(Rows)
         /\ SetOfSeq(Append(rows, row)) = SetOfSeq(rows) \cup {row}
         /\ Len(Append(rows, row)) = Len(rows) + 1 /\ Append(rows, row)[Len(rows) + 1] = row
         /\ \A i \in DOMAIN rows : Append(rows, row)[i] = rows[i]
         /\ SidesOf(Append(rows, row)) =
              Append(SidesOf(rows), row.side)
<1> DEFINE longer == Append(rows, row)
           n == Len(rows)
           s1 == [i \in DOMAIN rows |-> rows[i].side]
           s2 == [i \in DOMAIN longer |-> longer[i].side]
<1>1. /\ longer \in Seq(Rows) /\ Len(longer) = n + 1 /\ longer[n + 1] = row
      /\ DOMAIN rows = 1 .. n /\ DOMAIN longer = 1 .. n + 1 /\ n \in Nat
      /\ \A i \in 1 .. n : longer[i] = rows[i]
  OBVIOUS
<1> HIDE DEF longer, n
<1>2. \A i : i \in 1 .. n + 1 <=> i \in 1 .. n \/ i = n + 1
  BY <1>1
<1>3. SetOfSeq(longer) = SetOfSeq(rows) \cup {row}
  BY <1>1, <1>2 DEF SetOfSeq
<1>4. \A x \in Rows : x.side \in Sided
  BY DEF Rows
<1>5. s1 \in Seq(Sided) /\ Len(s1) = n /\ s2 \in Seq(Sided) /\ Len(s2) = n + 1
  <2>1. \A i \in 1 .. n : rows[i].side \in Sided
    BY <1>1, <1>4
  <2>2. \A i \in 1 .. n + 1 : longer[i].side \in Sided
    BY <1>1, <1>4
  <2> QED BY <1>1, <2>1, <2>2
<1>6. \A i \in 1 .. n : s1[i] = rows[i].side
  BY <1>1
<1>7. \A i \in 1 .. n + 1 : s2[i] = longer[i].side
  BY <1>1
<1>8. row.side \in Sided
  BY <1>4
<1> HIDE DEF s1, s2
<1>9. /\ Append(s1, row.side) \in Seq(Sided) /\ Len(Append(s1, row.side)) = n + 1
      /\ Append(s1, row.side)[n + 1] = row.side
      /\ \A i \in 1 .. n : Append(s1, row.side)[i] = s1[i]
  BY <1>1, <1>5, <1>8
<1>10. \A i \in 1 .. n + 1 : s2[i] = Append(s1, row.side)[i]
  BY <1>1, <1>2, <1>6, <1>7, <1>9
<1>11. \A u, v \in Seq(Sided) : Len(u) = Len(v) /\ (\A i \in 1 .. Len(u) : u[i] = v[i]) => u = v
  OBVIOUS
<1>12. s2 = Append(s1, row.side)
  BY <1>5, <1>9, <1>10, <1>11
<1>13. s1 = SidesOf(rows) /\ s2 = SidesOf(longer)
  BY DEF s1, s2, SidesOf
<1> QED BY <1>1, <1>3, <1>12, <1>13 DEF longer, n

\* A receipt is covered once the row of its last side is recorded.
LEMMA RowCovers ==
  ASSUME NEW b, NEW c \in CommandTasks, NEW rows, RowsSoFar(c[1], c[2], rows),
         b.expected[c[1]] = SidesTo(c[2]),
         \A row \in SetOfSeq(rows) : Recorded(b, c[1], row),
         c[2] = "head" => Untouched(b, <<c[1], "base-plus-tests">>),
         NEW new \in Rows, new.side = c[2], Recorded(b, c[1], new)
  PROVE  Covered(b, c[1], Append(rows, new))
<1>1. c[2] \in Sided
  BY CommandTaskIs
<1>2. /\ rows \in Seq(Rows) /\ \A row \in SetOfSeq(rows) : row.side = "head" /\ row.side # c[2]
      /\ Append(SidesOf(rows), c[2]) = b.expected[c[1]]
  BY <1>1, SidesSoFar, ZenonT(60)
<1>3. /\ SetOfSeq(Append(rows, new)) = SetOfSeq(rows) \cup {new}
      /\ SidesOf(Append(rows, new)) =
              Append(SidesOf(rows), new.side)
  BY <1>2, RowAppended
<1>4. ASSUME NEW side \in Sided, \A row \in SetOfSeq(Append(rows, new)) : row.side # side
      PROVE  Untouched(b, <<c[1], side>>)
  <2>1. c[2] # side
    BY <1>3, <1>4
  <2>2. CASE c[2] = "head"
    <3>1. side = "base-plus-tests"
      BY <2>1, <2>2 DEF Sided
    <3> QED BY <2>2, <3>1
  <2>3. CASE c[2] # "head"
    <3>1. c[2] = "base-plus-tests" /\ side = "head"
      BY <1>1, <2>1, <2>3 DEF Sided
    <3>2. rows[1] \in SetOfSeq(rows) /\ rows[1].side = "head"
      <4>1. Len(rows) = 1 /\ rows[1].side = "head"
        BY <3>1 DEF RowsSoFar, PassedHead
      <4>2. \A i \in 1 .. Len(rows) : rows[i] \in SetOfSeq(rows)
        BY <1>2, RowsOf
      <4> QED BY <4>1, <4>2
    <3> QED BY <1>3, <1>4, <3>1, <3>2
  <2> QED BY <2>2, <2>3
<1>5. \A row \in SetOfSeq(Append(rows, new)) : Recorded(b, c[1], row)
  BY <1>3
<1> QED BY <1>2, <1>3, <1>4, <1>5 DEF Covered

\* A side about to begin: nothing is said of it, nor of the sides after it.
LEMMA SideAhead ==
  ASSUME NEW b \in Books, NEW c \in CommandTasks, NEW rows, RowsSoFar(c[1], c[2], rows),
         Covered(b, c[1], rows)
  PROVE  /\ Untouched(b, c) /\ b.log[c] = << >> /\ c \notin b.pending
         /\ c[2] = "head" => Untouched(b, <<c[1], "base-plus-tests">>)
         /\ Append(b.expected[c[1]], c[2]) = SidesTo(c[2])
         /\ \A row \in SetOfSeq(rows) : <<c[1], row.side>> # c /\ <<c[1], row.side>> \in CommandTasks
<1>1. c[1] \in Tasks /\ c[2] \in Sided /\ c = <<c[1], c[2]>>
  BY CommandTaskIs
<1>2. /\ rows \in Seq(Rows) /\ \A row \in SetOfSeq(rows) : row.side = "head" /\ row.side # c[2]
      /\ Append(SidesOf(rows), c[2]) = SidesTo(c[2])
  BY <1>1, SidesSoFar
<1>3. b.expected[c[1]] = SidesOf(rows)
  BY DEF Covered, SidesOf
<1>4. Untouched(b, c)
  BY <1>1, <1>2 DEF Covered
<1>5. c[2] = "head" => Untouched(b, <<c[1], "base-plus-tests">>)
  <2>1. c[2] = "head" => rows = << >>
    BY DEF RowsSoFar
  <2>2. "base-plus-tests" \in Sided
    BY DEF Sided
  <2> QED BY <2>1, <2>2, NoRows DEF Covered
<1>6. \A row \in SetOfSeq(rows) : <<c[1], row.side>> # c /\ <<c[1], row.side>> \in CommandTasks
  <2>1. "head" \in Sided
    BY DEF Sided
  <2> QED BY <1>1, <1>2, <2>1, CommandTaskOf
<1> QED BY <1>2, <1>3, <1>4, <1>5, <1>6 DEF Untouched

\* What is recorded of other commands stays.
LEMMA RecordedStays ==
  ASSUME NEW b, NEW c, NEW b2, Only(b, b2, c), NEW t, NEW rows,
         \A row \in SetOfSeq(rows) : <<t, row.side>> # c /\ <<t, row.side>> \in CommandTasks,
         \A row \in SetOfSeq(rows) : Recorded(b, t, row)
  PROVE  \A row \in SetOfSeq(rows) : Recorded(b2, t, row)
<1>1. \A x \in CommandTasks : x # c => /\ b2.log[x] = b.log[x]
                                       /\ x \in b2.pending <=> x \in b.pending
  BY DEF Only
<1> QED BY <1>1 DEF Recorded

LEMMA UntouchedStays ==
  ASSUME NEW b, NEW c, NEW b2, Only(b, b2, c), NEW x \in CommandTasks, x # c, Untouched(b, x)
  PROVE  Untouched(b2, x)
BY DEF Only, Untouched

LEMMA BaseAside ==
  ASSUME NEW c \in CommandTasks, c[2] = "head"
  PROVE  <<c[1], "base-plus-tests">> \in CommandTasks /\ <<c[1], "base-plus-tests">> # c
<1>1. c[1] \in Tasks /\ "base-plus-tests" \in Sided
  BY CommandTaskIs DEF Sided
<1> QED BY <1>1, CommandTaskOf

\* begin_command() opens a side, decline_command() covers it.
LEMMA BeginsSide ==
  ASSUME NEW b, NEW rs, NEW c \in CommandTasks, WorkSound(b, rs, {c[1]}),
         NEW rows, RowsSoFar(c[1], c[2], rows), Covered(b, c[1], rows)
  PROVE  /\ WorkSound(Began(b, c), rs, {c[1]}) /\ Opened(Began(b, c), c, rows, "Setup")
         /\ Began(b, c) \in Books
<1> DEFINE b2 == Began(b, c)
<1>1. b \in Books
  BY DEF WorkSound, QuietBook
<1>2. /\ b.log[c] = << >> /\ c \notin b.pending
      /\ c[2] = "head" => Untouched(b, <<c[1], "base-plus-tests">>)
      /\ Append(b.expected[c[1]], c[2]) = SidesTo(c[2])
      /\ \A row \in SetOfSeq(rows) : <<c[1], row.side>> # c /\ <<c[1], row.side>> \in CommandTasks
  BY <1>1, SideAhead
<1>3. /\ Only(b, b2, c) /\ Reaches(b2.log[c], "Setup") /\ Quiet(b2.log[c])
      /\ b2.expected[c[1]] = SidesTo(c[2]) /\ b2.pending = b.pending
  BY <1>1, <1>2, BeginsCommand
<1> HIDE DEF b2
<1>4. WorkSound(b2, rs, {c[1]})
  BY <1>3, WorkMoves
<1>5. \A row \in SetOfSeq(rows) : Recorded(b2, c[1], row)
  <2>1. \A row \in SetOfSeq(rows) : Recorded(b, c[1], row)
    BY DEF Covered
  <2> QED BY <1>2, <1>3, <2>1, RecordedStays
<1>6. c[2] = "head" => Untouched(b2, <<c[1], "base-plus-tests">>)
  BY <1>2, <1>3, BaseAside, UntouchedStays
<1>7. b2 \in Books
  BY <1>3 DEF Only
<1> QED BY <1>2, <1>3, <1>4, <1>5, <1>6, <1>7 DEF Opened, b2

LEMMA SkippedIs ==
  ASSUME NEW side \in Sided
  PROVE  /\ SkippedRow(side) \in Rows /\ SkippedRow(side).side = side
         /\ SkippedRow(side).limit = 0 /\ SkippedRow(side).status = "skipped"
         /\ \A t : RowSound(t, SkippedRow(side))
<1>1. SkippedRow(side) \in Rows /\ SkippedRow(side).side = side
         /\ SkippedRow(side).limit = 0 /\ SkippedRow(side).status = "skipped"
  BY DEF SkippedRow, Rows
<1> QED BY <1>1 DEF RowSound

LEMMA DeclinesSide ==
  ASSUME NEW b, NEW rs, NEW c \in CommandTasks, WorkSound(b, rs, {c[1]}),
         NEW rows, RowsSoFar(c[1], c[2], rows), Covered(b, c[1], rows), NEW d \in Dispositions
  PROVE  /\ WorkSound(Declined(b, c, d), rs, {c[1]})
         /\ Covered(Declined(b, c, d), c[1], Append(rows, SkippedRow(c[2])))
         /\ Declined(b, c, d) \in Books
<1> DEFINE b2 == Declined(b, c, d)
           row2 == SkippedRow(c[2])
<1>1. b \in Books
  BY DEF WorkSound, QuietBook
<1>2. /\ b.log[c] = << >> /\ c \notin b.pending
      /\ c[2] = "head" => Untouched(b, <<c[1], "base-plus-tests">>)
      /\ Append(b.expected[c[1]], c[2]) = SidesTo(c[2])
      /\ \A row \in SetOfSeq(rows) : <<c[1], row.side>> # c /\ <<c[1], row.side>> \in CommandTasks
  BY <1>1, SideAhead
<1>3. /\ Only(b, b2, c) /\ Reaches(b2.log[c], "TerminallyDeclined") /\ Quiet(b2.log[c])
      /\ b2.expected[c[1]] = SidesTo(c[2]) /\ b2.pending = b.pending
  BY <1>1, <1>2, DeclinesCommand
<1> HIDE DEF b2
<1>4. WorkSound(b2, rs, {c[1]})
  BY <1>3, WorkMoves
<1>5. \A row \in SetOfSeq(rows) : Recorded(b2, c[1], row)
  <2>1. \A row \in SetOfSeq(rows) : Recorded(b, c[1], row)
    BY DEF Covered
  <2> QED BY <1>2, <1>3, <2>1, RecordedStays
<1>6. c[2] = "head" => Untouched(b2, <<c[1], "base-plus-tests">>)
  BY <1>2, <1>3, BaseAside, UntouchedStays
<1>7. b2 \in Books
  BY <1>3 DEF Only
<1>8. row2 \in Rows /\ row2.side = c[2] /\ row2.limit = 0 /\ c = <<c[1], c[2]>>
  BY CommandTaskIs, SkippedIs
<1> HIDE DEF row2
<1>9. Recorded(b2, c[1], row2)
  BY <1>2, <1>3, <1>8 DEF Recorded
<1>10. Covered(b2, c[1], Append(rows, row2))
  BY <1>3, <1>5, <1>6, <1>8, <1>9, RowCovers
<1> QED BY <1>4, <1>7, <1>10 DEF b2, row2

\* A command whose process is done with covers its side.
LEMMA SideCovers ==
  ASSUME NEW b, NEW c \in CommandTasks, NEW rows, RowsSoFar(c[1], c[2], rows),
         NEW st, Opened(b, c, rows, st),
         NEW b2, Only(b, b2, c), b2.expected = b.expected, c \in b2.pending,
         Reaches(b2.log[c], "ReceiptPending"),
         NEW new \in Rows, new.side = c[2], new.limit # 0, SaysIn(b2.log[c], new)
  PROVE  Covered(b2, c[1], Append(rows, new))
<1>1. c[1] \in Tasks /\ c[2] \in Sided /\ c = <<c[1], c[2]>>
  BY CommandTaskIs
<1>2. \A row \in SetOfSeq(rows) : row.side = "head" /\ row.side # c[2]
  BY <1>1, SidesSoFar
<1>3. \A row \in SetOfSeq(rows) : <<c[1], row.side>> # c /\ <<c[1], row.side>> \in CommandTasks
  <2>1. "head" \in Sided
    BY DEF Sided
  <2> QED BY <1>1, <1>2, <2>1, CommandTaskOf
<1>4. \A row \in SetOfSeq(rows) : Recorded(b2, c[1], row)
  <2>1. \A row \in SetOfSeq(rows) : Recorded(b, c[1], row)
    BY DEF Opened
  <2> QED BY <1>3, <2>1, RecordedStays
<1>5. c[2] = "head" => Untouched(b2, <<c[1], "base-plus-tests">>)
  <2>1. c[2] = "head" => Untouched(b, <<c[1], "base-plus-tests">>)
    BY DEF Opened
  <2> QED BY <2>1, BaseAside, UntouchedStays
<1>6. Recorded(b2, c[1], new)
  BY <1>1 DEF Recorded
<1>7. b2.expected[c[1]] = SidesTo(c[2])
  BY DEF Opened
<1> QED BY <1>4, <1>5, <1>6, <1>7, RowCovers

\* The receipt a task is given, and what its rows make of it.
LEMMA ReceiptIs ==
  ASSUME phase.requests \in Seq(Requests), NEW t \in Tasks, NEW rows \in Seq(Rows),
         NEW result \in Results
  PROVE  LET x == Receipt(t, rows, result)
         IN /\ x \in Receipts /\ x.id = t /\ x.kind = Kind[t] /\ x.rows = rows
            /\ x.result = result /\ \A r \in SetOfSeq(x.requests) : Target[r] = t
<1> DEFINE x == Receipt(t, rows, result)
           own == RequestList(t, phase.requests)
<1>1. own \in Seq(Requests) /\ SetOfSeq(own) \subseteq OpenFor(t)
  <2>1. /\ own \in Seq(SetOfSeq(phase.requests) \cap OpenFor(t))
        /\ SetOfSeq(own) = SetOfSeq(phase.requests) \cap OpenFor(t)
    BY AmongKeeps DEF RequestList
  <2>2. SetOfSeq(phase.requests) \cap OpenFor(t) \subseteq Requests
    BY DEF OpenFor
  <2> HIDE DEF own
  <2> QED BY <2>1, <2>2
<1>2. Kind[t] \in {"head", "red_green", "build"}
  BY CostsNat
<1> HIDE DEF own
<1>3. x = [id |-> t, requests |-> own, kind |-> Kind[t], result |-> result, rows |-> rows]
  BY DEF Receipt, own
<1> HIDE DEF x
<1>4. x \in Receipts /\ x.id = t /\ x.kind = Kind[t] /\ x.rows = rows /\ x.result = result
      /\ x.requests = own
  BY <1>1, <1>2, <1>3 DEF Receipts
<1>5. \A r \in SetOfSeq(x.requests) : Target[r] = t
  BY <1>1, <1>4 DEF OpenFor
<1> QED BY <1>4, <1>5 DEF x

LEMMA ResultIs ==
  ASSUME NEW rows \in Seq(Rows), Len(rows) \in {1, 2}
  PROVE  LET row == rows[Len(rows)]
         IN /\ ResultOf(rows) \in Results
            /\ ResultOf(rows) = "head_passed" => row.status = "passed" /\ Len(rows) = 1
            /\ ResultOf(rows) = "discriminating" => row.status = "failed" /\ Len(rows) = 2
            /\ ResultOf(rows) = "skipped_profile" => row.status = "skipped"
            /\ ResultOf(rows) \in Conclusive => row.status \in {"passed", "failed"}
<1> DEFINE row == rows[Len(rows)]
<1>1. row.status \in {"passed", "failed", "timed_out", "skipped"} /\ row.exit \in BOOLEAN
  <2>1. row \in Rows
    OBVIOUS
  <2> HIDE DEF row
  <2> QED BY <2>1 DEF Rows
<1>2. ResultOf(rows) =
        CASE row.status = "passed" -> IF Len(rows) = 2 THEN "non_discriminating" ELSE "head_passed"
          [] row.status = "failed" /\ row.exit -> IF Len(rows) = 2 THEN "discriminating"
                                                  ELSE "head_failed"
          [] row.status = "failed" /\ ~row.exit -> "terminated_without_exit_code"
          [] row.status = "timed_out" -> "timed_out"
          [] row.status = "skipped" -> "skipped_profile"
  BY DEF ResultOf
<1> HIDE DEF row
<1>3. CASE row.status = "passed"
  BY <1>2, <1>3 DEF Results, Conclusive, row
<1>4. CASE row.status = "failed" /\ row.exit
  BY <1>2, <1>4 DEF Results, Conclusive, row
<1>5. CASE row.status = "failed" /\ ~row.exit
  BY <1>2, <1>5 DEF Results, Conclusive, row
<1>6. CASE row.status = "timed_out"
  BY <1>2, <1>6 DEF Results, Conclusive, row
<1>7. CASE row.status = "skipped"
  BY <1>2, <1>7 DEF Results, Conclusive, row
<1> QED BY <1>1, <1>3, <1>4, <1>5, <1>6, <1>7

\* The result of a receipt whose last row is new.
ResultFits(rows, new, side, result) ==
  IF new.limit # 0 THEN result = ResultOf(Append(rows, new))
  ELSE IF side = "head" THEN result \in {"skipped_profile", "skipped_budget"}
  ELSE result = "base_patch_failed"

LEMMA WholeOf ==
  ASSUME phase.requests \in Seq(Requests), NEW t \in Tasks, NEW side \in Sided, NEW rows,
         RowsSoFar(t, side, rows), NEW new \in Rows, RowSound(t, new), new.side = side,
         ~(Kind[t] = "red_green" /\ side = "head" /\ new.status = "passed"),
         NEW result, ResultFits(rows, new, side, result)
  PROVE  LET x == Receipt(t, Append(rows, new), result)
         IN Whole(x) /\ x.id = t /\ x.rows = Append(rows, new)
<1> DEFINE longer == Append(rows, new)
           x == Receipt(t, longer, result)
<1>1. rows \in Seq(Rows)
  BY SidesSoFar
<1>2. /\ longer \in Seq(Rows) /\ SetOfSeq(longer) = SetOfSeq(rows) \cup {new}
      /\ Len(longer) = Len(rows) + 1 /\ longer[Len(rows) + 1] = new
      /\ \A i \in DOMAIN rows : longer[i] = rows[i]
  BY <1>1, RowAppended
<1>3. \/ rows = << >> /\ side = "head" /\ Len(rows) = 0
      \/ /\ Len(rows) = 1 /\ side = "base-plus-tests" /\ PassedHead(t, rows)
         /\ 1 \in DOMAIN rows
  BY <1>1 DEF RowsSoFar, Sided
<1>4. result \in Results
  <2>1. Len(longer) \in {1, 2}
    BY <1>2, <1>3
  <2>2. ResultOf(longer) \in Results
    BY <1>2, <2>1, ResultIs
  <2> HIDE DEF longer
  <2> QED BY <2>2 DEF ResultFits, Results, longer
<1> HIDE DEF longer
<1>5. /\ x \in Receipts /\ x.id = t /\ x.kind = Kind[t] /\ x.rows = longer
      /\ x.result = result /\ \A r \in SetOfSeq(x.requests) : Target[r] = t
  BY <1>2, <1>4, ReceiptIs
<1>6. ResultFits(rows, new, side, result) <=>
        IF new.limit # 0 THEN result = ResultOf(longer)
        ELSE IF side = "head" THEN result \in {"skipped_profile", "skipped_budget"}
        ELSE result = "base_patch_failed"
  BY DEF ResultFits, longer
<1> HIDE DEF x
<1>7. \A row \in SetOfSeq(longer) : RowSound(t, row)
  <2>1. CASE rows = << >>
    BY <1>2, <2>1, NoRows
  <2>2. CASE Len(rows) = 1 /\ PassedHead(t, rows)
    <3>1. DOMAIN rows = {1}
      BY <1>1, <2>2
    <3> QED BY <1>2, <2>2, <3>1 DEF SetOfSeq, PassedHead
  <2> QED BY <1>3, <2>1, <2>2
<1>8. CASE rows = << >> /\ side = "head" /\ Len(rows) = 0
  <2>1. Len(longer) = 1 /\ longer[1] = new
    BY <1>2, <1>8
  <2> QED BY <1>5, <1>6, <1>7, <1>8, <2>1 DEF Whole, longer, x
<1>9. CASE /\ Len(rows) = 1 /\ side = "base-plus-tests" /\ PassedHead(t, rows)
           /\ 1 \in DOMAIN rows
  <2>1. Len(longer) = 2 /\ longer[2] = new /\ longer[1] = rows[1]
    BY <1>2, <1>9
  <2>2. PassedHead(t, longer)
    BY <1>9, <2>1 DEF PassedHead
  <2> QED BY <1>5, <1>6, <1>7, <1>9, <2>1, <2>2 DEF Whole, longer, x
<1> QED BY <1>3, <1>8, <1>9

\* attach_request_metadata_to_focused_receipts() adds requests to receipts, and
\* nothing else.
LEMMA AttributedSound ==
  ASSUME NEW b, NEW rs, WorkSound(b, rs, {}), NEW more \in Seq(Requests)
  PROVE  WorkSound(b, Attributed(rs, more), {})
<1> DEFINE as == Attributed(rs, more)
           New(i) == Among(more, OpenFor(rs[i].id) \ SetOfSeq(rs[i].requests))
<1>1. rs \in Seq(Receipts) /\ \A i \in DOMAIN rs : Whole(rs[i]) /\ rs[i] \in Receipts
  BY DEF WorkSound
<1>2. ASSUME NEW i \in DOMAIN rs
      PROVE  /\ New(i) \in Seq(Requests) /\ \A r \in SetOfSeq(New(i)) : Target[r] = rs[i].id
  <2> DEFINE ys == New(i)
             S == SetOfSeq(more) \cap (OpenFor(rs[i].id) \ SetOfSeq(rs[i].requests))
  <2>1. ys \in Seq(S) /\ SetOfSeq(ys) = S
    BY AmongKeeps, SMTT(60)
  <2>2. S \subseteq Requests /\ \A r \in S : Target[r] = rs[i].id
    BY DEF OpenFor
  <2> HIDE DEF ys, S
  <2>3. ys \in Seq(Requests) /\ \A r \in SetOfSeq(ys) : Target[r] = rs[i].id
    BY <2>1, <2>2
  <2> QED BY <2>3 DEF ys
<1>3. ASSUME NEW i \in DOMAIN rs
      PROVE  \/ as[i] = rs[i]
             \/ as[i] = [rs[i] EXCEPT !.requests = rs[i].requests \o New(i)]
  BY DEF Attributed
<1>4. DOMAIN as = DOMAIN rs
  BY DEF Attributed
<1> HIDE DEF New, as
<1>5. ASSUME NEW i \in DOMAIN rs
      PROVE  /\ as[i] \in Receipts /\ as[i].id = rs[i].id /\ as[i].rows = rs[i].rows
             /\ as[i].kind = rs[i].kind /\ as[i].result = rs[i].result
             /\ \A r \in SetOfSeq(as[i].requests) : Target[r] = rs[i].id
  <2>1. rs[i] \in Receipts /\ \A r \in SetOfSeq(rs[i].requests) : Target[r] = rs[i].id
    BY <1>1 DEF Whole
  <2>2. CASE as[i] = rs[i]
    BY <2>1, <2>2
  <2>3. CASE as[i] = [rs[i] EXCEPT !.requests = rs[i].requests \o New(i)]
    <3> DEFINE old == rs[i].requests
               new == New(i)
    <3>1. old \in Seq(Requests) /\ new \in Seq(Requests)
      BY <1>2, <2>1 DEF Receipts
    <3>2. /\ as[i].requests = old \o new
          /\ as[i] = [id |-> rs[i].id, requests |-> old \o new, kind |-> rs[i].kind,
                      result |-> rs[i].result, rows |-> rs[i].rows]
      BY <2>1, <2>3 DEF Receipts
    <3>3. \A r \in SetOfSeq(old) : Target[r] = rs[i].id
      BY <2>1
    <3>4. \A r \in SetOfSeq(new) : Target[r] = rs[i].id
      BY <1>2
    <3> HIDE DEF old, new
    <3>5. old \o new \in Seq(Requests) /\ SetOfSeq(old \o new) = SetOfSeq(old) \cup SetOfSeq(new)
      BY <3>1, Joined
    <3>6. as[i] \in Receipts
      BY <2>1, <3>2, <3>5 DEF Receipts
    <3> QED BY <3>2, <3>3, <3>4, <3>5, <3>6
  <2> QED BY <1>3, <2>2, <2>3
<1>6. as \in Seq(Receipts)
  <2>1. DOMAIN as = 1 .. Len(rs) /\ Len(rs) \in Nat
    BY <1>1, <1>4
  <2>2. as = [i \in DOMAIN rs |-> as[i]]
    BY DEF as, Attributed
  <2>3. \A i \in 1 .. Len(rs) : as[i] \in Receipts
    BY <1>4, <1>5, <2>1
  <2>4. as \in [1 .. Len(rs) -> Receipts]
    BY <1>4, <2>1, <2>2, <2>3
  <2>5. \A n \in Nat : \A f \in [1 .. n -> Receipts] : f \in Seq(Receipts)
    OBVIOUS
  <2> QED BY <2>1, <2>4, <2>5
<1>7. ASSUME NEW i \in DOMAIN as
      PROVE  Whole(as[i]) /\ Covered(b, as[i].id, as[i].rows)
  <2>1. Whole(rs[i]) /\ Covered(b, rs[i].id, rs[i].rows)
    BY <1>4 DEF WorkSound
  <2>2. i \in DOMAIN rs
    BY <1>4
  <2> DEFINE x == as[i]
             y == rs[i]
  <2>3. /\ x \in Receipts /\ x.id = y.id /\ x.rows = y.rows /\ x.kind = y.kind
        /\ x.result = y.result /\ \A r \in SetOfSeq(x.requests) : Target[r] = y.id
    BY <1>5, <2>2
  <2> HIDE DEF x, y
  <2>4. Whole(y) => Whole(x)
    BY <2>3 DEF Whole
  <2> QED BY <2>1, <2>3, <2>4 DEF x, y
<1>8. Receipted(as) = Receipted(rs)
  BY <1>4, <1>5, ZenonT(60) DEF Receipted
<1>9. \A i, j \in DOMAIN as : as[i].id = as[j].id => i = j
  BY <1>4, <1>5 DEF WorkSound
<1>10. QuietBook(b) /\ \A t \in Tasks \ Receipted(as) : Covered(b, t, << >>)
  BY <1>8 DEF WorkSound
<1> QED BY <1>6, <1>7, <1>9, <1>10 DEF WorkSound, as

\* What is chosen may be queued.
LEMMA QueueChosen ==
  ASSUME WorkSound(book, receipts, {}), NEW name, NEW rs \in Seq(Requests),
         NEW budget, NEW remaining, NEW S
  PROVE  LET chosen == Chosen(name, rs, budget, remaining)
             q == Among(chosen.chosen, S)
         IN /\ q \in Seq(Tasks) /\ IsInjective(q) /\ SetOfSeq(q) \cap Receipted(receipts) = {}
            /\ chosen.decisions \in Seq(Decisions)
<1> DEFINE C == Candidates(name, rs)
           chosen == Chosen(name, rs, budget, remaining)
           done == chosen.chosen
           q == Among(done, S)
<1>1. C \subseteq Tasks
  BY TargetsTasks, RunConstants DEF Candidates
<1>2. \A i \in DOMAIN receipts : receipts[i].id \in Tasks
  <2>1. receipts \in Seq(Receipts)
    BY DEF WorkSound
  <2>2. \A i \in DOMAIN receipts : receipts[i] \in Receipts
    BY <2>1
  <2> QED BY <2>2 DEF Receipts
<1> HIDE DEF C
<1>3. Selected(chosen, C, receipts)
  BY <1>1, <1>2, SelectionSound DEF Chosen, C
<1> HIDE DEF chosen
<1>4. /\ done \in Seq(C \ Receipted(receipts)) /\ IsInjective(done)
      /\ chosen.decisions \in Seq(Decisions)
  BY <1>3 DEF Selected
<1> HIDE DEF done
<1>5. /\ q \in Seq(SetOfSeq(done) \cap S) /\ SetOfSeq(q) = SetOfSeq(done) \cap S /\ IsInjective(q)
  BY <1>4, AmongKeeps
<1>6. SetOfSeq(done) \subseteq C \ Receipted(receipts)
  BY <1>4, RowsOf
<1> HIDE DEF q
<1>7. SetOfSeq(done) \cap S \subseteq Tasks
  BY <1>1, <1>6
<1>8. q \in Seq(Tasks)
  BY <1>5, <1>7
<1> QED BY <1>4, <1>5, <1>6, <1>8 DEF q, done, chosen

--------------------------------------------------------------------------------
(***************************************************************************)
(* The steps.  Between commands, while one is at hand, and after a failure *)
(* the invariant asks for different things: one lemma each says which.     *)
(***************************************************************************)
Resting == {"initial", "seeded", "model", "request", "followup", "loop", "publish"}

Children == [CommandTasks -> {"none", "running", "gone", "unconfirmed"}]

LEMMA AtRest ==
  ASSUME RunInv, pc \in Resting \cup {"reconcile"}
  PROVE  /\ WorkSound(book, receipts, {}) /\ book \in Books
         /\ \A c \in CommandTasks : child[c] \notin Alive
<1>1. WorkSound(book, receipts, {})
  BY DEF RunInv, Working0, AtHand, Busy, Resting
<1>2. book \in Books
  BY <1>1 DEF WorkSound, QuietBook
<1>3. \A c \in CommandTasks : child[c] \notin Alive
  BY DEF RunInv, ProcessesSound, Resting
<1> QED BY <1>1, <1>2, <1>3

LEMMA AtWork ==
  ASSUME RunInv, pc \in Busy
  PROVE  /\ cmd.task \in Tasks /\ cmd.side \in Sided /\ This \in CommandTasks
         /\ This[1] = cmd.task /\ This[2] = cmd.side
         /\ WorkSound(book, receipts, {cmd.task}) /\ book \in Books /\ Quiet(book.log[This])
         /\ phase.requests \in Seq(Requests)
         /\ cmd = [task |-> cmd.task, side |-> cmd.side, rows |-> cmd.rows]
<1>1. cmd.task \in Tasks /\ cmd.side \in Sided /\ phase.requests \in Seq(Requests)
      /\ cmd = [task |-> cmd.task, side |-> cmd.side, rows |-> cmd.rows]
  BY DEF RunInv, RunTyped
<1>2. WorkSound(book, receipts, {cmd.task})
  BY DEF RunInv, Working0, AtHand, Busy
<1>3. This \in CommandTasks /\ This[1] = cmd.task /\ This[2] = cmd.side
  BY <1>1, CommandTaskOf DEF This
<1>4. book \in Books /\ Quiet(book.log[This])
  BY <1>2, <1>3 DEF WorkSound, QuietBook
<1> QED BY <1>1, <1>2, <1>3, <1>4

LEMMA Rests ==
  ASSUME RunInv, pc \in Resting \cup Busy, pc' \in Resting,
         asked' \in Seq(Requests),
         phase' \in [name : {"initial", "seeded", "model", "followup"},
                     requests : Seq(Requests), stage : {"tests", "builds"}],
         loop' = [queue |-> loop'.queue, budget |-> loop'.budget, ran |-> loop'.ran,
                  files |-> loop'.files, spent |-> loop'.spent],
         loop'.queue \in Seq(Tasks),
         cmd' = [task |-> cmd'.task, side |-> cmd'.side, rows |-> cmd'.rows],
         child' \in Children, \A c \in CommandTasks : child'[c] \notin Alive,
         tree' \in BOOLEAN, verdicts' = verdicts,
         WorkSound(book', receipts', {}),
         pc' = "loop" => /\ IsInjective(loop'.queue)
                         /\ SetOfSeq(loop'.queue) \cap Receipted(receipts') = {}
  PROVE  RunInv'
<1>1. RunTyped'
  <2>1. book' \in Books
    BY DEF WorkSound, QuietBook
  <2> QED BY <2>1 DEF RunTyped, Resting, Busy, Pcs, Children
<1>2. (Working0 => WorkSound(book, receipts, AtHand))'
  BY DEF AtHand, Resting, Busy
<1>3. CommandSound'
  BY DEF CommandSound, Resting, Busy
<1>4. QueueSound'
  BY DEF QueueSound, Resting, Busy
<1>5. ProcessesSound'
  BY DEF ProcessesSound, Resting
<1>6. FailureSound'
  BY DEF FailureSound, Resting
<1>7. EndSound'
  <2>1. verdicts = [r \in Requests |-> "none"]
    BY DEF RunInv, EndSound, Resting, Busy
  <2> QED BY <2>1 DEF EndSound, Resting
<1> QED BY <1>1, <1>2, <1>3, <1>4, <1>5, <1>6, <1>7 DEF RunInv

LEMMA Works ==
  ASSUME RunInv, pc \in Resting \cup Busy, pc' \in Busy,
         asked' = asked, phase' = phase,
         loop' = [queue |-> loop'.queue, budget |-> loop'.budget, ran |-> loop'.ran,
                  files |-> loop'.files, spent |-> loop'.spent],
         loop'.queue = loop.queue, receipts' = receipts,
         cmd' = [task |-> cmd'.task, side |-> cmd'.side, rows |-> cmd'.rows],
         cmd'.task \in Tasks, cmd'.side \in Sided,
         child' \in Children, tree' \in BOOLEAN, verdicts' = verdicts,
         WorkSound(book', receipts', {cmd'.task}), pc = "loop" \/ pc \in Busy,
         CommandSound', ProcessesSound'
  PROVE  RunInv'
<1>1. RunTyped'
  <2>1. book' \in Books
    BY DEF WorkSound, QuietBook
  <2>2. asked \in Seq(Requests) /\ loop.queue \in Seq(Tasks)
        /\ phase \in [name : {"initial", "seeded", "model", "followup"},
                      requests : Seq(Requests), stage : {"tests", "builds"}]
    BY DEF RunInv, RunTyped
  <2> QED BY <2>1, <2>2 DEF RunTyped, Busy, Pcs, Children
<1>2. (Working0 => WorkSound(book, receipts, AtHand))'
  BY DEF AtHand, Busy
<1>4. QueueSound'
  BY DEF RunInv, QueueSound, Busy
<1>6. FailureSound'
  BY DEF FailureSound, Busy
<1>7. EndSound'
  <2>1. verdicts = [r \in Requests |-> "none"]
    BY DEF RunInv, EndSound, Resting, Busy
  <2> QED BY <2>1 DEF EndSound, Busy
<1> QED BY <1>1, <1>2, <1>4, <1>6, <1>7 DEF RunInv

LEMMA Fails ==
  ASSUME RunInv, pc \in Resting \cup Busy \cup {"reconcile"},
         NEW b \in Books, Fail(b), fault' = TRUE,
         \A c \in CommandTasks : ~Logged(b, c, "ReceiptCreated"),
         child' \in Children, tree' \in BOOLEAN,
         \A c, d \in CommandTasks : child'[c] \in Alive /\ child'[d] \in Alive => c = d,
         \A c \in CommandTasks :
            child'[c] \in Alive => Quiet(b.log[c]) /\ (c[2] = "base-plus-tests" => tree')
  PROVE  RunInv'
<1>0. /\ pc' = "failed" /\ book' = b /\ loop' = NoLoop /\ cmd' = NoCommand
      /\ asked' = asked /\ phase' = phase /\ verdicts' = verdicts
  BY DEF Fail
<1>1. RunTyped'
  <2>1. loop' = [queue |-> << >>, budget |-> Total, ran |-> 0, files |-> {}, spent |-> 0]
        /\ cmd' = [task |-> 0, side |-> "head", rows |-> << >>]
    BY <1>0 DEF NoLoop, NoCommand
  <2>2. loop'.queue \in Seq(Tasks)
    BY <2>1
  <2>3. loop' = [queue |-> loop'.queue, budget |-> loop'.budget, ran |-> loop'.ran,
                  files |-> loop'.files, spent |-> loop'.spent]
    BY <2>1
  <2>4. cmd' = [task |-> cmd'.task, side |-> cmd'.side, rows |-> cmd'.rows]
    BY <2>1
  <2>5. asked \in Seq(Requests)
        /\ phase \in [name : {"initial", "seeded", "model", "followup"},
                      requests : Seq(Requests), stage : {"tests", "builds"}]
    BY DEF RunInv, RunTyped
  <2> QED BY <1>0, <2>2, <2>3, <2>4, <2>5 DEF RunTyped, Busy, Pcs, Children
<1>2. ~Working0' /\ CommandSound' /\ QueueSound'
  BY <1>0 DEF Working0, CommandSound, QueueSound, Busy
<1>3. ProcessesSound'
  BY <1>0 DEF ProcessesSound
<1>4. FailureSound'
  BY <1>0 DEF FailureSound
<1>5. EndSound'
  <2>1. verdicts = [r \in Requests |-> "none"]
    BY DEF RunInv, EndSound, Resting, Busy
  <2> QED BY <1>0, <2>1 DEF EndSound
<1> QED BY <1>1, <1>2, <1>3, <1>4, <1>5 DEF RunInv

LEMMA NothingCredited ==
  ASSUME NEW b, \A c \in CommandTasks : Quiet(b.log[c])
  PROVE  \A c \in CommandTasks : ~Logged(b, c, "ReceiptCreated") /\ ~Logged(b, c, "ResourcesReleased")
BY DEF Quiet, Logged, ToSet

\* The phases open.
LEMMA PhaseOpens ==
  ASSUME RunInv, pc \in {"initial", "seeded", "request", "followup"},
         NEW name \in {"initial", "seeded", "model", "followup"}, NEW rs \in Seq(Requests),
         Open(name, rs), asked' \in Seq(Requests),
         UNCHANGED <<cmd, child, tree, known, book, after>>
  PROVE  RunInv'
<1>1. /\ WorkSound(book, receipts, {}) /\ \A c \in CommandTasks : child[c] \notin Alive
  BY AtRest DEF Resting
<1>2. /\ phase' = [name |-> name, requests |-> rs, stage |-> "tests"] /\ pc' = "loop"
      /\ loop' = [NoLoop EXCEPT !.budget = BudgetNow,
                    !.queue = Among(Chosen(name, rs, BudgetNow, left').chosen, Tests)]
  BY DEF Open
<1> DEFINE q == Among(Chosen(name, rs, BudgetNow, left').chosen, Tests)
<1>3. q \in Seq(Tasks) /\ IsInjective(q) /\ SetOfSeq(q) \cap Receipted(receipts) = {}
  BY <1>1, QueueChosen
<1> HIDE DEF q
<1>4. /\ loop' = [queue |-> q, budget |-> BudgetNow, ran |-> 0, files |-> {}, spent |-> 0]
  BY <1>2 DEF q, NoLoop
<1>5. /\ loop' = [queue |-> loop'.queue, budget |-> loop'.budget, ran |-> loop'.ran,
                  files |-> loop'.files, spent |-> loop'.spent]
      /\ loop'.queue = q
  BY <1>4
<1>6. /\ cmd' = cmd /\ child' = child /\ tree' = tree /\ receipts' = receipts /\ book' = book
      /\ verdicts' = verdicts
  BY DEF known, after
<1>7. /\ cmd = [task |-> cmd.task, side |-> cmd.side, rows |-> cmd.rows]
      /\ child \in Children /\ tree \in BOOLEAN
  BY DEF RunInv, RunTyped, Children
<1>8. phase' \in [name : {"initial", "seeded", "model", "followup"},
                  requests : Seq(Requests), stage : {"tests", "builds"}]
  BY <1>2
<1>9. pc \in Resting /\ pc' \in Resting
  BY <1>2 DEF Resting
<1> QED BY <1>1, <1>3, <1>5, <1>6, <1>7, <1>8, <1>9, Rests

LEMMA PhaseSkipped ==
  ASSUME RunInv, pc \in {"seeded", "request"}, NEW next \in {"model", "followup"},
         Skip(next), UNCHANGED <<asked, cmd, child, tree, known, book, after>>
  PROVE  RunInv'
<1>1. /\ WorkSound(book, receipts, {}) /\ \A c \in CommandTasks : child[c] \notin Alive
  BY AtRest DEF Resting
<1>2. /\ pc' = next /\ phase' = phase /\ loop' = loop
      /\ cmd' = cmd /\ child' = child /\ tree' = tree /\ receipts' = receipts /\ book' = book
      /\ verdicts' = verdicts /\ asked' = asked
  BY DEF Skip, known, after
<1>3. /\ cmd = [task |-> cmd.task, side |-> cmd.side, rows |-> cmd.rows]
      /\ child \in Children /\ tree \in BOOLEAN /\ asked \in Seq(Requests)
      /\ loop = [queue |-> loop.queue, budget |-> loop.budget, ran |-> loop.ran,
                 files |-> loop.files, spent |-> loop.spent]
      /\ loop.queue \in Seq(Tasks)
      /\ phase \in [name : {"initial", "seeded", "model", "followup"},
                    requests : Seq(Requests), stage : {"tests", "builds"}]
  BY DEF RunInv, RunTyped, Children
<1>4. pc \in Resting /\ pc' \in Resting /\ pc' # "loop"
  BY <1>2 DEF Resting
<1> QED BY <1>1, <1>2, <1>3, <1>4, Rests

LEMMA AmongIn ==
  ASSUME NEW T, NEW s \in Seq(T), NEW S
  PROVE  Among(s, S) \in Seq(T)
<1> DEFINE k == Among(s, S)
<1>1. k \in Seq(SetOfSeq(s) \cap S)
  BY AmongKeeps
<1>2. SetOfSeq(s) \subseteq T
  BY RowsOf
<1> HIDE DEF k
<1>3. k \in Seq(T)
  BY <1>1, <1>2
<1> QED BY <1>3 DEF k

LEMMA RequestLists ==
  /\ Seeds \in Seq(Requests)
  /\ \A S : Among(Lanes, S) \in Seq(Requests) /\ Among(FollowUps, S) \in Seq(Requests)
<1>1. Seeds \in Seq(Requests) /\ Lanes \in Seq(Requests) /\ FollowUps \in Seq(Requests)
  BY RunConstants
<1>2. ASSUME NEW rs \in Seq(Requests), NEW S PROVE Among(rs, S) \in Seq(Requests)
  BY AmongIn
<1> QED BY <1>1, <1>2

LEMMA InitialOpens == ASSUME RunInv, OpenInitial PROVE RunInv'
<1>1. pc = "initial" /\ Open("initial", << >>) /\ asked' = asked
      /\ UNCHANGED <<cmd, child, tree, known, book, after>>
  BY DEF OpenInitial
<1>2. asked \in Seq(Requests) /\ << >> \in Seq(Requests)
  BY DEF RunInv, RunTyped
<1> QED BY <1>1, <1>2, PhaseOpens

LEMMA SeededOpens == ASSUME RunInv, OpenSeeded PROVE RunInv'
<1>1. pc = "seeded" /\ asked' = asked /\ (Open("seeded", Seeds) \/ Skip("model"))
      /\ UNCHANGED <<cmd, child, tree, known, book, after>>
  BY DEF OpenSeeded
<1>2. asked \in Seq(Requests) /\ Seeds \in Seq(Requests)
  BY RequestLists DEF RunInv, RunTyped
<1>3. CASE Open("seeded", Seeds)
  BY <1>1, <1>2, <1>3, PhaseOpens
<1>4. CASE Skip("model")
  BY <1>1, <1>4, PhaseSkipped
<1> QED BY <1>1, <1>3, <1>4

LEMMA RequestsOpen == ASSUME RunInv, OpenRequests PROVE RunInv'
<1>1. pc = "request" /\ asked' = asked /\ (Open("model", asked) \/ Skip("followup"))
      /\ UNCHANGED <<cmd, child, tree, known, book, after>>
  BY DEF OpenRequests
<1>2. asked \in Seq(Requests)
  BY DEF RunInv, RunTyped
<1>3. CASE Open("model", asked)
  BY <1>1, <1>2, <1>3, PhaseOpens
<1>4. CASE Skip("followup")
  BY <1>1, <1>4, PhaseSkipped
<1> QED BY <1>1, <1>3, <1>4

LEMMA FollowUpOpens == ASSUME RunInv, OpenFollowUp PROVE RunInv'
<1>1. PICK kept \in SUBSET SetOfSeq(FollowUps) :
        LET rs == Among(FollowUps, kept)
        IN asked' = asked \o Among(rs, Requests \ SetOfSeq(asked)) /\ Open("followup", rs)
  BY DEF OpenFollowUp
<1> DEFINE rs == Among(FollowUps, kept)
           new == Among(rs, Requests \ SetOfSeq(asked))
<1>2. rs \in Seq(Requests)
  BY RequestLists
<1>3. asked' = asked \o new /\ Open("followup", rs)
  BY <1>1
<1> HIDE DEF rs
<1>4. new \in Seq(Requests) /\ asked \in Seq(Requests)
  BY <1>2, AmongIn DEF RunInv, RunTyped
<1> HIDE DEF new
<1>5. asked' \in Seq(Requests)
  BY <1>3, <1>4
<1>6. pc = "followup" /\ UNCHANGED <<cmd, child, tree, known, book, after>>
  BY DEF OpenFollowUp
<1> QED BY <1>2, <1>3, <1>5, <1>6, PhaseOpens

LEMMA LanesAsked == ASSUME RunInv, LanesAsk PROVE RunInv'
<1>1. PICK kept \in SUBSET SetOfSeq(Lanes) : asked' = asked \o Among(Lanes, kept)
  BY DEF LanesAsk
<1>2. asked' \in Seq(Requests)
  <2> DEFINE new == Among(Lanes, kept)
  <2>1. new \in Seq(Requests) /\ asked \in Seq(Requests)
    BY RequestLists DEF RunInv, RunTyped
  <2> HIDE DEF new
  <2> QED BY <1>1, <2>1 DEF new
<1>3. /\ pc = "model" /\ pc' = "request" /\ receipts' = Attributed(receipts, asked')
      /\ phase' = phase /\ loop' = loop /\ cmd' = cmd /\ child' = child /\ tree' = tree
      /\ book' = book /\ verdicts' = verdicts
  BY DEF LanesAsk, after
<1>4. /\ WorkSound(book, receipts, {}) /\ \A c \in CommandTasks : child[c] \notin Alive
  BY <1>3, AtRest DEF Resting
<1>5. WorkSound(book', receipts', {})
  BY <1>2, <1>3, <1>4, AttributedSound
<1>6. /\ cmd = [task |-> cmd.task, side |-> cmd.side, rows |-> cmd.rows]
      /\ child \in Children /\ tree \in BOOLEAN
      /\ loop = [queue |-> loop.queue, budget |-> loop.budget, ran |-> loop.ran,
                 files |-> loop.files, spent |-> loop.spent]
      /\ loop.queue \in Seq(Tasks)
      /\ phase \in [name : {"initial", "seeded", "model", "followup"},
                    requests : Seq(Requests), stage : {"tests", "builds"}]
  BY DEF RunInv, RunTyped, Children
<1>7. pc \in Resting /\ pc' \in Resting /\ pc' # "loop"
  BY <1>3 DEF Resting
<1> QED BY <1>2, <1>3, <1>4, <1>5, <1>6, <1>7, Rests

LEMMA BuildsPlanned == ASSUME RunInv, PlanBuilds PROVE RunInv'
<1>1. /\ pc = "loop" /\ pc' = "loop" /\ phase' = [phase EXCEPT !.stage = "builds"]
      /\ loop' = [NoLoop EXCEPT !.budget = BudgetNow,
           !.queue = Among(Chosen(phase.name, phase.requests, BudgetNow, left').chosen, Builds)]
      /\ cmd' = cmd /\ child' = child /\ tree' = tree /\ receipts' = receipts /\ book' = book
      /\ verdicts' = verdicts /\ asked' = asked
  BY DEF PlanBuilds, known, after
<1>2. /\ WorkSound(book, receipts, {}) /\ \A c \in CommandTasks : child[c] \notin Alive
  BY <1>1, AtRest DEF Resting
<1>3. /\ cmd = [task |-> cmd.task, side |-> cmd.side, rows |-> cmd.rows]
      /\ child \in Children /\ tree \in BOOLEAN /\ asked \in Seq(Requests)
      /\ phase \in [name : {"initial", "seeded", "model", "followup"},
                    requests : Seq(Requests), stage : {"tests", "builds"}]
  BY DEF RunInv, RunTyped, Children
<1> DEFINE q == Among(Chosen(phase.name, phase.requests, BudgetNow, left').chosen, Builds)
<1>4. q \in Seq(Tasks) /\ IsInjective(q) /\ SetOfSeq(q) \cap Receipted(receipts) = {}
  BY <1>2, <1>3, QueueChosen
<1> HIDE DEF q
<1>5. /\ loop' = [queue |-> q, budget |-> BudgetNow, ran |-> 0, files |-> {}, spent |-> 0]
  BY <1>1 DEF q, NoLoop
<1>6. /\ loop' = [queue |-> loop'.queue, budget |-> loop'.budget, ran |-> loop'.ran,
                  files |-> loop'.files, spent |-> loop'.spent]
      /\ loop'.queue = q
  BY <1>5
<1>7. phase' \in [name : {"initial", "seeded", "model", "followup"},
                  requests : Seq(Requests), stage : {"tests", "builds"}]
  BY <1>1, <1>3
<1>8. pc \in Resting /\ pc' \in Resting
  BY <1>1 DEF Resting
<1> QED BY <1>1, <1>2, <1>3, <1>4, <1>6, <1>7, <1>8, Rests

LEMMA PhaseCloses == ASSUME RunInv, ClosePhase PROVE RunInv'
<1>1. /\ pc = "loop" /\ pc' = NextPhase(phase.name) /\ phase' = phase
      /\ loop' = loop /\ cmd' = cmd /\ child' = child /\ tree' = tree /\ receipts' = receipts
      /\ book' = book /\ verdicts' = verdicts /\ asked' = asked
  BY DEF ClosePhase, known
<1>2. /\ WorkSound(book, receipts, {}) /\ \A c \in CommandTasks : child[c] \notin Alive
  BY <1>1, AtRest DEF Resting
<1>3. /\ cmd = [task |-> cmd.task, side |-> cmd.side, rows |-> cmd.rows]
      /\ child \in Children /\ tree \in BOOLEAN /\ asked \in Seq(Requests)
      /\ loop = [queue |-> loop.queue, budget |-> loop.budget, ran |-> loop.ran,
                 files |-> loop.files, spent |-> loop.spent]
      /\ loop.queue \in Seq(Tasks)
      /\ phase \in [name : {"initial", "seeded", "model", "followup"},
                    requests : Seq(Requests), stage : {"tests", "builds"}]
  BY DEF RunInv, RunTyped, Children
<1>4. phase.name \in {"initial", "seeded", "model", "followup"}
  BY <1>3
<1>5. NextPhase(phase.name) \in {"seeded", "model", "followup", "publish"}
  BY <1>4 DEF NextPhase
<1>6. pc \in Resting /\ pc' \in Resting /\ pc' # "loop"
  BY <1>1, <1>5 DEF Resting
<1> QED BY <1>1, <1>2, <1>3, <1>6, Rests

(***************************************************************************)
(* The runner.                                                             *)
(***************************************************************************)
LEMMA TailKeeps ==
  ASSUME NEW S, NEW s \in Seq(S), IsInjective(s), s # << >>
  PROVE  /\ Tail(s) \in Seq(S) /\ IsInjective(Tail(s))
         /\ SetOfSeq(Tail(s)) \subseteq SetOfSeq(s)
         /\ s[1] \in S /\ s[1] \in SetOfSeq(s) /\ s[1] \notin SetOfSeq(Tail(s))
<1> DEFINE u == Tail(s)
<1>1. /\ Len(s) \in Nat /\ Len(s) # 0 /\ DOMAIN s = 1 .. Len(s)
      /\ u \in Seq(S) /\ DOMAIN u = 1 .. Len(s) - 1 /\ \A i \in DOMAIN u : u[i] = s[i + 1]
      /\ s[1] \in S
  OBVIOUS
<1> HIDE DEF u
<1>2. \A i \in DOMAIN u : i + 1 \in DOMAIN s /\ i + 1 # 1
  BY <1>1
<1>3. 1 \in DOMAIN s
  BY <1>1
<1>4. \A i, j \in DOMAIN s : s[i] = s[j] => i = j
  BY DEF IsInjective
<1>5. IsInjective(u)
  <2>1. \A i, j \in DOMAIN u : i + 1 = j + 1 => i = j
    BY <1>1
  <2> QED BY <1>1, <1>2, <1>4, <2>1 DEF IsInjective
<1>6. SetOfSeq(u) \subseteq SetOfSeq(s)
  BY <1>1, <1>2 DEF SetOfSeq
<1>7. s[1] \notin SetOfSeq(u)
  BY <1>1, <1>2, <1>3, <1>4 DEF SetOfSeq
<1> QED BY <1>1, <1>3, <1>5, <1>6, <1>7 DEF u, SetOfSeq

\* A receipt is written, and the next task is due.
LEMMA Receives ==
  ASSUME RunInv, pc \in Busy \cup {"loop"}, loop.queue # << >>, pc' = "loop",
         NEW x, Whole(x), x.id = loop.queue[1], Covered(book', loop.queue[1], x.rows),
         WorkSound(book', receipts, {loop.queue[1]}), receipts' = Append(receipts, x),
         loop' = [queue |-> loop'.queue, budget |-> loop'.budget, ran |-> loop'.ran,
                  files |-> loop'.files, spent |-> loop'.spent],
         loop'.queue = Tail(loop.queue),
         asked' = asked, phase' = phase, verdicts' = verdicts,
         cmd' = [task |-> cmd'.task, side |-> cmd'.side, rows |-> cmd'.rows],
         child' \in Children, \A c \in CommandTasks : child'[c] \notin Alive,
         tree' \in BOOLEAN
  PROVE  RunInv'
<1> DEFINE t == loop.queue[1]
<1>1. /\ loop.queue \in Seq(Tasks) /\ IsInjective(loop.queue)
      /\ SetOfSeq(loop.queue) \cap Receipted(receipts) = {}
  BY DEF RunInv, RunTyped, QueueSound, Busy
<1>2. /\ loop'.queue \in Seq(Tasks) /\ IsInjective(loop'.queue)
      /\ SetOfSeq(loop'.queue) \subseteq SetOfSeq(loop.queue)
      /\ t \in Tasks /\ t \notin SetOfSeq(loop'.queue)
  BY <1>1, TailKeeps
<1>3. WorkSound(book', receipts', {}) /\ Receipted(receipts') = Receipted(receipts) \cup {t}
  BY <1>2, WorkConcludes
<1>4. SetOfSeq(loop'.queue) \cap Receipted(receipts') = {}
  BY <1>1, <1>2, <1>3
<1>5. asked \in Seq(Requests)
      /\ phase \in [name : {"initial", "seeded", "model", "followup"},
                    requests : Seq(Requests), stage : {"tests", "builds"}]
  BY DEF RunInv, RunTyped
<1>6. pc \in Resting \cup Busy /\ pc' \in Resting
  BY DEF Resting
<1> QED BY <1>2, <1>3, <1>4, <1>5, <1>6, Rests

LEMMA ObstacleIs ==
  ASSUME NEW t, Obstacle(t).lease # "granted"
  PROVE  /\ Obstacle(t).d \in Dispositions
         /\ Obstacle(t).result \in {"skipped_profile", "skipped_budget"}
BY DEF Obstacle, Dispositions

LEMMA NextTaken == ASSUME RunInv, TakeNext PROVE RunInv'
<1> DEFINE t == loop.queue[1]
           c == <<t, "head">>
           o == Obstacle(t)
<1>1. pc = "loop" /\ loop.queue # << >> /\ child' = child /\ tree' = tree
  BY DEF TakeNext
<1>2. /\ WorkSound(book, receipts, {}) /\ book \in Books
      /\ \A x \in CommandTasks : child[x] \notin Alive
  BY <1>1, AtRest DEF Resting
<1>3. /\ loop.queue \in Seq(Tasks) /\ IsInjective(loop.queue)
      /\ SetOfSeq(loop.queue) \cap Receipted(receipts) = {}
      /\ loop = [queue |-> loop.queue, budget |-> loop.budget, ran |-> loop.ran,
                 files |-> loop.files, spent |-> loop.spent]
      /\ cmd = [task |-> cmd.task, side |-> cmd.side, rows |-> cmd.rows]
      /\ child \in Children /\ tree \in BOOLEAN /\ phase.requests \in Seq(Requests)
  BY <1>1 DEF RunInv, RunTyped, QueueSound, Children
<1>4. t \in Tasks /\ t \notin Receipted(receipts)
  BY <1>1, <1>3, TailKeeps
<1>5. WorkSound(book, receipts, {t}) /\ Covered(book, t, << >>)
  BY <1>2, <1>4, WorkStarts
<1>6. c \in CommandTasks /\ c[1] = t /\ c[2] = "head" /\ "head" \in Sided
  BY <1>4, CommandTaskOf DEF Sided
<1>7. RowsSoFar(t, "head", << >>)
  BY DEF RowsSoFar
<1>8. MayRegister(book, c)
  <2>1. book.log[c] = << >>
    BY <1>2, <1>5, <1>6, <1>7, SideAhead
  <2> QED BY <2>1 DEF MayRegister, Proposed
<1>9. \/ o.lease = "granted" /\ Begin(t) /\ UNCHANGED <<setting, left, asked, phase, after, fault>>
      \/ o.lease # "granted" /\ Decline(t, o) /\ UNCHANGED <<setting, left, asked, phase, after, fault>>
      \/ o.lease # "granted" /\ Fail(Declined(book, c, o.d)) /\ fault' = TRUE
  BY <1>8 DEF TakeNext
<1> HIDE DEF t, c, o
<1>10. ASSUME o.lease # "granted"
       PROVE  /\ WorkSound(Declined(book, c, o.d), receipts, {t})
              /\ Covered(Declined(book, c, o.d), t, Append(<< >>, SkippedRow("head")))
              /\ Declined(book, c, o.d) \in Books
  <2>1. o.d \in Dispositions
    BY <1>10, ObstacleIs DEF o
  <2> QED BY <1>5, <1>6, <1>7, <2>1, DeclinesSide
<1>11. CASE o.lease = "granted" /\ Begin(t) /\ UNCHANGED <<setting, left, asked, phase, after, fault>>
  <2>1. /\ book' = Began(book, c) /\ cmd' = [task |-> t, side |-> "head", rows |-> << >>]
        /\ pc' = "launch" /\ receipts' = receipts /\ asked' = asked /\ phase' = phase
        /\ verdicts' = verdicts /\ \E fs : loop' = [loop EXCEPT !.files = fs]
    BY <1>11 DEF Begin, known, after, c
  <2>2. /\ WorkSound(book', receipts', {t}) /\ Opened(book', c, << >>, "Setup")
    BY <1>5, <1>6, <1>7, <2>1, BeginsSide
  <2>3. /\ loop' = [queue |-> loop'.queue, budget |-> loop'.budget, ran |-> loop'.ran,
                    files |-> loop'.files, spent |-> loop'.spent]
        /\ loop'.queue = loop.queue
    BY <1>3, <2>1
  <2>4. CommandSound'
    <3>1. This' = c /\ cmd'.rows = << >> /\ cmd'.task = t /\ cmd'.side = "head"
      BY <2>1 DEF This, c
    <3> QED BY <1>1, <1>7, <2>1, <2>2, <2>3, <3>1 DEF CommandSound, t
  <2>5. ProcessesSound'
    <3>1. cmd'.side = "head"
      BY <2>1
    <3> QED BY <1>1, <1>2, <2>1, <3>1 DEF ProcessesSound, OnBase
  <2>6. cmd'.task = t /\ cmd'.side \in Sided /\ pc' \in Busy /\ pc \in Resting
        /\ cmd' = [task |-> cmd'.task, side |-> cmd'.side, rows |-> cmd'.rows]
    BY <1>1, <1>6, <2>1 DEF Busy, Resting
  <2> QED BY <1>1, <1>3, <1>4, <2>1, <2>2, <2>3, <2>4, <2>5, <2>6, Works
<1>12. CASE o.lease # "granted" /\ Decline(t, o)
            /\ UNCHANGED <<setting, left, asked, phase, after, fault>>
  <2> DEFINE rows == Append(<< >>, SkippedRow("head"))
             x == Receipt(t, rows, o.result)
  <2>1. rows = <<SkippedRow("head")>>
    OBVIOUS
  <2>2. /\ book' = Declined(book, c, o.d) /\ receipts' = Append(receipts, x)
        /\ loop' = [loop EXCEPT !.queue = Tail(@)] /\ pc' = pc /\ cmd' = cmd
        /\ asked' = asked /\ phase' = phase /\ verdicts' = verdicts
    BY <1>12, <2>1 DEF Decline, after, c
  <2> HIDE DEF rows
  <2>3. /\ loop' = [queue |-> loop'.queue, budget |-> loop'.budget, ran |-> loop'.ran,
                    files |-> loop'.files, spent |-> loop'.spent]
        /\ loop'.queue = Tail(loop.queue)
    BY <1>3, <2>2
  <2>4. Whole(x) /\ x.id = t /\ x.rows = rows
    <3>1. ResultFits(<< >>, SkippedRow("head"), "head", o.result)
      BY <1>6, <1>12, ObstacleIs, SkippedIs DEF ResultFits, o
    <3> DEFINE new == SkippedRow("head")
               none == << >>
    <3>2. /\ new \in Rows /\ new.side = "head" /\ RowSound(t, new)
          /\ new.status # "passed"
      BY <1>6, SkippedIs
    <3>3. RowsSoFar(t, "head", none) /\ ResultFits(none, new, "head", o.result)
          /\ rows = Append(none, new)
      BY <1>7, <3>1 DEF rows
    <3> HIDE DEF new, none
    <3> QED BY <1>3, <1>4, <1>6, <3>2, <3>3, WholeOf
  <2>5. WorkSound(book', receipts, {t}) /\ Covered(book', t, x.rows)
    BY <1>10, <1>12, <2>2, <2>4 DEF rows
  <2> HIDE DEF x
  <2>6. WorkSound(book', receipts, {loop.queue[1]}) /\ Covered(book', loop.queue[1], x.rows)
        /\ x.id = loop.queue[1]
    BY <2>4, <2>5 DEF t
  <2> QED BY <1>1, <1>2, <1>3, <2>2, <2>3, <2>4, <2>6, Receives
<1>13. CASE o.lease # "granted" /\ Fail(Declined(book, c, o.d)) /\ fault' = TRUE
  <2> DEFINE b == Declined(book, c, o.d)
  <2>1. b \in Books /\ Fail(b) /\ WorkSound(b, receipts, {t})
    BY <1>10, <1>13
  <2> HIDE DEF b
  <2>2. \A x \in CommandTasks : ~Logged(b, x, "ReceiptCreated")
    <3>1. \A x \in CommandTasks : Quiet(b.log[x])
      BY <2>1 DEF WorkSound, QuietBook
    <3> QED BY <3>1, NothingCredited
  <2>3. pc \in Resting
    BY <1>1 DEF Resting
  <2> QED BY <1>1, <1>2, <1>3, <1>13, <2>1, <2>2, <2>3, Fails
<1> QED BY <1>9, <1>11, <1>12, <1>13

(***************************************************************************)
(* One command.                                                            *)
(***************************************************************************)
LEMMA OpenedStays ==
  ASSUME NEW b, NEW c \in CommandTasks, NEW rows, RowsSoFar(c[1], c[2], rows),
         NEW st, Opened(b, c, rows, st), NEW b2, Only(b, b2, c), b2.expected = b.expected,
         b2.pending = b.pending, NEW on, Reaches(b2.log[c], on)
  PROVE  Opened(b2, c, rows, on)
<1>1. c[1] \in Tasks /\ c[2] \in Sided /\ c = <<c[1], c[2]>>
  BY CommandTaskIs
<1>2. \A row \in SetOfSeq(rows) : row.side = "head" /\ row.side # c[2]
  BY <1>1, SidesSoFar
<1>3. \A row \in SetOfSeq(rows) : <<c[1], row.side>> # c /\ <<c[1], row.side>> \in CommandTasks
  <2>1. "head" \in Sided
    BY DEF Sided
  <2> QED BY <1>1, <1>2, <2>1, CommandTaskOf
<1>4. \A row \in SetOfSeq(rows) : Recorded(b2, c[1], row)
  <2>1. \A row \in SetOfSeq(rows) : Recorded(b, c[1], row)
    BY DEF Opened
  <2> QED BY <1>3, <2>1, RecordedStays
<1>5. c[2] = "head" => Untouched(b2, <<c[1], "base-plus-tests">>)
  <2>1. c[2] = "head" => Untouched(b, <<c[1], "base-plus-tests">>)
    BY DEF Opened
  <2> QED BY <2>1, BaseAside, UntouchedStays
<1> QED BY <1>4, <1>5 DEF Opened

LEMMA GivesUp ==
  ASSUME NEW b \in Books, \A c \in CommandTasks : Quiet(b.log[c]), This \in CommandTasks
  PROVE  /\ GivenUp(b) \in Books
         /\ \A c \in CommandTasks : ~Logged(GivenUp(b), c, "ReceiptCreated")
<1>1. \A c \in CommandTasks : ~Logged(b, c, "ReceiptCreated")
  BY NothingCredited
<1> QED BY <1>1, LosesReceipt DEF GivenUp

LEMMA Launched ==
  ASSUME RunInv, pc \in {"launch", "wait"}
  PROVE  /\ RowsSoFar(cmd.task, cmd.side, cmd.rows)
         /\ Opened(book, This, cmd.rows, IF pc = "launch" THEN "Setup" ELSE "Running")
         /\ Reaches(book.log[This], IF pc = "launch" THEN "Setup" ELSE "Running")
         /\ loop.queue # << >> /\ cmd.task = loop.queue[1] /\ loop.queue \in Seq(Tasks)
         /\ loop = [queue |-> loop.queue, budget |-> loop.budget, ran |-> loop.ran,
                    files |-> loop.files, spent |-> loop.spent]
         /\ child \in Children /\ tree \in BOOLEAN
BY DEF RunInv, RunTyped, CommandSound, Opened, Busy, Children

\* Whatever is given up, a failed step that leaves no process behind fails the
\* run and credits nothing.
LEMMA FailsQuietly ==
  ASSUME RunInv, pc \in Resting \cup Busy, NEW b \in Books, \A c \in CommandTasks : Quiet(b.log[c]),
         Fail(b) \/ (pc \in Busy /\ Fail(GivenUp(b))), fault' = TRUE, child' \in Children, tree' \in BOOLEAN,
         \A c \in CommandTasks : child'[c] \notin Alive
  PROVE  RunInv'
<1>1. CASE Fail(b)
  <2>1. \A c \in CommandTasks : ~Logged(b, c, "ReceiptCreated")
    BY NothingCredited
  <2> QED BY <1>1, <2>1, Fails
<1>2. CASE pc \in Busy /\ Fail(GivenUp(b))
  <2>1. This \in CommandTasks
    BY <1>2, AtWork
  <2> DEFINE g == GivenUp(b)
  <2>2. g \in Books /\ \A c \in CommandTasks : ~Logged(g, c, "ReceiptCreated")
    BY <2>1, GivesUp
  <2>3. Fail(g)
    BY <1>2
  <2> HIDE DEF g
  <2> QED BY <2>2, <2>3, Fails
<1> QED BY <1>1, <1>2

LEMMA PathsFail == ASSUME RunInv, FailPaths PROVE RunInv'
<1>1. pc = "launch" /\ pc \in Busy /\ fault' = TRUE /\ child' = child
  BY DEF FailPaths, Busy
<1>2. /\ This \in CommandTasks /\ This[1] = cmd.task /\ book \in Books /\ Quiet(book.log[This])
      /\ WorkSound(book, receipts, {cmd.task})
  BY <1>1, AtWork
<1>3. /\ Reaches(book.log[This], "Setup") /\ child \in Children /\ tree \in BOOLEAN
  BY <1>1, Launched
<1>4. PICK ok \in BOOLEAN : /\ Fail(IF ok THEN GivenUp(SetupLost(book, This)) ELSE book)
                            /\ tree' = TreeNow(ok)
  BY DEF FailPaths, Cleanups
<1> DEFINE b2 == SetupLost(book, This)
<1>5. Only(book, b2, This) /\ Quiet(b2.log[This])
  BY <1>2, <1>3, LosesSetup
<1> HIDE DEF b2
<1>6. WorkSound(b2, receipts, {cmd.task})
  BY <1>2, <1>5, WorkMoves
<1>7. /\ b2 \in Books /\ \A c \in CommandTasks : Quiet(b2.log[c])
      /\ \A c \in CommandTasks : Quiet(book.log[c])
  BY <1>2, <1>6 DEF WorkSound, QuietBook
<1>8. tree' \in BOOLEAN
  BY <1>3, <1>4 DEF TreeNow
<1>9. \A c \in CommandTasks : child'[c] \notin Alive
  BY <1>1 DEF RunInv, ProcessesSound
<1>10. CASE ok
  BY <1>1, <1>3, <1>4, <1>7, <1>8, <1>9, <1>10, FailsQuietly DEF b2
<1>11. CASE ~ok
  BY <1>1, <1>2, <1>3, <1>4, <1>7, <1>8, <1>9, <1>11, FailsQuietly
<1> QED BY <1>10, <1>11

LEMMA Spawned == ASSUME RunInv, Spawn PROVE RunInv'
<1>1. /\ pc = "launch" /\ pc \in Busy /\ pc' = "wait" /\ book' = Ran(book, This)
      /\ child' = [child EXCEPT ![This] = "running"]
      /\ asked' = asked /\ phase' = phase /\ loop' = loop /\ cmd' = cmd /\ tree' = tree
      /\ receipts' = receipts /\ verdicts' = verdicts
  BY DEF Spawn, Busy, known, after
<1>2. /\ This \in CommandTasks /\ This[1] = cmd.task /\ This[2] = cmd.side
      /\ book \in Books /\ Quiet(book.log[This])
      /\ WorkSound(book, receipts, {cmd.task}) /\ cmd.task \in Tasks /\ cmd.side \in Sided
      /\ cmd = [task |-> cmd.task, side |-> cmd.side, rows |-> cmd.rows]
  BY <1>1, AtWork
<1>3. /\ RowsSoFar(cmd.task, cmd.side, cmd.rows) /\ Opened(book, This, cmd.rows, "Setup")
      /\ Reaches(book.log[This], "Setup") /\ child \in Children /\ tree \in BOOLEAN
      /\ loop.queue # << >> /\ cmd.task = loop.queue[1]
      /\ loop = [queue |-> loop.queue, budget |-> loop.budget, ran |-> loop.ran,
                 files |-> loop.files, spent |-> loop.spent]
  BY <1>1, Launched
<1>4. /\ Only(book, book', This) /\ book'.expected = book.expected
      /\ book'.pending = book.pending
      /\ Reaches(book'.log[This], "Running") /\ Quiet(book'.log[This])
  BY <1>1, <1>2, <1>3, RunsCommand
<1>5. WorkSound(book', receipts, {cmd.task})
  BY <1>2, <1>4, WorkMoves
<1>6. Opened(book', This, cmd.rows, "Running")
  BY <1>2, <1>3, <1>4, OpenedStays
<1>7. child' \in Children /\ \A c \in CommandTasks : child'[c] = IF c = This THEN "running" ELSE child[c]
  BY <1>1, <1>2, <1>3 DEF Children
<1>8. This' = This /\ (OnBase' <=> OnBase)
  BY <1>1 DEF This, OnBase
<1>9. CommandSound'
  BY <1>1, <1>3, <1>6, <1>8 DEF CommandSound
<1>10. ProcessesSound'
  <2>1. \A c \in CommandTasks : child[c] \notin Alive
    BY <1>1 DEF RunInv, ProcessesSound
  <2>2. \A c \in CommandTasks : child'[c] \in Alive <=> c = This
    BY <1>7, <2>1 DEF Alive
  <2>3. OnBase => tree
    BY <1>1 DEF RunInv, ProcessesSound
  <2> QED BY <1>1, <1>2, <1>8, <2>2, <2>3 DEF ProcessesSound
<1>11. pc' \in Busy
  BY <1>1 DEF Busy
<1> QED BY <1>1, <1>2, <1>3, <1>5, <1>7, <1>9, <1>10, <1>11, Works

\* The receipt of the command at hand is written.
LEMMA Concluded0 ==
  ASSUME RunInv, pc \in Busy, NEW rows, NEW result, Concludes(rows, result),
         Whole(Receipt(cmd.task, rows, result)),
         Receipt(cmd.task, rows, result).id = cmd.task,
         Covered(book', cmd.task, Receipt(cmd.task, rows, result).rows),
         WorkSound(book', receipts, {cmd.task}),
         asked' = asked, phase' = phase, verdicts' = verdicts,
         child' \in Children, \A c \in CommandTasks : child'[c] \notin Alive, tree' \in BOOLEAN
  PROVE  RunInv'
<1> DEFINE x == Receipt(cmd.task, rows, result)
<1>1. /\ loop.queue # << >> /\ cmd.task = loop.queue[1]
      /\ loop = [queue |-> loop.queue, budget |-> loop.budget, ran |-> loop.ran,
                 files |-> loop.files, spent |-> loop.spent]
  BY DEF RunInv, RunTyped, CommandSound
<1>2. /\ receipts' = Append(receipts, x) /\ cmd' = NoCommand /\ pc' = "loop"
      /\ \E more : loop' = [loop EXCEPT !.queue = Tail(@), !.ran = @ + 1, !.spent = @ + more]
  <2> HIDE DEF x
  <2> QED BY DEF Concludes, x
<1> HIDE DEF x
<1>3. /\ loop' = [queue |-> loop'.queue, budget |-> loop'.budget, ran |-> loop'.ran,
                  files |-> loop'.files, spent |-> loop'.spent]
      /\ loop'.queue = Tail(loop.queue)
  BY <1>1, <1>2
<1>4. cmd' = [task |-> cmd'.task, side |-> cmd'.side, rows |-> cmd'.rows]
  BY <1>2 DEF NoCommand
<1>5. Whole(x) /\ x.id = cmd.task /\ Covered(book', cmd.task, x.rows)
  BY DEF x
<1> QED BY <1>1, <1>2, <1>3, <1>4, <1>5, Receives

\* A command's row is added to its receipt.
LEMMA RowAdded ==
  ASSUME RunInv, pc \in {"launch", "wait"}, NEW row \in Rows, Row(row), RowSound(cmd.task, row),
         row.side = cmd.side, row.limit # 0,
         Only(book, book', This), book'.expected = book.expected, This \in book'.pending,
         Reaches(book'.log[This], "ReceiptPending"), Quiet(book'.log[This]),
         SaysIn(book'.log[This], row),
         asked' = asked, phase' = phase, verdicts' = verdicts,
         child' \in Children, \A c \in CommandTasks : child'[c] \notin Alive, tree' \in BOOLEAN
  PROVE  RunInv'
<1> DEFINE rows == Append(cmd.rows, row)
<1>1. pc \in Busy
  BY DEF Busy
<1>2. /\ This \in CommandTasks /\ This[1] = cmd.task /\ This[2] = cmd.side
      /\ WorkSound(book, receipts, {cmd.task}) /\ cmd.task \in Tasks /\ cmd.side \in Sided
      /\ cmd = [task |-> cmd.task, side |-> cmd.side, rows |-> cmd.rows]
      /\ phase.requests \in Seq(Requests)
  BY <1>1, AtWork
<1>3. /\ RowsSoFar(cmd.task, cmd.side, cmd.rows)
      /\ Opened(book, This, cmd.rows, IF pc = "launch" THEN "Setup" ELSE "Running")
      /\ loop.queue # << >> /\ cmd.task = loop.queue[1]
      /\ loop = [queue |-> loop.queue, budget |-> loop.budget, ran |-> loop.ran,
                 files |-> loop.files, spent |-> loop.spent]
  BY Launched
<1>4. WorkSound(book', receipts, {cmd.task})
  BY <1>2, WorkMoves
<1>5. Covered(book', cmd.task, rows)
  BY <1>2, <1>3, SideCovers
<1>6. CASE Kind[cmd.task] = "red_green" /\ ~OnBase /\ row.status = "passed"
  <2>1. /\ cmd' = [cmd EXCEPT !.rows = rows] /\ pc' = "base" /\ loop' = loop
        /\ receipts' = receipts
    BY <1>6 DEF Row, known
  <2>2. cmd.side = "head" /\ cmd.rows = << >>
    BY <1>2, <1>3, <1>6 DEF OnBase, RowsSoFar, Sided
  <2>3. rows \in Seq(Rows) /\ Len(rows) = 1 /\ rows[1] = row
    BY <2>2
  <2> HIDE DEF rows
  <2>4. RowsSoFar(cmd.task, "base-plus-tests", rows)
    BY <1>6, <2>2, <2>3 DEF RowsSoFar, PassedHead
  <2>5. cmd' = [task |-> cmd.task, side |-> cmd.side, rows |-> rows]
    BY <1>2, <2>1
  <2>6. /\ cmd' = [task |-> cmd'.task, side |-> cmd'.side, rows |-> cmd'.rows]
        /\ cmd'.task = cmd.task /\ cmd'.side = cmd.side /\ cmd'.rows = rows
    BY <2>5
  <2>7. CommandSound'
    BY <1>3, <1>5, <2>1, <2>2, <2>4, <2>6 DEF CommandSound
  <2>8. ProcessesSound'
    BY <2>1 DEF ProcessesSound
  <2>9. pc' \in Busy
    BY <2>1 DEF Busy
  <2> QED BY <1>1, <1>2, <1>3, <1>4, <2>1, <2>6, <2>7, <2>8, <2>9, Works
<1>7. CASE ~(Kind[cmd.task] = "red_green" /\ ~OnBase /\ row.status = "passed")
  <2> DEFINE result == ResultOf(rows)
  <2>1. Concludes(rows, result)
    BY <1>7 DEF Row
  <2>2. ResultFits(cmd.rows, row, cmd.side, result)
    BY DEF ResultFits
  <2>3. ~(Kind[cmd.task] = "red_green" /\ cmd.side = "head" /\ row.status = "passed")
    BY <1>7 DEF OnBase
  <2> HIDE DEF result
  <2>4. LET x == Receipt(cmd.task, rows, result)
        IN Whole(x) /\ x.id = cmd.task /\ x.rows = rows
    BY <1>2, <1>3, <2>2, <2>3, WholeOf
  <2> HIDE DEF rows
  <2> QED BY <1>1, <1>4, <1>5, <2>1, <2>4, Concluded0
<1> QED BY <1>6, <1>7

LEMMA CommandEnds ==
  ASSUME RunInv, pc \in {"launch", "wait"}, NEW told, NEW untold, NEW row \in Rows,
         Ends(told, untold, row), RowSound(cmd.task, row), row.side = cmd.side, row.limit # 0,
         Only(book, told, This), told.expected = book.expected, This \in told.pending,
         Reaches(told.log[This], "ReceiptPending"), Quiet(told.log[This]),
         SaysIn(told.log[This], row),
         untold \in Books, \A c \in CommandTasks : Quiet(untold.log[c]),
         child' \in Children, \A c \in CommandTasks : child'[c] \notin Alive
  PROVE  RunInv'
<1>1. PICK cleaned \in Cleanups, bounded \in BOOLEAN :
        /\ tree' = TreeNow(cleaned)
        /\ IF cleaned /\ bounded
           THEN /\ book' = told /\ Row(row)
                /\ UNCHANGED <<setting, left, asked, phase, after, fault>>
           ELSE Fail(IF cleaned THEN GivenUp(told) ELSE untold) /\ fault' = TRUE
  BY DEF Ends
<1>2. tree' \in BOOLEAN /\ cleaned \in BOOLEAN
  BY <1>1, Launched DEF TreeNow, Cleanups
<1>3. CASE cleaned /\ bounded
  <2>1. book' = told /\ Row(row) /\ asked' = asked /\ phase' = phase /\ verdicts' = verdicts
    BY <1>1, <1>3 DEF after
  <2> QED BY <1>2, <2>1, RowAdded
<1>4. CASE ~(cleaned /\ bounded)
  <2>1. Fail(IF cleaned THEN GivenUp(told) ELSE untold) /\ fault' = TRUE
    BY <1>1, <1>4
  <2>2. pc \in Busy
    BY DEF Busy
  <2>3. /\ This \in CommandTasks /\ This[1] = cmd.task /\ WorkSound(book, receipts, {cmd.task})
    BY <2>2, AtWork
  <2>4. WorkSound(told, receipts, {cmd.task})
    BY <2>3, WorkMoves
  <2>5. told \in Books /\ \A c \in CommandTasks : Quiet(told.log[c])
    BY <2>4 DEF WorkSound, QuietBook
  <2>6. CASE cleaned
    BY <1>2, <2>1, <2>2, <2>5, <2>6, FailsQuietly
  <2>7. CASE ~cleaned
    BY <1>2, <2>1, <2>2, <2>7, FailsQuietly
  <2> QED BY <2>6, <2>7
<1> QED BY <1>3, <1>4

LEMMA SpawnFails == ASSUME RunInv, FailSpawn PROVE RunInv'
<1> DEFINE row == [side |-> cmd.side, status |-> "skipped", exit |-> FALSE,
                   limit |-> Allowance[cmd.task], ticks |-> 1]
           told == SetupLost(book, This)
<1>1. pc = "launch" /\ pc \in Busy /\ child' = child /\ Ends(told, book, row)
  BY DEF FailSpawn, Busy
<1>2. /\ This \in CommandTasks /\ This[1] = cmd.task /\ This[2] = cmd.side
      /\ book \in Books /\ Quiet(book.log[This])
      /\ WorkSound(book, receipts, {cmd.task}) /\ cmd.task \in Tasks /\ cmd.side \in Sided
  BY <1>1, AtWork
<1>3. Reaches(book.log[This], "Setup") /\ child \in Children
  BY <1>1, Launched
<1>4. /\ Only(book, told, This) /\ told.expected = book.expected /\ This \in told.pending
      /\ Reaches(told.log[This], "ReceiptPending") /\ Quiet(told.log[This])
      /\ \A r : r.status = "skipped" => SaysIn(told.log[This], r)
  BY <1>2, <1>3, LosesSetup
<1>5. Allowance[cmd.task] \in Nat \ {0}
  BY <1>2, CostsNat
<1>6. /\ row \in Rows /\ RowSound(cmd.task, row) /\ row.side = cmd.side /\ row.limit # 0
      /\ row.status = "skipped"
  BY <1>2, <1>5 DEF Rows, RowSound
<1>7. \A c \in CommandTasks : Quiet(book.log[c])
  BY <1>2 DEF WorkSound, QuietBook
<1>8. \A c \in CommandTasks : child[c] \notin Alive
  BY <1>1 DEF RunInv, ProcessesSound
<1> HIDE DEF row, told
<1> QED BY <1>1, <1>2, <1>3, <1>4, <1>6, <1>7, <1>8, CommandEnds

LEMMA Exits == ASSUME RunInv, Exit PROVE RunInv'
<1>1. PICK ending \in Endings :
       LET outcome  == ending.outcome
           finished == Finished(book, This, Disposition(outcome))
       IN Ends(CleanedUp(finished, This), finished,
               [side |-> cmd.side, status |-> StatusOf(outcome),
                exit |-> outcome \in {"passed", "failed"}, limit |-> Allowance[cmd.task],
                ticks |-> IF outcome = "cancelled" THEN More(ending.ticks, 1) ELSE ending.ticks])
  BY DEF Exit
<1> DEFINE outcome == ending.outcome
           untold == Finished(book, This, Disposition(outcome))
           told == CleanedUp(untold, This)
           row == [side |-> cmd.side, status |-> StatusOf(outcome),
                   exit |-> outcome \in {"passed", "failed"}, limit |-> Allowance[cmd.task],
                   ticks |-> IF outcome = "cancelled" THEN More(ending.ticks, 1)
                             ELSE ending.ticks]
<1>2. pc = "wait" /\ pc \in Busy /\ child' = [child EXCEPT ![This] = "gone"]
      /\ Ends(told, untold, row)
  BY <1>1 DEF Exit, Busy
<1>3. /\ This \in CommandTasks /\ This[1] = cmd.task /\ This[2] = cmd.side
      /\ book \in Books /\ Quiet(book.log[This])
      /\ WorkSound(book, receipts, {cmd.task}) /\ cmd.task \in Tasks /\ cmd.side \in Sided
  BY <1>2, AtWork
<1>4. Reaches(book.log[This], "Running") /\ child \in Children
  BY <1>2, Launched
<1>5. outcome \in Outcomes /\ ending.ticks \in Nat
  BY RunConstants
<1>6. /\ Only(book, untold, This) /\ Quiet(untold.log[This])
      /\ Only(book, told, This) /\ told.expected = book.expected /\ This \in told.pending
      /\ Reaches(told.log[This], "ReceiptPending") /\ Quiet(told.log[This])
      /\ \A r : r.status = StatusOf(outcome) => SaysIn(told.log[This], r)
  <2> DEFINE oc == outcome
  <2>1. oc \in Outcomes
    BY <1>5
  <2> HIDE DEF oc
  <2>2. LET f == Finished(book, This, Disposition(oc))
            u == CleanedUp(f, This)
         IN /\ Only(book, f, This) /\ Quiet(f.log[This]) /\ f.pending = book.pending
            /\ Only(book, u, This) /\ u.expected = book.expected
            /\ u.pending = book.pending \cup {This}
            /\ Reaches(u.log[This], "ReceiptPending") /\ Quiet(u.log[This])
            /\ \A r : r.status = StatusOf(oc) => SaysIn(u.log[This], r)
    BY <1>3, <1>4, <2>1, FinishesCommand
  <2> QED BY <2>2 DEF oc
<1>7. Allowance[cmd.task] \in Nat \ {0}
  BY <1>3, CostsNat
<1>8. /\ row \in Rows /\ RowSound(cmd.task, row) /\ row.side = cmd.side /\ row.limit # 0
      /\ row.status = StatusOf(outcome)
  <2>1. StatusOf(outcome) \in {"passed", "failed", "timed_out", "skipped"}
        /\ (StatusOf(outcome) = "skipped" => outcome = "cancelled")
    BY <1>5 DEF StatusOf, Outcomes
  <2>2. More(ending.ticks, 1) \in Nat /\ More(ending.ticks, 1) > 0
    BY <1>5 DEF More
  <2> DEFINE st == StatusOf(outcome)
             ex == outcome \in {"passed", "failed"}
             lim == Allowance[cmd.task]
             tk == IF outcome = "cancelled" THEN More(ending.ticks, 1) ELSE ending.ticks
  <2>3. st \in {"passed", "failed", "timed_out", "skipped"} /\ ex \in BOOLEAN
        /\ lim \in Nat \ {0} /\ tk \in Nat /\ (st = "skipped" => tk > 0)
    BY <1>5, <1>7, <2>1, <2>2
  <2>4. row = [side |-> cmd.side, status |-> st, exit |-> ex, limit |-> lim, ticks |-> tk]
    OBVIOUS
  <2>5. lim = Allowance[cmd.task] /\ st = StatusOf(outcome)
    OBVIOUS
  <2> HIDE DEF row, st, ex, lim, tk
  <2> QED BY <1>3, <2>3, <2>4, <2>5 DEF Rows, RowSound
<1> HIDE DEF row, told, untold
<1>9. WorkSound(untold, receipts, {cmd.task})
  BY <1>3, <1>6, WorkMoves
<1>10. untold \in Books /\ \A c \in CommandTasks : Quiet(untold.log[c])
  BY <1>9 DEF WorkSound, QuietBook
<1>11. child' \in Children /\ \A c \in CommandTasks : child'[c] \notin Alive
  <2>1. \A c \in CommandTasks : child[c] \in Alive => c = This
    BY <1>2 DEF RunInv, ProcessesSound
  <2>2. \A c \in CommandTasks : child'[c] = IF c = This THEN "gone" ELSE child[c]
    BY <1>2, <1>4 DEF Children
  <2> QED BY <1>2, <1>4, <2>1, <2>2 DEF Children, Alive
<1> QED BY <1>2, <1>3, <1>6, <1>8, <1>10, <1>11, CommandEnds

LEMMA ChildLost == ASSUME RunInv, LoseChild PROVE RunInv'
<1>1. pc = "wait" /\ pc \in Busy /\ child' = [child EXCEPT ![This] = "unconfirmed"]
      /\ fault' = TRUE /\ Fail(book) /\ tree' = tree
  BY DEF LoseChild, Busy
<1>2. /\ This \in CommandTasks /\ This[1] = cmd.task /\ This[2] = cmd.side /\ book \in Books
      /\ WorkSound(book, receipts, {cmd.task})
  BY <1>1, AtWork
<1>3. child \in Children /\ tree \in BOOLEAN
  BY <1>1, Launched
<1>4. \A c \in CommandTasks : Quiet(book.log[c])
  BY <1>2 DEF WorkSound, QuietBook
<1>5. \A c \in CommandTasks : child[c] \in Alive => c = This
  BY <1>1 DEF RunInv, ProcessesSound
<1>6. child' \in Children /\ \A c \in CommandTasks : child'[c] \in Alive => c = This
  <2>1. \A c \in CommandTasks : child'[c] = IF c = This THEN "unconfirmed" ELSE child[c]
    BY <1>1, <1>3 DEF Children
  <2> QED BY <1>1, <1>3, <1>5, <2>1 DEF Children
<1>7. This[2] = "base-plus-tests" => tree
  BY <1>1, <1>2 DEF RunInv, ProcessesSound, OnBase
<1>8. \A c \in CommandTasks : ~Logged(book, c, "ReceiptCreated")
  BY <1>4, NothingCredited
<1>9. \A c, d \in CommandTasks : child'[c] \in Alive /\ child'[d] \in Alive => c = d
  BY <1>6
<1>10. \A c \in CommandTasks :
         child'[c] \in Alive => Quiet(book.log[c]) /\ (c[2] = "base-plus-tests" => tree')
  BY <1>1, <1>4, <1>6, <1>7
<1> QED BY <1>1, <1>2, <1>3, <1>6, <1>8, <1>9, <1>10, Fails

LEMMA BaseBegins == ASSUME RunInv, BeginBase PROVE RunInv'
<1> DEFINE base == <<cmd.task, "base-plus-tests">>
           declined == Declined(book, base, "Refused")
           new == SkippedRow("base-plus-tests")
           rows == Append(cmd.rows, new)
<1>1. /\ pc = "base" /\ pc \in Busy /\ child' = child
      /\ \/ /\ tree' = TRUE /\ book' = Began(book, base)
            /\ cmd' = [cmd EXCEPT !.side = "base-plus-tests"] /\ pc' = "launch"
            /\ UNCHANGED <<setting, left, asked, phase, loop, known, after, fault>>
         \/ /\ tree' \in {tree, TRUE} /\ book' = declined
            /\ Concludes(rows, "base_patch_failed")
            /\ UNCHANGED <<setting, left, asked, phase, after, fault>>
         \/ tree' \in {tree, TRUE} /\ fault' = TRUE /\ Fail(declined)
  BY DEF BeginBase, Busy
<1>2. /\ cmd.task \in Tasks /\ WorkSound(book, receipts, {cmd.task}) /\ book \in Books
      /\ phase.requests \in Seq(Requests)
      /\ cmd = [task |-> cmd.task, side |-> cmd.side, rows |-> cmd.rows]
  BY <1>1, AtWork
<1>3. /\ cmd.side = "head" /\ RowsSoFar(cmd.task, "base-plus-tests", cmd.rows)
      /\ Covered(book, cmd.task, cmd.rows) /\ loop.queue # << >> /\ cmd.task = loop.queue[1]
      /\ loop = [queue |-> loop.queue, budget |-> loop.budget, ran |-> loop.ran,
                 files |-> loop.files, spent |-> loop.spent]
      /\ child \in Children /\ tree \in BOOLEAN
  BY <1>1 DEF RunInv, RunTyped, CommandSound, Children
<1>4. /\ "base-plus-tests" \in Sided /\ "Refused" \in Dispositions
  BY DEF Sided, Dispositions
<1>5. base \in CommandTasks /\ base[1] = cmd.task /\ base[2] = "base-plus-tests"
  BY <1>2, <1>4, CommandTaskOf
<1>6. \A c \in CommandTasks : child[c] \notin Alive
  BY <1>1 DEF RunInv, ProcessesSound
<1> HIDE DEF base, declined, new
<1>7. CASE /\ tree' = TRUE /\ book' = Began(book, base)
           /\ cmd' = [cmd EXCEPT !.side = "base-plus-tests"] /\ pc' = "launch"
           /\ UNCHANGED <<setting, left, asked, phase, loop, known, after, fault>>
  <2>1. WorkSound(book', receipts, {cmd.task}) /\ Opened(book', base, cmd.rows, "Setup")
    BY <1>2, <1>3, <1>5, <1>7, BeginsSide
  <2>2. /\ asked' = asked /\ phase' = phase /\ loop' = loop /\ receipts' = receipts
        /\ verdicts' = verdicts /\ pc' = "launch" /\ tree' = TRUE
    BY <1>7 DEF known, after
  <2>3. /\ cmd'.task = cmd.task /\ cmd'.side = "base-plus-tests" /\ cmd'.rows = cmd.rows
        /\ cmd' = [task |-> cmd'.task, side |-> cmd'.side, rows |-> cmd'.rows]
    BY <1>2, <1>7
  <2>4. This' = base
    BY <2>3 DEF This, base
  <2>5. CommandSound'
    BY <1>3, <2>1, <2>2, <2>3, <2>4 DEF CommandSound
  <2>6. ProcessesSound'
    BY <1>1, <1>6, <2>2 DEF ProcessesSound
  <2>7. pc' \in Busy
    BY <2>2 DEF Busy
  <2> QED BY <1>1, <1>2, <1>3, <1>4, <2>1, <2>2, <2>3, <2>5, <2>6, <2>7, Works
<1>8. /\ WorkSound(declined, receipts, {cmd.task}) /\ declined \in Books
      /\ Covered(declined, cmd.task, rows)
  BY <1>2, <1>3, <1>4, <1>5, DeclinesSide DEF declined, new
<1>9. CASE /\ tree' \in {tree, TRUE} /\ book' = declined
           /\ Concludes(rows, "base_patch_failed")
           /\ UNCHANGED <<setting, left, asked, phase, after, fault>>
  <2>1. /\ new \in Rows /\ new.side = "base-plus-tests" /\ RowSound(cmd.task, new)
        /\ new.limit = 0
    BY <1>4, SkippedIs DEF new
  <2> DEFINE result == "base_patch_failed"
             side == "base-plus-tests"
  <2>2. ResultFits(cmd.rows, new, side, result)
    BY <2>1 DEF ResultFits
  <2>3. side # "head" /\ side \in Sided /\ new.side = side /\ RowsSoFar(cmd.task, side, cmd.rows)
    BY <1>3, <1>4, <2>1
  <2>4. Concludes(rows, result)
    BY <1>9
  <2> HIDE DEF result, side
  <2>5. LET x == Receipt(cmd.task, rows, result)
        IN Whole(x) /\ x.id = cmd.task /\ x.rows = rows
    BY <1>2, <2>1, <2>2, <2>3, WholeOf
  <2>6. asked' = asked /\ phase' = phase /\ verdicts' = verdicts /\ tree' \in BOOLEAN
        /\ child' \in Children /\ \A c \in CommandTasks : child'[c] \notin Alive
    BY <1>1, <1>3, <1>6, <1>9 DEF after
  <2> HIDE DEF rows
  <2> QED BY <1>1, <1>8, <1>9, <2>4, <2>5, <2>6, Concluded0
<1>10. CASE tree' \in {tree, TRUE} /\ fault' = TRUE /\ Fail(declined)
  <2>1. \A c \in CommandTasks : Quiet(declined.log[c])
    BY <1>8 DEF WorkSound, QuietBook
  <2>2. tree' \in BOOLEAN
    BY <1>3, <1>10
  <2> QED BY <1>1, <1>3, <1>6, <1>8, <1>10, <2>1, <2>2, FailsQuietly
<1> QED BY <1>1, <1>7, <1>9, <1>10 DEF base, declined, new

(***************************************************************************)
(* The end of the run.                                                     *)
(***************************************************************************)
LEMMA NotResting ==
  ASSUME RunInv, pc' \notin Resting \cup Busy \cup {"failed"}, pc' \in Pcs,
         asked' = asked, phase' = phase, loop' = loop, cmd' = cmd, tree' = tree, child' = child,
         pc \notin {"wait", "failed"},
         book' \in Books, pc' = "reconcile" => WorkSound(book', receipts', {}), EndSound'
  PROVE  RunInv'
<1>1. RunTyped'
  BY DEF RunInv, RunTyped, Busy
<1>2. (Working0 => WorkSound(book, receipts, AtHand))'
  BY DEF Working0, AtHand, Resting, Busy, Pcs
<1>3. CommandSound' /\ QueueSound'
  BY DEF CommandSound, QueueSound, Resting, Busy
<1>4. ProcessesSound' /\ FailureSound'
  BY DEF RunInv, ProcessesSound, FailureSound, Busy
<1> QED BY <1>1, <1>2, <1>3, <1>4 DEF RunInv

LEMMA ReceiptsPublished == ASSUME RunInv, PublishReceipts PROVE RunInv'
<1>1. pc = "publish" /\ pc \in Resting
  BY DEF PublishReceipts, Resting
<1>2. /\ WorkSound(book, receipts, {}) /\ book \in Books
      /\ \A c \in CommandTasks : child[c] \notin Alive
  BY <1>1, AtRest
<1>3. CASE /\ published' = receipts /\ pc' = "reconcile"
           /\ UNCHANGED <<Working, book, portfolio, verdicts, ledger, fault>>
  <2>1. /\ pc' = "reconcile" /\ published' = receipts /\ receipts' = receipts /\ book' = book
        /\ asked' = asked /\ phase' = phase /\ loop' = loop /\ cmd' = cmd /\ tree' = tree
        /\ child' = child /\ verdicts' = verdicts
    BY <1>3 DEF Working, known
  <2>2. verdicts = [r \in Requests |-> "none"]
    BY <1>1 DEF RunInv, EndSound
  <2>3. EndSound'
    BY <2>1, <2>2 DEF EndSound
  <2>4. pc' \notin Resting \cup Busy \cup {"failed"} /\ pc' \in Pcs /\ pc \notin {"wait", "failed"}
    BY <1>1, <2>1 DEF Resting, Busy, Pcs
  <2> QED BY <1>2, <2>1, <2>3, <2>4, NotResting
<1>4. CASE fault' = TRUE /\ Fail(book) /\ UNCHANGED <<child, tree>>
  <2>1. \A c \in CommandTasks : Quiet(book.log[c])
    BY <1>2 DEF WorkSound, QuietBook
  <2>2. child \in Children /\ tree \in BOOLEAN
    BY DEF RunInv, RunTyped, Children
  <2> QED BY <1>1, <1>2, <1>4, <2>1, <2>2, FailsQuietly
<1> QED BY <1>3, <1>4 DEF PublishReceipts

\* The rows of a whole receipt.
LEMMA WholeRows ==
  ASSUME NEW x, Whole(x)
  PROVE  /\ x \in Receipts /\ x.id \in Tasks /\ x.rows \in Seq(Rows) /\ Len(x.rows) \in {1, 2}
         /\ \A i \in DOMAIN x.rows : x.rows[i] \in SetOfSeq(x.rows) /\ x.rows[i] \in Rows
         /\ \A row \in SetOfSeq(x.rows) : row \in Rows /\ row.side \in Sided /\ row.limit \in Nat
         /\ DOMAIN x.rows = 1 .. Len(x.rows)
<1>1. x \in Receipts /\ Len(x.rows) \in {1, 2}
  BY DEF Whole
<1>2. x.id \in Tasks /\ x.rows \in Seq(Rows)
  BY <1>1 DEF Receipts
<1>3. SetOfSeq(x.rows) \subseteq Rows /\ \A i \in 1 .. Len(x.rows) : x.rows[i] \in SetOfSeq(x.rows)
  BY <1>2, RowsOf
<1>4. \A row \in Rows : row.side \in Sided /\ row.limit \in Nat
  BY DEF Rows
<1>5. DOMAIN x.rows = 1 .. Len(x.rows)
  BY <1>2
<1> QED BY <1>1, <1>2, <1>3, <1>4, <1>5

LEMMA NotContradictory ==
  ASSUME NEW x, Whole(x)
  PROVE  ~Contradictory(x)
<1> DEFINE n == Len(x.rows)
<1>1. /\ x.rows \in Seq(Rows) /\ n \in {1, 2} /\ DOMAIN x.rows = 1 .. n
  BY WholeRows
<1>2. ASSUME x.result \in Conclusive
      PROVE  /\ x.result = ResultOf(x.rows)
             /\ n = 2 => x.rows[1].status = "passed"
  <2>1. x.result \notin {"skipped_profile", "skipped_budget", "base_patch_failed"}
    BY <1>2 DEF Conclusive
  <2> QED BY <2>1 DEF Whole, PassedHead
<1>3. ResultOf(x.rows) \in Conclusive => x.rows[n].status \in {"passed", "failed"}
  BY <1>1, ResultIs
<1> HIDE DEF n
<1>4. \A i \in 1 .. n : i = n \/ (i = 1 /\ n = 2)
  BY <1>1
<1>5. \A i \in DOMAIN x.rows : i = n \/ (i = 1 /\ n = 2)
  BY <1>1, <1>4
<1> QED BY <1>2, <1>3, <1>5 DEF Contradictory

\* What a command's log says when its receipts are to be read back.
LEMMA CommandAccounted ==
  ASSUME NEW b, NEW rs, WorkSound(b, rs, {}), NEW c \in CommandTasks
  PROVE  \/ b.log[c] = << >> /\ c \notin b.pending
         \/ \E i \in DOMAIN rs : \E j \in DOMAIN rs[i].rows :
              /\ rs[i].id = c[1] /\ rs[i].rows[j].side = c[2]
              /\ rs[i].rows[j] \in SetOfSeq(rs[i].rows)
              /\ Recorded(b, c[1], rs[i].rows[j])
<1>1. c[1] \in Tasks /\ c[2] \in Sided /\ c = <<c[1], c[2]>>
  BY CommandTaskIs
<1>2. CASE c[1] \notin Receipted(rs)
  <2>1. Covered(b, c[1], << >>)
    BY <1>1, <1>2 DEF WorkSound
  <2>2. Untouched(b, c)
    BY <1>1, <2>1, NoRows DEF Covered
  <2> QED BY <2>2 DEF Untouched
<1>3. CASE c[1] \in Receipted(rs)
  <2>1. PICK i \in DOMAIN rs : rs[i].id = c[1]
    BY <1>3 DEF Receipted
  <2>2. Whole(rs[i]) /\ Covered(b, c[1], rs[i].rows)
    BY <2>1 DEF WorkSound
  <2>3. CASE \E row \in SetOfSeq(rs[i].rows) : row.side = c[2]
    <3>1. PICK row \in SetOfSeq(rs[i].rows) : row.side = c[2]
      BY <2>3
    <3>2. PICK j \in DOMAIN rs[i].rows : rs[i].rows[j] = row
      BY DEF SetOfSeq
    <3>3. Recorded(b, c[1], row)
      BY <2>2 DEF Covered
    <3> QED BY <2>1, <3>1, <3>2, <3>3
  <2>4. CASE ~\E row \in SetOfSeq(rs[i].rows) : row.side = c[2]
    <3>1. Untouched(b, c)
      BY <1>1, <2>2, <2>4 DEF Covered
    <3> QED BY <3>1 DEF Untouched
  <2> QED BY <2>3, <2>4
<1> QED BY <1>2, <1>3

LEMMA ReadsBack ==
  ASSUME NEW b, NEW rs, WorkSound(b, rs, {})
  PROVE  /\ MayReconcile(b, rs) /\ ReadBack(Reconciled(b), rs)
         /\ \A c \in SourceTasks : Reconciled(b).log[c] = << >>
<1> DEFINE r == Reconciled(b)
<1>1. /\ b \in Books /\ \A c \in CommandTasks : Quiet(b.log[c])
      /\ \A c \in SourceTasks : b.log[c] = << >>
      /\ rs \in Seq(Receipts) /\ \A i \in DOMAIN rs : Whole(rs[i]) /\ Covered(b, rs[i].id, rs[i].rows)
      /\ \A i, j \in DOMAIN rs : rs[i].id = rs[j].id => i = j
  BY DEF WorkSound, QuietBook
<1>2. /\ b.log \in [CommandTasks \cup SourceTasks -> Seq(TaskEvent)]
      /\ b.expected \in [Tasks -> Seq(Sided)] /\ b.pending \subseteq CommandTasks
  BY <1>1, BookIs
<1>3. ASSUME NEW i \in DOMAIN rs, NEW row \in SetOfSeq(rs[i].rows)
      PROVE  /\ <<rs[i].id, row.side>> \in CommandTasks /\ Recorded(b, rs[i].id, row)
             /\ b.log[<<rs[i].id, row.side>>] # << >>
  <2> DEFINE c == <<rs[i].id, row.side>>
  <2>1. rs[i].id \in Tasks /\ row.side \in Sided
    BY <1>1, WholeRows
  <2>2. c \in CommandTasks
    BY <2>1, CommandTaskOf
  <2>3. Recorded(b, rs[i].id, row)
    BY <1>1 DEF Covered
  <2>4. Reaches(b.log[c], "TerminallyDeclined") \/ Reaches(b.log[c], "ReceiptPending")
    BY <2>3 DEF Recorded
  <2>5. b.log[c] \in Seq(TaskEvent)
    BY <1>2, <2>2
  <2> HIDE DEF c
  <2>6. b.log[c] # << >>
    BY <2>4, <2>5, ReachesSomething
  <2> QED BY <2>2, <2>3, <2>6 DEF c
<1>4. RowTasks(rs) \subseteq Proposed(b)
  <2>1. ASSUME NEW i \in DOMAIN rs, NEW j \in DOMAIN rs[i].rows
        PROVE  <<rs[i].id, rs[i].rows[j].side>> \in Proposed(b)
    <3>1. rs[i].rows[j] \in SetOfSeq(rs[i].rows)
      BY <1>1, WholeRows
    <3> QED BY <1>2, <1>3, <3>1 DEF Proposed
  <2> QED BY <2>1 DEF RowTasks
<1>5. \A i \in DOMAIN rs :
       /\ ~Contradictory(rs[i]) /\ rs[i].id \in DOMAIN b.expected
       /\ b.expected[rs[i].id] # << >> /\ Sides(rs[i]) = b.expected[rs[i].id]
  <2> TAKE i \in DOMAIN rs
  <2>1. ~Contradictory(rs[i]) /\ rs[i].id \in DOMAIN b.expected
    BY <1>1, <1>2, NotContradictory, WholeRows
  <2>2. b.expected[rs[i].id] = SidesOf(rs[i].rows)
    BY <1>1 DEF Covered
  <2>3. 1 \in DOMAIN rs[i].rows
    <3>1. DOMAIN rs[i].rows = 1 .. Len(rs[i].rows) /\ Len(rs[i].rows) \in {1, 2}
      BY <1>1, WholeRows
    <3> QED BY <3>1, SMTT(60)
  <2>4. \A j : j \notin DOMAIN << >>
    OBVIOUS
  <2>5. b.expected[rs[i].id] # << >>
    <3>1. DOMAIN SidesOf(rs[i].rows) = DOMAIN rs[i].rows
      BY DEF SidesOf
    <3> QED BY <2>2, <2>3, <2>4, <3>1
  <2>6. Sides(rs[i]) = SidesOf(rs[i].rows)
    BY DEF Sides, SidesOf
  <2> QED BY <2>1, <2>2, <2>5, <2>6
<1>6. b.pending \subseteq RowTasks(rs)
  <2>1. ASSUME NEW c \in b.pending PROVE c \in RowTasks(rs)
    <3>1. c \in CommandTasks /\ c = <<c[1], c[2]>>
      BY <1>2, CommandTaskIs
    <3>2. PICK i \in DOMAIN rs : \E j \in DOMAIN rs[i].rows :
            rs[i].id = c[1] /\ rs[i].rows[j].side = c[2]
      BY <3>1, CommandAccounted
    <3> QED BY <3>1, <3>2 DEF RowTasks
  <2> QED BY <2>1
<1>7. MayReconcile(b, rs)
  BY <1>1, <1>4, <1>5, <1>6 DEF MayReconcile, RowsValid
<1>8. /\ r \in Books
      /\ \A c \in CommandTasks \cup SourceTasks : c \notin b.pending => r.log[c] = b.log[c]
      /\ \A c \in b.pending :
           /\ Logged(r, c, "ReceiptCreated")
           /\ Reaches(b.log[c], "ReceiptPending") => Reaches(r.log[c], "ResourcesReleased")
           /\ \A row : SaysIn(b.log[c], row) => SaysIn(r.log[c], row)
  BY <1>1, Reconciles
<1> HIDE DEF r
<1>9. ASSUME NEW c \in CommandTasks
      PROVE  \/ r.log[c] = << >>
             \/ Reaches(r.log[c], "TerminallyDeclined") /\ Quiet(r.log[c])
             \/ /\ Reaches(r.log[c], "ResourcesReleased")
                /\ \E i \in DOMAIN rs : \E row \in SetOfSeq(rs[i].rows) :
                     rs[i].id = c[1] /\ row.side = c[2] /\ SaysIn(r.log[c], row)
  <2>1. CASE b.log[c] = << >> /\ c \notin b.pending
    BY <1>8, <2>1
  <2>2. ASSUME NEW i \in DOMAIN rs, NEW j \in DOMAIN rs[i].rows,
               rs[i].id = c[1], rs[i].rows[j].side = c[2],
               rs[i].rows[j] \in SetOfSeq(rs[i].rows), Recorded(b, c[1], rs[i].rows[j])
        PROVE  \/ Reaches(r.log[c], "TerminallyDeclined") /\ Quiet(r.log[c])
               \/ /\ Reaches(r.log[c], "ResourcesReleased")
                  /\ \E k \in DOMAIN rs : \E row \in SetOfSeq(rs[k].rows) :
                       rs[k].id = c[1] /\ row.side = c[2] /\ SaysIn(r.log[c], row)
    <3> DEFINE row == rs[i].rows[j]
    <3>1. c = <<c[1], row.side>>
      BY <2>2, CommandTaskIs
    <3>2. \/ Reaches(b.log[c], "TerminallyDeclined") /\ c \notin b.pending
          \/ Reaches(b.log[c], "ReceiptPending") /\ c \in b.pending /\ SaysIn(b.log[c], row)
      BY <2>2, <3>1 DEF Recorded
    <3>3. CASE Reaches(b.log[c], "TerminallyDeclined") /\ c \notin b.pending
      BY <1>1, <1>8, <3>3
    <3>4. CASE Reaches(b.log[c], "ReceiptPending") /\ c \in b.pending /\ SaysIn(b.log[c], row)
      BY <1>8, <2>2, <3>4
    <3> QED BY <3>2, <3>3, <3>4
  <2> QED BY <2>1, <2>2, CommandAccounted
<1>10. ASSUME NEW i \in DOMAIN rs, NEW row \in SetOfSeq(rs[i].rows), row.limit > 0
       PROVE  Logged(r, <<rs[i].id, row.side>>, "ReceiptCreated")
  <2>1. row.limit # 0
    BY <1>1, <1>10, WholeRows
  <2> QED BY <1>3, <1>8, <2>1 DEF Recorded
<1>11. \A c \in SourceTasks : r.log[c] = << >>
  <2>1. \A c \in SourceTasks : c \notin CommandTasks
    BY CommandTaskIs
  <2> QED BY <1>1, <1>2, <1>8, <2>1
<1> QED BY <1>1, <1>7, <1>8, <1>9, <1>10, <1>11 DEF ReadBack, r

LEMMA ReceiptsReconciled == ASSUME RunInv, ReconcileReceipts PROVE RunInv'
<1>1. pc = "reconcile" /\ fault' = fault
  BY DEF ReconcileReceipts
<1>2. WorkSound(book, receipts, {}) /\ published = receipts
  BY <1>1, AtRest DEF RunInv, EndSound
<1>3. /\ MayReconcile(book, published) /\ ReadBack(Reconciled(book), receipts)
      /\ \A c \in SourceTasks : Reconciled(book).log[c] = << >>
  BY <1>2, ReadsBack
<1>4. /\ book' = Reconciled(book) /\ pc' = "terminal" /\ UNCHANGED <<Working, after>>
  BY <1>3 DEF ReconcileReceipts
<1>5. /\ published' = published /\ receipts' = receipts
      /\ asked' = asked /\ phase' = phase /\ loop' = loop /\ cmd' = cmd /\ tree' = tree
      /\ child' = child /\ verdicts' = verdicts
  BY <1>4 DEF Working, known, after
<1>6. verdicts = [r \in Requests |-> "none"]
  BY <1>1 DEF RunInv, EndSound
<1>7. EndSound'
  BY <1>2, <1>3, <1>4, <1>5, <1>6 DEF EndSound
<1>8. book' \in Books
  BY <1>3, <1>4 DEF ReadBack
<1>9. pc' \notin Resting \cup Busy \cup {"failed", "reconcile"} /\ pc' \in Pcs
      /\ pc \notin {"wait", "failed"}
  BY <1>1, <1>4 DEF Resting, Busy, Pcs
<1> QED BY <1>5, <1>7, <1>8, <1>9, NotResting

\* A terminal status is one of these, and `satisfied` is earned.
LEMMA TerminalIs ==
  ASSUME NEW rs \in Seq(Receipts), \A i \in DOMAIN rs : Whole(rs[i]), NEW r \in Requests
  PROVE  /\ Terminalized(r, rs) \in {"unsupported", "invalid", "deferred", "deduplicated",
                                     "satisfied", "failed", "executed"}
         /\ Terminalized(r, rs) = "satisfied" =>
              \E x \in SetOfSeq(rs) : x.id = Target[r] /\ Proves(x)
<1> DEFINE carrying == {x \in SetOfSeq(rs) : r \in SetOfSeq(x.requests)}
           own == Among(rs, carrying)
           x == own[1]
<1>1. Standing[r] \in {"requested", "unsupported", "invalid"}
  BY PortfolioConstants
<1>2. \A result : TerminalOf(result) \in {"satisfied", "deferred", "failed", "executed"}
                  /\ (TerminalOf(result) = "satisfied" =>
                        result \in {"discriminating", "head_passed", "sanitizer_clean"})
  BY DEF TerminalOf
<1>3. own \in Seq(SetOfSeq(rs) \cap carrying)
  BY AmongKeeps
<1>4. Carrying(r, rs) = own
  BY DEF Carrying
<1>5. ASSUME NEW y, y \in SetOfSeq(rs) \cap carrying
      PROVE  Whole(y) /\ Target[r] = y.id /\ y \in SetOfSeq(rs)
  <2>1. Whole(y) /\ r \in SetOfSeq(y.requests) /\ y \in SetOfSeq(rs)
    BY <1>5 DEF SetOfSeq
  <2> QED BY <2>1 DEF Whole
<1> HIDE DEF carrying, own
<1>6. \/ Terminalized(r, rs) \in {"unsupported", "invalid", "deferred", "deduplicated"}
      \/ own # << >> /\ Terminalized(r, rs) = TerminalOf(x.result)
  BY <1>1, <1>4 DEF Terminalized
<1>7. ASSUME own # << >>, TerminalOf(x.result) = "satisfied"
      PROVE  \E y \in SetOfSeq(rs) : y.id = Target[r] /\ Proves(y)
  <2>1. x \in SetOfSeq(rs) \cap carrying
    BY <1>3, <1>7
  <2>2. Whole(x) /\ Target[r] = x.id /\ x \in SetOfSeq(rs)
    BY <1>5, <2>1
  <2>3. x.result \in {"discriminating", "head_passed", "sanitizer_clean"} /\ x.result \in Results
    BY <1>2, <1>7, <2>2 DEF Whole, Receipts
  <2>4. x.result \in {"discriminating", "head_passed"}
    BY <2>3 DEF Results
  <2>5. x.rows \in Seq(Rows) /\ Len(x.rows) \in {1, 2}
    BY <2>2, WholeRows
  <2>6. x.result = ResultOf(x.rows)
    BY <2>2, <2>4 DEF Whole
  <2>7. \/ x.rows[Len(x.rows)].status = "passed" /\ Len(x.rows) = 1
        \/ x.rows[Len(x.rows)].status = "failed" /\ Len(x.rows) = 2
    BY <2>4, <2>5, <2>6, ResultIs
  <2> HIDE DEF x
  <2>8. CASE Len(x.rows) = 1
    <3>1. x.rows[1].status = "passed" /\ x.rows[1].side = "head" /\ x.kind # "red_green"
      BY <2>2, <2>7, <2>8 DEF Whole
    <3> QED BY <2>2, <3>1 DEF Proves
  <2>9. CASE Len(x.rows) = 2
    <3>1. x.rows[2].status = "failed"
      BY <2>7, <2>9
    <3>2. x.rows[1].status = "passed" /\ x.rows[1].side = "head"
      BY <2>2, <2>9 DEF Whole, PassedHead
    <3> QED BY <2>2, <2>9, <3>1, <3>2 DEF Proves
  <2> QED BY <2>5, <2>8, <2>9
<1> QED BY <1>2, <1>6, <1>7

LEMMA Terminalizes == ASSUME RunInv, Terminalize PROVE RunInv'
<1> DEFINE ds == [r \in SetOfSeq(asked) |->
                    SourceDisposition(verdicts'[r], Carrying(r, receipts) # << >>)]
<1>1. /\ pc = "terminal" /\ pc' = "ledger" /\ book' = Sourced(book, ds)
      /\ verdicts' = [r \in Requests |-> IF r \in SetOfSeq(asked) THEN Terminalized(r, receipts)
                                         ELSE "none"]
      /\ published' = published /\ receipts' = receipts
      /\ asked' = asked /\ phase' = phase /\ loop' = loop /\ cmd' = cmd /\ tree' = tree
      /\ child' = child
  BY DEF Terminalize, Working, known
<1>2. /\ published = receipts /\ ReadBack(book, receipts)
      /\ \A c \in SourceTasks : book.log[c] = << >>
      /\ asked \in Seq(Requests)
  BY <1>1 DEF RunInv, RunTyped, EndSound
<1>3. book \in Books /\ receipts \in Seq(Receipts) /\ \A i \in DOMAIN receipts : Whole(receipts[i])
  BY <1>2 DEF ReadBack
<1>4. \A r \in DOMAIN ds : ds[r] \in Dispositions
  BY DEF SourceDisposition, Dispositions
<1> HIDE DEF ds
<1>5. /\ book' \in Books /\ \A c \in CommandTasks : book'.log[c] = book.log[c]
      /\ \A c \in SourceTasks : \/ book'.log[c] = << >>
                                \/ Reaches(book'.log[c], "TerminallyDeclined")
  BY <1>1, <1>2, <1>3, <1>4, RecordsSources
<1>6. ReadBack(book', receipts)
  <2>1. ASSUME NEW i \in DOMAIN receipts, NEW row \in SetOfSeq(receipts[i].rows), row.limit > 0
        PROVE  Logged(book', <<receipts[i].id, row.side>>, "ReceiptCreated")
    <3>1. <<receipts[i].id, row.side>> \in CommandTasks
      BY <1>3, WholeRows, CommandTaskOf
    <3>2. Logged(book, <<receipts[i].id, row.side>>, "ReceiptCreated")
      BY <1>2, <2>1 DEF ReadBack
    <3> QED BY <1>5, <3>1, <3>2 DEF Logged
  <2>2. ASSUME NEW c \in CommandTasks
        PROVE  \/ book'.log[c] = << >>
               \/ Reaches(book'.log[c], "TerminallyDeclined") /\ Quiet(book'.log[c])
               \/ /\ Reaches(book'.log[c], "ResourcesReleased")
                  /\ \E i \in DOMAIN receipts : \E row \in SetOfSeq(receipts[i].rows) :
                       receipts[i].id = c[1] /\ row.side = c[2] /\ SaysIn(book'.log[c], row)
    BY <1>2, <1>5 DEF ReadBack
  <2> QED BY <1>3, <1>5, <2>1, <2>2 DEF ReadBack
<1>7. \A r \in Requests :
        verdicts'[r] = "satisfied" => \E x \in SetOfSeq(receipts) : x.id = Target[r] /\ Proves(x)
  BY <1>1, <1>3, TerminalIs
<1>8. \A r \in SetOfSeq(asked) : verdicts'[r] # "none"
  <2>1. SetOfSeq(asked) \subseteq Requests
    BY <1>2, RowsOf
  <2>2. \A r \in SetOfSeq(asked) : verdicts'[r] = Terminalized(r, receipts)
    BY <1>1, <2>1
  <2> QED BY <1>3, <2>1, <2>2, TerminalIs
<1>9. EndSound'
  BY <1>1, <1>2, <1>5, <1>6, <1>7, <1>8 DEF EndSound
<1>10. pc' \notin Resting \cup Busy \cup {"failed", "reconcile"} /\ pc' \in Pcs
      /\ pc \notin {"wait", "failed"}
  BY <1>1 DEF Resting, Busy, Pcs
<1> QED BY <1>1, <1>5, <1>9, <1>10, NotResting

LEMMA LedgerWritten == ASSUME RunInv, WriteLedger PROVE RunInv'
<1>1. /\ pc = "ledger" /\ pc' = "done" /\ book' = book /\ ledger' = Written(book)
      /\ published' = published /\ receipts' = receipts
      /\ asked' = asked /\ phase' = phase /\ loop' = loop /\ cmd' = cmd /\ tree' = tree
      /\ child' = child /\ verdicts' = verdicts
  BY DEF WriteLedger, Working, known
<1>2. /\ ReadBack(book, receipts)
      /\ \A c \in SourceTasks : book.log[c] = << >> \/ Reaches(book.log[c], "TerminallyDeclined")
  BY <1>1 DEF RunInv, EndSound
<1>3. book \in Books
  BY <1>2 DEF ReadBack
<1>4. book.log \in [CommandTasks \cup SourceTasks -> Seq(TaskEvent)]
  BY <1>3, BookIs
<1>5. Replays(book)
  <2>1. ASSUME NEW c \in Proposed(book)
        PROVE  \E f \in Fed(Unheard, book.log[c]) : f.ok /\ Settled(f)
    <3>1. c \in CommandTasks \cup SourceTasks /\ book.log[c] # << >>
      BY <1>4 DEF Proposed
    <3>2. \/ Reaches(book.log[c], "TerminallyDeclined")
          \/ Reaches(book.log[c], "ResourcesReleased")
      BY <1>2, <3>1 DEF ReadBack
    <3>3. book.log[c] \in Seq(TaskEvent)
      BY <1>4, <3>1
    <3> QED BY <3>2, <3>3, ReachesReplays
  <2> QED BY <2>1 DEF Replays
<1>6. ledger' = "published"
  BY <1>1, <1>5 DEF Written
<1>7. EndSound'
  BY <1>1, <1>6 DEF RunInv, EndSound
<1>8. pc' \notin Resting \cup Busy \cup {"failed", "reconcile"} /\ pc' \in Pcs
      /\ pc \notin {"wait", "failed"}
  BY <1>1 DEF Resting, Busy, Pcs
<1> QED BY <1>1, <1>3, <1>7, <1>8, NotResting

--------------------------------------------------------------------------------
LEMMA EmptySound ==
  LET b == EmptyBook(CommandTasks \cup SourceTasks, Tasks) IN WorkSound(b, << >>, {})
<1> DEFINE b == EmptyBook(CommandTasks \cup SourceTasks, Tasks)
<1>1. /\ b \in Books /\ b.pending = {}
      /\ \A c \in CommandTasks \cup SourceTasks : b.log[c] = << >>
      /\ \A t \in Tasks : b.expected[t] = << >>
  BY DEF EmptyBook, Books
<1> HIDE DEF b
<1>2. Quiet(<< >>)
  BY DEF Quiet, ToSet
<1>3. QuietBook(b)
  BY <1>1, <1>2 DEF QuietBook
<1>4. SidesOf(<< >>) = << >>
  BY DEF SidesOf
<1>5. ASSUME NEW t \in Tasks
      PROVE  Covered(b, t, << >>)
  <2>1. \A side \in Sided : Untouched(b, <<t, side>>)
    BY <1>1, CommandTaskOf DEF Untouched
  <2> QED BY <1>1, <1>4, <2>1, NoRows DEF Covered
<1>6. /\ << >> \in Seq(Receipts) /\ Receipted(<< >>) = {}
      /\ \A i : i \notin DOMAIN << >>
  BY DEF Receipted
<1>7. WorkSound(b, << >>, {})
  BY <1>3, <1>5, <1>6 DEF WorkSound
<1> QED BY <1>7 DEF b

LEMMA RunStarts == Init => RunInv
<1> SUFFICES ASSUME Init PROVE RunInv
  OBVIOUS
<1>1. /\ pc = "initial" /\ asked = Seeds /\ loop = NoLoop /\ cmd = NoCommand /\ tree = FALSE
      /\ phase = [name |-> "initial", requests |-> << >>, stage |-> "tests"]
      /\ child = [c \in CommandTasks |-> "none"] /\ receipts = << >>
      /\ book = EmptyBook(CommandTasks \cup SourceTasks, Tasks)
      /\ verdicts = [r \in Requests |-> "none"]
  BY DEF Init
<1>2. WorkSound(book, receipts, {}) /\ book \in Books
  <2>1. WorkSound(book, receipts, {})
    BY <1>1, EmptySound
  <2> QED BY <2>1 DEF WorkSound, QuietBook
<1>3. RunTyped
  <2>1. loop = [queue |-> << >>, budget |-> Total, ran |-> 0, files |-> {}, spent |-> 0]
        /\ cmd = [task |-> 0, side |-> "head", rows |-> << >>]
    BY <1>1 DEF NoLoop, NoCommand
  <2>2. loop = [queue |-> loop.queue, budget |-> loop.budget, ran |-> loop.ran,
                files |-> loop.files, spent |-> loop.spent]
    BY <2>1
  <2>3. cmd = [task |-> cmd.task, side |-> cmd.side, rows |-> cmd.rows]
    BY <2>1
  <2>4. loop.queue \in Seq(Tasks)
    BY <2>1
  <2>5. phase \in [name : {"initial", "seeded", "model", "followup"},
                   requests : Seq(Requests), stage : {"tests", "builds"}]
    BY <1>1
  <2> QED BY <1>1, <1>2, <2>2, <2>3, <2>4, <2>5, RequestLists DEF RunTyped, Busy, Pcs
<1>4. CommandSound /\ QueueSound
  BY <1>1 DEF CommandSound, QueueSound, Busy
<1>5. ProcessesSound
  BY <1>1 DEF ProcessesSound, Alive
<1>6. FailureSound /\ EndSound
  BY <1>1 DEF FailureSound, EndSound
<1>7. Working0 => WorkSound(book, receipts, AtHand)
  BY <1>1, <1>2 DEF AtHand, Busy
<1> QED BY <1>3, <1>4, <1>5, <1>6, <1>7 DEF RunInv

LEMMA RunStutters == ASSUME RunInv, UNCHANGED vars PROVE RunInv'
<1>1. /\ pc' = pc /\ asked' = asked /\ phase' = phase /\ loop' = loop /\ cmd' = cmd
      /\ child' = child /\ tree' = tree /\ receipts' = receipts /\ book' = book
      /\ published' = published /\ verdicts' = verdicts /\ ledger' = ledger /\ fault' = fault
  BY DEF vars, known, after
<1>2. RunTyped'
  BY <1>1 DEF RunInv, RunTyped
<1>3. (Working0 => WorkSound(book, receipts, AtHand))'
  BY <1>1 DEF RunInv, Working0, AtHand
<1>4. CommandSound' /\ QueueSound'
  BY <1>1 DEF RunInv, CommandSound, QueueSound, This
<1>5. ProcessesSound'
  BY <1>1 DEF RunInv, ProcessesSound, This, OnBase
<1>6. FailureSound'
  BY <1>1 DEF RunInv, FailureSound, Logged
<1>7. EndSound'
  BY <1>1 DEF RunInv, EndSound
<1> QED BY <1>2, <1>3, <1>4, <1>5, <1>6, <1>7 DEF RunInv

LEMMA RunSteps == RunInv /\ [Next]_vars => RunInv'
<1> SUFFICES ASSUME RunInv, [Next]_vars PROVE RunInv'
  OBVIOUS
<1>1. ASSUME Next PROVE RunInv'
  BY <1>1, InitialOpens, SeededOpens, LanesAsked, RequestsOpen, FollowUpOpens, BuildsPlanned,
     PhaseCloses, NextTaken, PathsFail, Spawned, SpawnFails, Exits, ChildLost, BaseBegins,
     ReceiptsPublished, ReceiptsReconciled, Terminalizes, LedgerWritten DEF Next
<1>2. ASSUME UNCHANGED vars PROVE RunInv'
  BY <1>2, RunStutters
<1> QED BY <1>1, <1>2

\* The invariant the theorems below rest on.
THEOREM RunAlwaysSound == Spec => []RunInv
BY RunStarts, RunSteps, PTL DEF Spec

\* A command that may still be running keeps its resources and its worktree,
\* and is the only one (prepare_base_plus_tests_worktree, the kill path of
\* run_proof_command_receipt).
LEMMA HeldNow == RunInv => HeldUntilGone
<1> SUFFICES ASSUME RunInv PROVE HeldUntilGone
  OBVIOUS
<1>1. ASSUME NEW c \in CommandTasks, child[c] \in Alive
      PROVE  ~Logged(book, c, "ResourcesReleased") /\ (c[2] = "base-plus-tests" => tree)
  <2>1. pc \in {"wait", "failed"}
    BY <1>1 DEF RunInv, ProcessesSound
  <2>2. CASE pc = "wait"
    <3>1. c = This /\ (OnBase => tree)
      BY <1>1, <2>2 DEF RunInv, ProcessesSound
    <3>2. Quiet(book.log[This]) /\ This[2] = cmd.side
      BY <2>2, AtWork DEF Busy
    <3>3. c[2] = "base-plus-tests" => tree
      BY <3>1, <3>2 DEF OnBase
    <3> QED BY <3>1, <3>2, <3>3 DEF Quiet, Logged, ToSet
  <2>3. CASE pc = "failed"
    <3>1. Quiet(book.log[c]) /\ (c[2] = "base-plus-tests" => tree)
      BY <1>1, <2>3 DEF RunInv, ProcessesSound
    <3> QED BY <3>1 DEF Quiet, Logged, ToSet
  <2> QED BY <2>1, <2>2, <2>3
<1>2. \A c, d \in CommandTasks : child[c] \in Alive /\ child[d] \in Alive => c = d
  BY DEF RunInv, ProcessesSound
<1>3. Cardinality({c \in CommandTasks : child[c] \in Alive}) <= 1
  <2> DEFINE A == {c \in CommandTasks : child[c] \in Alive}
  <2>1. A = {} \/ \E c : A = {c}
    BY <1>2
  <2> HIDE DEF A
  <2>2. Cardinality(A) \in {0, 1}
    BY <2>1, FS_EmptySet, FS_Singleton
  <2> QED BY <2>2 DEF A
<1>4. pc = "done" => \A c \in CommandTasks : child[c] \notin Alive
  BY DEF RunInv, ProcessesSound
<1> QED BY <1>1, <1>3, <1>4 DEF HeldUntilGone

\* What may still run is held, in every run of the broker.
THEOREM AlwaysHeldUntilGone == Spec => []HeldUntilGone
BY RunAlwaysSound, HeldNow, PTL

LEMMA ReadBackNow == RunInv => CreditIsReadBack
<1> SUFFICES ASSUME RunInv PROVE CreditIsReadBack
  OBVIOUS
<1>1. ASSUME NEW c \in CommandTasks, Logged(book, c, "ReceiptCreated")
      PROVE  \E i \in DOMAIN published : /\ published[i].id = c[1]
                                         /\ \E row \in SetOfSeq(published[i].rows) :
                                              row.side = c[2] /\ Says(row, c)
  <2>1. pc # "failed"
    BY <1>1 DEF RunInv, FailureSound
  <2>2. ~Working0
    <3>1. SUFFICES ASSUME Working0 PROVE FALSE
      OBVIOUS
    <3>2. \A d \in CommandTasks : Quiet(book.log[d])
      BY <3>1 DEF RunInv, WorkSound, QuietBook
    <3> QED BY <1>1, <3>2, NothingCredited
  <2>3. pc \in {"terminal", "ledger", "done"}
    BY <2>1, <2>2 DEF Working0
  <2>4. published = receipts /\ ReadBack(book, receipts)
    BY <2>3 DEF RunInv, EndSound
  <2>5. book.log[c] # << >> /\ ~Quiet(book.log[c])
    BY <1>1 DEF Logged, Quiet, ToSet
  <2>6. PICK i \in DOMAIN receipts : \E row \in SetOfSeq(receipts[i].rows) :
               receipts[i].id = c[1] /\ row.side = c[2] /\ SaysIn(book.log[c], row)
    BY <2>4, <2>5 DEF ReadBack
  <2>7. PICK row \in SetOfSeq(receipts[i].rows) :
               receipts[i].id = c[1] /\ row.side = c[2] /\ SaysIn(book.log[c], row)
    BY <2>6
  <2>8. Says(row, c)
    BY <2>7 DEF SaysIn, Says, ToSet
  <2> QED BY <2>4, <2>7, <2>8
<1>2. ASSUME pc = "done", NEW x \in SetOfSeq(published), NEW row \in SetOfSeq(x.rows),
             row.limit > 0
      PROVE  Logged(book, <<x.id, row.side>>, "ReceiptCreated")
  <2>1. published = receipts /\ ReadBack(book, receipts)
    BY <1>2 DEF RunInv, EndSound
  <2>2. PICK i \in DOMAIN receipts : x = receipts[i]
    BY <2>1 DEF SetOfSeq
  <2>3. row \in SetOfSeq(receipts[i].rows)
    BY <1>2, <2>2
  <2> QED BY <1>2, <2>1, <2>2, <2>3 DEF ReadBack
<1> QED BY <1>1, <1>2 DEF CreditIsReadBack

\* Only what the published receipts hold is credited, and all that was run is
\* (reconcile_published_receipts).
THEOREM CreditAlwaysReadBack == Spec => []CreditIsReadBack
BY RunAlwaysSound, ReadBackNow, PTL

LEMMA EarnedNow == RunInv => OnlyFaultsFail /\ VerdictsEarned
<1> SUFFICES ASSUME RunInv PROVE OnlyFaultsFail /\ VerdictsEarned
  OBVIOUS
<1>1. OnlyFaultsFail
  BY DEF RunInv, FailureSound, EndSound, OnlyFaultsFail
<1>2. CASE pc \in {"ledger", "done"}
  BY <1>1, <1>2 DEF RunInv, EndSound, VerdictsEarned
<1>3. CASE pc \notin {"ledger", "done"}
  <2>1. verdicts = [r \in Requests |-> "none"]
    BY <1>3 DEF RunInv, EndSound
  <2> QED BY <1>1, <1>3, <2>1 DEF VerdictsEarned
<1> QED BY <1>1, <1>2, <1>3

\* The program does not defeat itself: register_command, the reading back of
\* the receipts and the replay of the ledger refuse nothing it made itself.
THEOREM OnlyFaultsEverFail == Spec => []OnlyFaultsFail
BY RunAlwaysSound, EarnedNow, PTL

\* A request is satisfied only by a receipt whose rows prove it, and no request
\* of a completed run is left open (terminalize_proof_requests).
THEOREM VerdictsAlwaysEarned == Spec => []VerdictsEarned
BY RunAlwaysSound, EarnedNow, PTL

LEMMA ObligationsMerged ==
  ASSUME NEW old, NEW ds \in Seq(Decisions), old.head = ThisHead
  PROVE  LET new == MergedPortfolio(old, ThisHead, ds)
         IN \A t \in DOMAIN old.entries :
              /\ t \in DOMAIN new.entries
              /\ old.entries[t].required => new.entries[t].required
              /\ old.entries[t].requests \subseteq new.entries[t].requests
              /\ old.entries[t].receipts \subseteq new.entries[t].receipts
<1> DEFINE fresh == Entries(ds)
           kept  == old.entries
           at(t) == IF t \notin DOMAIN kept THEN fresh[t]
                    ELSE IF t \notin DOMAIN fresh THEN kept[t] ELSE Merged(kept[t], fresh[t])
           new   == MergedPortfolio(old, ThisHead, ds)
<1>1. new.entries = [t \in DOMAIN fresh \cup DOMAIN kept |-> at(t)]
  BY DEF MergedPortfolio
<1>2. ASSUME NEW t \in DOMAIN fresh PROVE fresh[t] \in Decisions
  <2>1. fresh[t] \in SetOfSeq(ds)
    BY DEF Entries
  <2> QED BY <2>1 DEF SetOfSeq
<1> HIDE DEF fresh, new
<1>3. ASSUME NEW t \in DOMAIN kept
      PROVE  /\ t \in DOMAIN new.entries
             /\ kept[t].required => new.entries[t].required
             /\ kept[t].requests \subseteq new.entries[t].requests
             /\ kept[t].receipts \subseteq new.entries[t].receipts
  <2>1. t \in DOMAIN new.entries
    BY <1>1
  <2>2. CASE t \notin DOMAIN fresh
    BY <1>1, <2>1, <2>2
  <2>3. CASE t \in DOMAIN fresh
    <3>1. new.entries[t] = Merged(kept[t], fresh[t])
      BY <1>1, <2>3
    <3>2. fresh[t] \in Decisions
      BY <1>2, <2>3
    <3>3. /\ Merged(kept[t], fresh[t]).required = (kept[t].required \/ fresh[t].required)
          /\ Merged(kept[t], fresh[t]).requests = kept[t].requests \cup fresh[t].requests
          /\ Merged(kept[t], fresh[t]).receipts = kept[t].receipts \cup fresh[t].receipts
      BY <3>2 DEF Merged, Decisions
    <3> QED BY <2>1, <3>1, <3>3
  <2> QED BY <2>1, <2>2, <2>3
<1> QED BY <1>3 DEF new

LEMMA ObligationsStay == RunInv /\ [Next]_vars => KeepsObligations
<1> SUFFICES ASSUME RunInv, [Next]_vars PROVE KeepsObligations
  OBVIOUS
<1>1. CASE portfolio' = portfolio
  BY <1>1 DEF KeepsObligations
<1>2. CASE ClosePhase
  <2> DEFINE ds == Chosen(phase.name, phase.requests, BudgetNow, left').decisions
  <2>1. pc = "loop" /\ (portfolio' = portfolio
                        \/ portfolio' = MergedPortfolio(portfolio, ThisHead, ds))
    BY <1>2 DEF ClosePhase
  <2>2. WorkSound(book, receipts, {}) /\ phase.requests \in Seq(Requests)
    BY <2>1, AtRest DEF Resting, RunInv, RunTyped
  <2>3. ds \in Seq(Decisions)
    BY <2>2, QueueChosen
  <2> HIDE DEF ds
  <2> QED BY <1>1, <2>1, <2>3, ObligationsMerged DEF KeepsObligations
<1>3. ASSUME Next, ~ClosePhase
      PROVE  portfolio' = portfolio
  <2>1. CASE OpenInitial \/ OpenSeeded \/ LanesAsk \/ OpenRequests \/ OpenFollowUp \/ PlanBuilds
    BY <2>1 DEF OpenInitial, OpenSeeded, LanesAsk, OpenRequests, OpenFollowUp, PlanBuilds, after
  <2>2. CASE TakeNext
    BY <2>2 DEF TakeNext, Fail, after
  <2>3. CASE FailPaths \/ LoseChild \/ Spawn
    BY <2>3 DEF FailPaths, LoseChild, Spawn, Fail, after
  <2>4. CASE FailSpawn
    BY <2>4 DEF FailSpawn, Ends, Fail, after
  <2>5. CASE Exit
    BY <2>5 DEF Exit, Ends, Fail, after
  <2>6. CASE BeginBase
    BY <2>6 DEF BeginBase, Fail, after
  <2>7. CASE PublishReceipts \/ ReconcileReceipts \/ Terminalize \/ WriteLedger
    BY <2>7 DEF PublishReceipts, ReconcileReceipts, Terminalize, WriteLedger, Fail, after
  <2> QED BY <1>3, <2>1, <2>2, <2>3, <2>4, <2>5, <2>6, <2>7 DEF Next
<1>4. CASE UNCHANGED vars
  BY <1>1, <1>4 DEF vars, after
<1> QED BY <1>1, <1>2, <1>3, <1>4

\* No later phase drops what the portfolio of this head records of a task
\* (merge_proof_portfolio_with_disk).
THEOREM ObligationsAlwaysKept == Spec => ObligationsKept
<1>1. RunInv /\ [Next]_vars => [KeepsObligations]_vars
  BY ObligationsStay
<1> QED BY <1>1, RunAlwaysSound, PTL DEF Spec, ObligationsKept

--------------------------------------------------------------------------------
(***************************************************************************)
(* The budget.  First sums.                                                *)
(***************************************************************************)
\* s[n] is the sum of the first n.
Sums(s, f) ==
  /\ s \in [0 .. Len(f) -> Nat] /\ s[0] = 0
  /\ \A n \in 1 .. Len(f) : s[n] = s[n - 1] + f[n]

LEMMA SumIs ==
  ASSUME NEW f \in Seq(Nat)
  PROVE  \E s : Sums(s, f) /\ Summed(f) = s[Len(f)]
<1> DEFINE N == Len(f)
           Is(g, n) == g = [k \in 0 .. n |-> IF k = 0 THEN 0 ELSE g[k - 1] + f[k]]
           Reached(n) == \E g \in [0 .. n -> Nat] : Is(g, n)
           sum == CHOOSE g : g = [k \in 0 .. N |-> IF k = 0 THEN 0 ELSE g[k - 1] + f[k]]
<1>1. N \in Nat /\ \A k \in 1 .. N : f[k] \in Nat
  OBVIOUS
<1>2. Summed(f) = sum[N]
  BY DEF Summed
<1> HIDE DEF N
<1>3. Reached(0)
  <2> DEFINE g == [k \in 0 .. 0 |-> 0]
  <2>1. Is(g, 0) /\ g \in [0 .. 0 -> Nat]
    OBVIOUS
  <2> HIDE DEF g
  <2> QED BY <2>1
<1>4. ASSUME NEW n \in 1 .. N, Reached(n - 1)
      PROVE  Reached(n)
  <2>1. PICK g \in [0 .. n - 1 -> Nat] : Is(g, n - 1)
    BY <1>4
  <2> DEFINE h == [k \in 0 .. n |-> IF k = n THEN g[n - 1] + f[n] ELSE g[k]]
  <2>2. \A k \in 0 .. n - 1 : g[k] = IF k = 0 THEN 0 ELSE g[k - 1] + f[k]
    BY <2>1
  <2>3. n \in Nat /\ n # 0 /\ f[n] \in Nat /\ g[n - 1] \in Nat
    BY <1>1
  <2>4. ASSUME NEW k \in 0 .. n
        PROVE  h[k] = (IF k = 0 THEN 0 ELSE h[k - 1] + f[k]) /\ h[k] \in Nat
    <3>1. CASE k = n
      <4>1. h[k] = g[n - 1] + f[n] /\ h[k - 1] = g[n - 1] /\ k # 0
        BY <2>3, <3>1
      <4> QED BY <2>3, <3>1, <4>1
    <3>2. CASE k \in 1 .. n - 1
      <4>1. h[k] = g[k] /\ h[k - 1] = g[k - 1] /\ k # 0 /\ k \in 0 .. n - 1
        BY <2>3, <3>2
      <4> QED BY <2>2, <4>1
    <3>3. CASE k = 0
      <4>1. h[k] = g[k] /\ k \in 0 .. n - 1
        BY <2>3, <3>3
      <4> QED BY <2>2, <3>3, <4>1
    <3> QED BY <2>3, <3>1, <3>2, <3>3
  <2>5. h = [k \in 0 .. n |-> h[k]]
    OBVIOUS
  <2> HIDE DEF h
  <2>6. Is(h, n) /\ h \in [0 .. n -> Nat]
    BY <2>4, <2>5
  <2> HIDE DEF Is
  <2> QED BY <2>6
<1>5. Reached(N)
  <2> DEFINE bad == {n \in 0 .. N : ~Reached(n)}
  <2>1. bad \subseteq Nat /\ N \in 0 .. N
    BY <1>1
  <2>2. ASSUME NEW n \in bad, \A k \in bad : n <= k
        PROVE  FALSE
    <3> HIDE DEF Reached
    <3>1. n \in 0 .. N /\ ~Reached(n)
      OBVIOUS
    <3>2. n \in 1 .. N /\ n - 1 \in 0 .. N /\ ~(n <= n - 1)
      BY <1>1, <1>3, <3>1
    <3>3. Reached(n - 1)
      BY <2>2, <3>2
    <3> QED BY <1>4, <3>1, <3>2, <3>3
  <2> HIDE DEF bad
  <2>3. bad = {}
    BY <2>1, <2>2, LeastOne
  <2> QED BY <2>1, <2>3 DEF bad
<1>6. Is(sum, N)
  BY <1>5
<1> HIDE DEF sum
<1>7. \A k \in 0 .. N : sum[k] = IF k = 0 THEN 0 ELSE sum[k - 1] + f[k]
  BY <1>6
<1>8. \A k \in 0 .. N : sum[k] \in Nat
  <2> DEFINE bad == {n \in 0 .. N : sum[n] \notin Nat}
  <2>1. bad \subseteq Nat
    BY <1>1
  <2>2. ASSUME NEW n \in bad, \A k \in bad : n <= k
        PROVE  FALSE
    <3>1. n \in 0 .. N /\ sum[n] \notin Nat
      OBVIOUS
    <3>2. n \in 1 .. N /\ n - 1 \in 0 .. N /\ ~(n <= n - 1)
      BY <1>1, <1>7, <3>1
    <3>3. sum[n - 1] \in Nat
      BY <2>2, <3>2
    <3>4. sum[n] = sum[n - 1] + f[n] /\ f[n] \in Nat
      BY <1>1, <1>7, <3>2
    <3> QED BY <3>1, <3>3, <3>4
  <2> HIDE DEF bad
  <2>3. bad = {}
    BY <2>1, <2>2, LeastOne
  <2> QED BY <2>3 DEF bad
<1>9. DOMAIN sum = 0 .. N /\ sum = [k \in 0 .. N |-> sum[k]]
  BY <1>6
<1>10. sum \in [0 .. N -> Nat]
  BY <1>8, <1>9
<1>11. sum[0] = 0 /\ \A n \in 1 .. N : sum[n] = sum[n - 1] + f[n]
  <2>1. 0 \in 0 .. N /\ \A n \in 1 .. N : n \in 0 .. N /\ n # 0
    BY <1>1
  <2> QED BY <1>7, <2>1
<1>12. Sums(sum, f)
  BY <1>10, <1>11 DEF Sums, N
<1> QED BY <1>2, <1>12 DEF N

LEMMA Distributes ==
  ASSUME NEW a \in Nat, NEW b \in Nat, NEW k \in Nat
  PROVE  k * (a + b) = k * a + k * b /\ k * a \in Nat /\ k * b \in Nat
OBVIOUS

\* Each at most k times its counterpart: so is the sum.
LEMMA SummedLeast ==
  ASSUME NEW f \in Seq(Nat), NEW g \in Seq(Nat), Len(f) = Len(g), NEW k \in Nat,
         \A i \in 1 .. Len(f) : f[i] <= k * g[i]
  PROVE  Summed(f) \in Nat /\ Summed(g) \in Nat /\ Summed(f) <= k * Summed(g)
<1> DEFINE N == Len(f)
<1>1. PICK s : Sums(s, f) /\ Summed(f) = s[N]
  BY SumIs
<1>2. PICK t : Sums(t, g) /\ Summed(g) = t[N]
  BY SumIs
<1>3. /\ N \in Nat /\ N = Len(g) /\ \A i \in 1 .. N : f[i] \in Nat /\ g[i] \in Nat
      /\ \A i \in 1 .. N : f[i] <= k * g[i]
  OBVIOUS
<1> HIDE DEF N
<1>4. /\ s \in [0 .. N -> Nat] /\ s[0] = 0 /\ \A n \in 1 .. N : s[n] = s[n - 1] + f[n]
      /\ t \in [0 .. N -> Nat] /\ t[0] = 0 /\ \A n \in 1 .. N : t[n] = t[n - 1] + g[n]
  BY <1>1, <1>2, <1>3 DEF Sums, N
<1>5. \A n \in 0 .. N : s[n] <= k * t[n]
  <2> DEFINE bad == {n \in 0 .. N : ~(s[n] <= k * t[n])}
  <2>1. bad \subseteq Nat
    BY <1>3
  <2>2. ASSUME NEW n \in bad, \A m \in bad : n <= m
        PROVE  FALSE
    <3>1. n \in 0 .. N /\ ~(s[n] <= k * t[n])
      OBVIOUS
    <3>2. n \in 1 .. N /\ n - 1 \in 0 .. N /\ ~(n <= n - 1)
      <4>1. n # 0
        BY <1>4, <3>1
      <4> QED BY <1>3, <3>1, <4>1
    <3>3. s[n - 1] <= k * t[n - 1]
      BY <2>2, <3>2
    <3>4. /\ s[n] = s[n - 1] + f[n] /\ t[n] = t[n - 1] + g[n] /\ f[n] <= k * g[n]
          /\ s[n - 1] \in Nat /\ t[n - 1] \in Nat /\ f[n] \in Nat /\ g[n] \in Nat
      BY <1>3, <1>4, <3>2
    <3> DEFINE a == t[n - 1]
               b == g[n]
    <3>5. a \in Nat /\ b \in Nat /\ t[n] = a + b /\ f[n] <= k * b /\ s[n - 1] <= k * a
          /\ ~(s[n] <= k * t[n])
      BY <3>1, <3>3, <3>4
    <3> HIDE DEF a, b
    <3> DEFINE p == k * a
               q == k * b
    <3>6. k * t[n] = p + q /\ p \in Nat /\ q \in Nat
      BY <3>5, Distributes
    <3>7. f[n] <= q /\ s[n - 1] <= p
      BY <3>5
    <3> HIDE DEF p, q
    <3>8. s[n - 1] + f[n] <= p + q
      BY <3>4, <3>6, <3>7, SMTT(60)
    <3> QED BY <3>4, <3>5, <3>6, <3>8
  <2> HIDE DEF bad
  <2>3. bad = {}
    BY <2>1, <2>2, LeastOne
  <2> QED BY <2>3 DEF bad
<1> QED BY <1>1, <1>2, <1>3, <1>4, <1>5

LEMMA SummedAppended ==
  ASSUME NEW f \in Seq(Nat), NEW x \in Nat
  PROVE  Summed(f) \in Nat /\ Summed(Append(f, x)) = Summed(f) + x
<1> DEFINE N == Len(f)
           h == Append(f, x)
<1>1. PICK s : Sums(s, f) /\ Summed(f) = s[N]
  BY SumIs
<1>2. /\ N \in Nat /\ h \in Seq(Nat) /\ Len(h) = N + 1 /\ h[N + 1] = x
      /\ \A i \in 1 .. N : h[i] = f[i] /\ f[i] \in Nat
  OBVIOUS
<1> HIDE DEF N, h
<1>3. PICK t : Sums(t, h) /\ Summed(h) = t[N + 1]
  BY <1>2, SumIs
<1>4. /\ s \in [0 .. N -> Nat] /\ s[0] = 0 /\ \A n \in 1 .. N : s[n] = s[n - 1] + f[n]
      /\ t \in [0 .. N + 1 -> Nat] /\ t[0] = 0
      /\ \A n \in 1 .. N + 1 : t[n] = t[n - 1] + h[n]
  BY <1>1, <1>2, <1>3 DEF Sums, N
<1>5. \A n \in 0 .. N : s[n] = t[n]
  <2> DEFINE bad == {n \in 0 .. N : s[n] # t[n]}
  <2>1. bad \subseteq Nat
    BY <1>2
  <2>2. ASSUME NEW n \in bad, \A m \in bad : n <= m
        PROVE  FALSE
    <3>1. n \in 0 .. N /\ s[n] # t[n]
      OBVIOUS
    <3>2. n \in 1 .. N /\ n - 1 \in 0 .. N /\ ~(n <= n - 1) /\ n \in 1 .. N + 1
      <4>1. n # 0
        BY <1>4, <3>1
      <4> QED BY <1>2, <3>1, <4>1
    <3>3. s[n - 1] = t[n - 1]
      BY <2>2, <3>2
    <3> QED BY <1>2, <1>4, <3>1, <3>2, <3>3
  <2> HIDE DEF bad
  <2>3. bad = {}
    BY <2>1, <2>2, LeastOne
  <2> QED BY <2>3 DEF bad
<1>6. N \in 0 .. N /\ N + 1 \in 1 .. N + 1 /\ (N + 1) - 1 = N
  BY <1>2
<1>7. t[N + 1] = t[N] + x /\ s[N] = t[N] /\ s[N] \in Nat
  BY <1>2, <1>4, <1>5, <1>6
<1> QED BY <1>1, <1>3, <1>7 DEF h

LEMMA SummedNone == Summed(<< >>) = 0
<1> DEFINE f == << >>
<1>1. f \in Seq(Nat) /\ Len(f) = 0
  OBVIOUS
<1> HIDE DEF f
<1>2. PICK s : Sums(s, f) /\ Summed(f) = s[0]
  BY <1>1, SumIs
<1> QED BY <1>2 DEF Sums, f

LEMMA RoundedUp ==
  ASSUME NEW n \in Nat, NEW k \in Nat \ {0}
  PROVE  /\ (n + k - 1) \div k \in Nat /\ n <= k * ((n + k - 1) \div k)
         /\ n = 0 => (n + k - 1) \div k = 0
<1> DEFINE m == n + k - 1
           q == m \div k
           r == m % k
<1>1. m \in Nat /\ k \in Nat /\ k > 0
  OBVIOUS
<1>2. q \in Int /\ r \in Int /\ m = k * q + r /\ 0 <= r /\ r < k
  BY <1>1
<1> HIDE DEF q, r
<1>3. k * q >= n
  BY <1>2
<1>4. q >= 0
  <2>1. SUFFICES ASSUME q < 0 PROVE FALSE
    BY <1>2
  <2>2. q <= -1 /\ k * q <= k * (-1)
    BY <1>2, <2>1
  <2> QED BY <1>2, <1>1, <2>2
<1>5. n = 0 => q = 0
  <2>1. SUFFICES ASSUME n = 0, q >= 1 PROVE FALSE
    BY <1>2, <1>4
  <2>2. k * q >= k * 1
    BY <1>2, <2>1
  <2> QED BY <1>2, <2>1, <2>2
<1> QED BY <1>2, <1>3, <1>4, <1>5 DEF q

LEMMA RowTicksIs ==
  ASSUME NEW row \in Rows
  PROVE  RowTicks(row) \in Nat /\ row.ticks \in Nat /\ row.ticks <= RowTicks(row)
<1>1. row.ticks \in Nat /\ row.limit \in Nat
      /\ row.status \in {"passed", "failed", "timed_out", "skipped"}
  BY DEF Rows
<1>2. row.limit * TicksPerSecond \in Nat
  BY <1>1, PortfolioConstants
<1> DEFINE most == row.limit * TicksPerSecond
<1>3. RowTicks(row) = CASE row.status = "timed_out" -> More(row.ticks, most)
                        [] row.status = "skipped"   -> row.ticks
                        [] OTHER                    -> More(row.ticks, 1)
  BY DEF RowTicks
<1> HIDE DEF most
<1>4. \A n, m \in Nat : More(n, m) \in Nat /\ n <= More(n, m)
  BY DEF More
<1>5. most \in Nat
  BY <1>2 DEF most
<1> QED BY <1>1, <1>3, <1>4, <1>5

TicksIn(rows) == Summed([j \in DOMAIN rows |-> rows[j].ticks])

LEMMA TicksSettle ==
  ASSUME NEW rows \in Seq(Rows)
  PROVE  TicksIn(rows) \in Nat /\ RowsTicks(rows) \in Nat /\ TicksIn(rows) <= RowsTicks(rows)
<1> DEFINE f == [j \in DOMAIN rows |-> rows[j].ticks]
           g == [j \in DOMAIN rows |-> RowTicks(rows[j])]
<1>1. /\ Len(rows) \in Nat /\ DOMAIN rows = 1 .. Len(rows)
      /\ \A j \in 1 .. Len(rows) : rows[j] \in Rows
  OBVIOUS
<1>2. \A j \in 1 .. Len(rows) : RowTicks(rows[j]) \in Nat /\ rows[j].ticks \in Nat
                                /\ rows[j].ticks <= RowTicks(rows[j])
  BY <1>1, RowTicksIs
<1>3. f \in [1 .. Len(rows) -> Nat] /\ g \in [1 .. Len(rows) -> Nat]
  BY <1>1, <1>2
<1>4. \A j \in 1 .. Len(rows) : f[j] <= 1 * g[j]
  BY <1>1, <1>2
<1> HIDE DEF f, g
<1>5. /\ f \in Seq(Nat) /\ g \in Seq(Nat) /\ Len(f) = Len(g) /\ Len(f) = Len(rows)
  <2>1. \A n \in Nat : \A h \in [1 .. n -> Nat] : h \in Seq(Nat) /\ Len(h) = n
    OBVIOUS
  <2> QED BY <1>1, <1>3, <2>1
<1>6. Summed(f) \in Nat /\ Summed(g) \in Nat /\ Summed(f) <= 1 * Summed(g)
  BY <1>4, <1>5, SummedLeast
<1> QED BY <1>6 DEF TicksIn, RowsTicks, f, g

LEMMA SidesAsRun ==
  ASSUME NEW x, Whole(x)
  PROVE  Sides(x) = SidesRun(x)
<1>1. x.rows \in Seq(Rows)
  BY WholeRows
<1>2. CASE Len(x.rows) = 1
  <2>1. x.rows[1].side = "head" /\ ~(x.kind = "red_green" /\ x.rows[1].status = "passed")
    BY <1>2 DEF Whole
  <2>2. Sides(x) = <<"head">>
    BY <1>1, <1>2, <2>1 DEF Sides
  <2> QED BY <2>1, <2>2 DEF SidesRun
<1>3. CASE Len(x.rows) = 2
  <2>1. /\ x.rows[2].side = "base-plus-tests" /\ PassedHead(x.id, x.rows)
        /\ x.kind = Kind[x.id]
    BY <1>3 DEF Whole
  <2>2. x.kind = "red_green" /\ x.rows[1].side = "head" /\ x.rows[1].status = "passed"
    BY <2>1 DEF PassedHead
  <2>3. Sides(x) = <<"head", "base-plus-tests">>
    BY <1>1, <1>3, <2>1, <2>2 DEF Sides
  <2> QED BY <2>2, <2>3 DEF SidesRun
<1> QED BY <1>2, <1>3, WholeRows

\* A whole receipt settles its lease, and at no less than its commands took.
LEMMA WholeSettles ==
  ASSUME NEW x, Whole(x)
  PROVE  /\ SpentSeconds(x) \in Nat /\ SpentSeconds(x) # Unsettled
         /\ TicksIn(x.rows) \in Nat /\ TicksIn(x.rows) <= TicksPerSecond * SpentSeconds(x)
         /\ x.rows = <<SkippedRow("head")>> => SpentSeconds(x) = 0
<1>1. x.rows \in Seq(Rows) /\ x.rows # << >> /\ DOMAIN x.rows = 1 .. Len(x.rows)
  <2>1. x.rows \in Seq(Rows) /\ Len(x.rows) \in {1, 2}
    BY WholeRows
  <2> QED BY <2>1
<1>2. ASSUME NEW i \in DOMAIN x.rows PROVE RowSettles(x.rows[i])
  <2>1. RowSound(x.id, x.rows[i]) /\ x.rows[i] \in Rows /\ x.id \in Tasks
    BY WholeRows DEF Whole
  <2>2. Allowance[x.id] > 0
    BY <2>1, CostsNat
  <2>3. /\ x.rows[i].status \in {"passed", "failed", "timed_out", "skipped"}
        /\ x.rows[i].limit \in Nat
    BY <2>1 DEF Rows
  <2>4. CASE x.rows[i].limit = 0
    <3>1. x.rows[i].status = "skipped"
      BY <2>1, <2>4 DEF RowSound, SkippedRow
    <3> QED BY <2>4, <3>1 DEF RowSettles
  <2>5. CASE x.rows[i].limit # 0
    <3>1. x.rows[i].limit > 0 /\ (x.rows[i].status = "skipped" => x.rows[i].ticks > 0)
      BY <2>1, <2>3, <2>5 DEF RowSound
    <3> QED BY <2>3, <3>1 DEF RowSettles
  <2> QED BY <2>4, <2>5
<1>3. SpentSeconds(x) = (RowsTicks(x.rows) + TicksPerSecond - 1) \div TicksPerSecond
  BY <1>1, <1>2, SidesAsRun DEF SpentSeconds
<1>4. /\ TicksIn(x.rows) \in Nat /\ RowsTicks(x.rows) \in Nat
      /\ TicksIn(x.rows) <= RowsTicks(x.rows)
  BY <1>1, TicksSettle
<1>5. TicksPerSecond \in Nat \ {0}
  BY PortfolioConstants
<1> DEFINE n == RowsTicks(x.rows)
           q == (n + TicksPerSecond - 1) \div TicksPerSecond
<1>6. q \in Nat /\ n <= TicksPerSecond * q /\ (n = 0 => q = 0)
  BY <1>4, <1>5, RoundedUp
<1> HIDE DEF q
<1>7. SpentSeconds(x) = q
  BY <1>3 DEF q, n
<1>8. ASSUME x.rows = <<SkippedRow("head")>>
      PROVE  n = 0
  <2>1. x.rows[1].status = "skipped" /\ x.rows[1].ticks = 0 /\ DOMAIN x.rows = {1}
    BY <1>8 DEF SkippedRow
  <2>2. [i \in DOMAIN x.rows |-> RowTicks(x.rows[i])] = <<0>>
    BY <2>1 DEF RowTicks
  <2>3. Summed(<<0>>) = 0
    <3> DEFINE none == << >>
    <3>1. none \in Seq(Nat) /\ Append(none, 0) = <<0>>
      OBVIOUS
    <3>2. Summed(none) = 0
      BY SummedNone
    <3> HIDE DEF none
    <3>3. Summed(Append(none, 0)) = 0
      BY <3>1, <3>2, SummedAppended
    <3> QED BY <3>1, <3>3
  <2> QED BY <2>2, <2>3 DEF RowsTicks
<1>9. q # Unsettled
  BY <1>6 DEF Unsettled
<1>10. TicksPerSecond * q \in Nat
  BY <1>5, <1>6
<1> HIDE DEF n
<1>11. TicksIn(x.rows) <= TicksPerSecond * q
  BY <1>4, <1>6, <1>10 DEF n
<1> QED BY <1>4, <1>6, <1>7, <1>8, <1>9, <1>11

(***************************************************************************)
(* The invariant of the budget.                                            *)
(***************************************************************************)
Budgets == [tasks : Nat, files : Nat, seconds : Nat]

\* What the receipts have settled, and the files of the tests that were run.
Settles(rs) == [i \in DOMAIN rs |-> SpentSeconds(rs[i])]
Spending    == Summed(Settles(receipts))
FilesOf(ls) == {File[ls[i].task] : i \in {j \in GrantedAt(ls) : ls[j].task \in Tests}}

\* A lease for each receipt, and nothing is settled where none was granted.
LeasesSound ==
  /\ leases \in Seq(LeaseRecords) /\ Len(leases) = Len(receipts)
  /\ \A i \in DOMAIN leases :
       /\ leases[i].task = receipts[i].id
       /\ leases[i].status # "granted" => SpentSeconds(receipts[i]) = 0

LoopTyped ==
  /\ loop.budget \in Budgets /\ loop.ran \in Nat /\ loop.spent \in Nat
  /\ IsFiniteSet(loop.files)

\* What is left of the loop's budget is what is left of the profile's, unless
\* it is nothing; earlier are the files of the phases before.
LoopSound ==
  /\ loop.budget.seconds # 0 => loop.budget.seconds + Spending = Total.seconds + loop.spent
  /\ loop.budget.tasks # 0 =>
       loop.budget.tasks + Cardinality(GrantedAt(leases)) = Total.tasks + loop.ran
  /\ Cardinality(loop.files) <= loop.budget.files
  /\ loop.budget.files # 0 =>
       \E earlier \in SUBSET FilesOf(leases) :
         /\ FilesOf(leases) \subseteq earlier \cup loop.files
         /\ Cardinality(earlier) + loop.budget.files <= Total.files

CommandFits ==
  /\ Spending + Cost(cmd.task) <= Total.seconds
  /\ Cardinality(GrantedAt(leases)) + 1 <= Total.tasks
  /\ cmd.task \in Tests => File[cmd.task] \in loop.files

BudgetInv ==
  pc \in Resting \cup Busy =>
    /\ LoopTyped /\ LeasesSound
    /\ Cardinality(FilesOf(leases)) <= Total.files
    /\ pc \in Busy \cup {"loop"} => LoopSound
    /\ pc \in Busy => CommandFits

LEMMA ImageBounded ==
  ASSUME NEW S, IsFiniteSet(S), NEW f, DOMAIN f = S
  PROVE  LET T == {f[x] : x \in S}
         IN IsFiniteSet(T) /\ Cardinality(T) <= Cardinality(S) /\ Cardinality(T) \in Nat
<1> DEFINE T == {f[x] : x \in S}
           g == [x \in S |-> f[x]]
<1>1. g \in Surjection(S, T)
  BY DEF Surjection
<1> HIDE DEF g, T
<1>2. IsFiniteSet(T) /\ Cardinality(T) <= Cardinality(S)
  BY <1>1, FS_Surjection
<1>3. Cardinality(T) \in Nat
  BY <1>2, FS_CardinalityType
<1> QED BY <1>2, <1>3 DEF T

LEMMA GrantedFinite ==
  ASSUME NEW ls \in Seq(LeaseRecords)
  PROVE  /\ IsFiniteSet(GrantedAt(ls)) /\ Cardinality(GrantedAt(ls)) \in Nat
         /\ GrantedAt(ls) \subseteq 1 .. Len(ls)
         /\ IsFiniteSet(FilesOf(ls)) /\ Cardinality(FilesOf(ls)) \in Nat
         /\ Cardinality(FilesOf(ls)) <= Cardinality(GrantedAt(ls))
<1>1. DOMAIN ls = 1 .. Len(ls) /\ Len(ls) \in Nat
  OBVIOUS
<1>2. GrantedAt(ls) \subseteq 1 .. Len(ls)
  BY <1>1 DEF GrantedAt
<1>3. IsFiniteSet(GrantedAt(ls)) /\ Cardinality(GrantedAt(ls)) \in Nat
  <2>1. IsFiniteSet(1 .. Len(ls))
    BY <1>1, FS_Interval
  <2>2. IsFiniteSet(GrantedAt(ls))
    BY <1>2, <2>1, FS_Subset
  <2> QED BY <2>2, FS_CardinalityType
<1> DEFINE D == {j \in GrantedAt(ls) : ls[j].task \in Tests}
           f == [i \in D |-> File[ls[i].task]]
<1>4. D \subseteq GrantedAt(ls)
  OBVIOUS
<1>5. FilesOf(ls) = {f[i] : i \in D}
  BY DEF FilesOf
<1>6. DOMAIN f = D
  OBVIOUS
<1> HIDE DEF D, f
<1>7. IsFiniteSet(D) /\ Cardinality(D) <= Cardinality(GrantedAt(ls)) /\ Cardinality(D) \in Nat
  BY <1>3, <1>4, FS_Subset, FS_CardinalityType
<1>8. /\ IsFiniteSet(FilesOf(ls)) /\ Cardinality(FilesOf(ls)) <= Cardinality(D)
      /\ Cardinality(FilesOf(ls)) \in Nat
  BY <1>5, <1>6, <1>7, ImageBounded
<1> QED BY <1>2, <1>3, <1>7, <1>8

LEMMA SettlesNat ==
  ASSUME NEW rs \in Seq(Receipts), \A i \in DOMAIN rs : Whole(rs[i])
  PROVE  /\ Settles(rs) \in Seq(Nat) /\ Len(Settles(rs)) = Len(rs)
         /\ \A i \in 1 .. Len(rs) : Settles(rs)[i] = SpentSeconds(rs[i])
         /\ Summed(Settles(rs)) \in Nat
<1> DEFINE f == Settles(rs)
<1>1. DOMAIN rs = 1 .. Len(rs) /\ Len(rs) \in Nat
  OBVIOUS
<1>2. \A i \in 1 .. Len(rs) : SpentSeconds(rs[i]) \in Nat
  BY <1>1, WholeSettles
<1>3. f \in [1 .. Len(rs) -> Nat] /\ \A i \in 1 .. Len(rs) : f[i] = SpentSeconds(rs[i])
  BY <1>1, <1>2 DEF Settles
<1> HIDE DEF f
<1>4. f \in Seq(Nat) /\ Len(f) = Len(rs)
  <2>1. \A n \in Nat : \A h \in [1 .. n -> Nat] : h \in Seq(Nat) /\ Len(h) = n
    OBVIOUS
  <2> QED BY <1>1, <1>3, <2>1
<1>5. PICK s : Sums(s, f) /\ Summed(f) = s[Len(f)]
  BY <1>4, SumIs
<1>6. Summed(f) \in Nat
  BY <1>4, <1>5 DEF Sums
<1> QED BY <1>3, <1>4, <1>6 DEF f

LEMMA ChargesSettled ==
  ASSUME NEW T, WorkSound(book, receipts, T), LeasesSound
  PROVE  [i \in DOMAIN leases |-> IF i \in GrantedAt(leases)
                                  THEN Charge(leases[i], leases, receipts) ELSE 0]
           = Settles(receipts)
<1>1. /\ receipts \in Seq(Receipts) /\ \A i \in DOMAIN receipts : Whole(receipts[i])
      /\ \A i, j \in DOMAIN receipts : receipts[i].id = receipts[j].id => i = j
  BY DEF WorkSound
<1>2. /\ leases \in Seq(LeaseRecords) /\ DOMAIN leases = DOMAIN receipts
      /\ \A i \in DOMAIN leases : leases[i].task = receipts[i].id
                                  /\ (leases[i].status # "granted" => SpentSeconds(receipts[i]) = 0)
  BY <1>1 DEF LeasesSound
<1>3. ASSUME NEW i \in DOMAIN leases, i \in GrantedAt(leases)
      PROVE  Charge(leases[i], leases, receipts) = SpentSeconds(receipts[i])
  <2>1. {j \in DOMAIN receipts : receipts[j].id = leases[i].task} = {i}
    BY <1>1, <1>2
  <2>2. {j \in GrantedAt(leases) : leases[j].task = leases[i].task} = {i}
    BY <1>1, <1>2, <1>3 DEF GrantedAt
  <2>3. Cardinality({i}) = 1 /\ (CHOOSE j \in {i} : TRUE) = i
    BY FS_Singleton
  <2>4. SpentSeconds(receipts[i]) # Unsettled
    BY <1>1, <1>2, WholeSettles
  <2> QED BY <2>1, <2>2, <2>3, <2>4 DEF Charge
<1>4. \A i \in DOMAIN leases : i \notin GrantedAt(leases) => SpentSeconds(receipts[i]) = 0
  BY <1>2 DEF GrantedAt
<1> QED BY <1>2, <1>3, <1>4 DEF Settles

\* The budget a loop starts with is what the receipts leave of the profile's.
LEMMA BudgetIs ==
  ASSUME WorkSound(book, receipts, {}), LeasesSound
  PROVE  /\ BudgetNow \in Budgets
         /\ BudgetNow.seconds # 0 => BudgetNow.seconds + Spending = Total.seconds
         /\ BudgetNow.tasks # 0 =>
              BudgetNow.tasks + Cardinality(GrantedAt(leases)) = Total.tasks
         /\ BudgetNow.files # 0 =>
              BudgetNow.files + Cardinality(GrantedAt(leases)) = Total.files
<1>1. Total.tasks \in Nat /\ Total.files \in Nat /\ Total.seconds \in Nat
  BY RunConstants
<1>2. Cardinality(GrantedAt(leases)) \in Nat
  BY GrantedFinite DEF LeasesSound
<1>3. Spending \in Nat
  BY SettlesNat DEF WorkSound, Spending
<1>4. \A a, b \in Nat : Minus(a, b) \in Nat /\ (Minus(a, b) # 0 => Minus(a, b) + b = a)
  BY DEF Minus
<1>5. CASE \E i \in DOMAIN leases : leases[i].status \in {"exhausted", "absent"}
  <2>1. BudgetNow = [tasks |-> 0, files |-> 0, seconds |-> 0]
    BY <1>5 DEF BudgetNow, SettledBudget
  <2> QED BY <2>1 DEF Budgets
<1>6. CASE ~ \E i \in DOMAIN leases : leases[i].status \in {"exhausted", "absent"}
  <2> DEFINE G == Cardinality(GrantedAt(leases))
             V == Spending
  <2>1. BudgetNow = [tasks |-> Minus(Total.tasks, G), files |-> Minus(Total.files, G),
                     seconds |-> Minus(Total.seconds, V)]
    BY <1>6, ChargesSettled DEF BudgetNow, SettledBudget, Spending
  <2>2. G \in Nat /\ V \in Nat
    BY <1>2, <1>3
  <2> HIDE DEF G, V
  <2>3. /\ BudgetNow \in Budgets /\ BudgetNow.tasks = Minus(Total.tasks, G)
        /\ BudgetNow.files = Minus(Total.files, G) /\ BudgetNow.seconds = Minus(Total.seconds, V)
    BY <1>1, <1>4, <2>1, <2>2 DEF Budgets
  <2> QED BY <1>1, <1>4, <2>2, <2>3 DEF G, V
<1> QED BY <1>5, <1>6

LEMMA LoopStarts ==
  ASSUME RunInv, BudgetInv, pc \in Resting, receipts' = receipts, leases' = leases,
         pc' = "loop", NEW q,
         loop' = [queue |-> q, budget |-> BudgetNow, ran |-> 0, files |-> {}, spent |-> 0]
  PROVE  BudgetInv'
<1>1. /\ LeasesSound /\ Cardinality(FilesOf(leases)) <= Total.files
      /\ WorkSound(book, receipts, {})
  BY AtRest DEF BudgetInv
<1>2. /\ loop'.budget = BudgetNow /\ loop'.ran = 0 /\ loop'.files = {} /\ loop'.spent = 0
  OBVIOUS
<1>3. /\ BudgetNow \in Budgets
      /\ BudgetNow.seconds # 0 => BudgetNow.seconds + Spending = Total.seconds
      /\ BudgetNow.tasks # 0 => BudgetNow.tasks + Cardinality(GrantedAt(leases)) = Total.tasks
      /\ BudgetNow.files # 0 => BudgetNow.files + Cardinality(GrantedAt(leases)) = Total.files
  BY <1>1, BudgetIs
<1> DEFINE b == BudgetNow
<1>4. /\ b \in Budgets /\ loop'.budget = b /\ b.tasks \in Nat /\ b.files \in Nat
      /\ b.seconds \in Nat
  BY <1>2, <1>3 DEF Budgets
<1> HIDE DEF b
<1>5. LoopTyped'
  BY <1>2, <1>4, FS_EmptySet DEF LoopTyped
<1>6. LeasesSound' /\ Cardinality(FilesOf(leases)') <= Total.files
  BY <1>1 DEF LeasesSound, FilesOf, GrantedAt
<1>7. LoopSound'
  <2>1. /\ Cardinality(FilesOf(leases)) \in Nat /\ Cardinality(GrantedAt(leases)) \in Nat
        /\ Cardinality(FilesOf(leases)) <= Cardinality(GrantedAt(leases))
    BY <1>1, GrantedFinite DEF LeasesSound
  <2>2. Total.tasks \in Nat /\ Total.files \in Nat /\ Total.seconds \in Nat
    BY RunConstants
  <2>3. Cardinality({}) = 0
    BY FS_EmptySet
  <2>4. Spending' = Spending
    BY DEF Spending
  <2>5. Total.seconds + 0 = Total.seconds /\ Total.tasks + 0 = Total.tasks
    BY <2>2
  <2>6. ASSUME b.files # 0
        PROVE  \E earlier \in SUBSET FilesOf(leases) :
                 /\ FilesOf(leases) \subseteq earlier \cup {}
                 /\ Cardinality(earlier) + b.files <= Total.files
    <3>1. Cardinality(FilesOf(leases)) + b.files <= Total.files
      BY <1>3, <1>4, <2>1, <2>2, <2>6 DEF b
    <3> WITNESS FilesOf(leases) \in SUBSET FilesOf(leases)
    <3> QED BY <3>1
  <2>7. Cardinality({}) <= b.files
    BY <1>4, <2>3
  <2>8. /\ b.seconds # 0 => b.seconds + Spending = Total.seconds + 0
        /\ b.tasks # 0 => b.tasks + Cardinality(GrantedAt(leases)) = Total.tasks + 0
    BY <1>3, <2>5 DEF b
  <2> QED BY <1>2, <1>4, <2>4, <2>6, <2>7, <2>8 DEF LoopSound
<1>8. pc' \notin Busy
  BY DEF Busy
<1> QED BY <1>5, <1>6, <1>7, <1>8 DEF BudgetInv

\* Nothing the budget is read from changes.
LEMMA BudgetStays ==
  ASSUME BudgetInv, pc \in Resting \cup Busy, leases' = leases, loop' = loop,
         Len(receipts') = Len(receipts), Settles(receipts') = Settles(receipts),
         \A i \in DOMAIN receipts : receipts'[i].id = receipts[i].id,
         receipts \in Seq(Receipts), receipts' \in Seq(Receipts),
         pc' = "loop" => pc \in Busy \cup {"loop"},
         pc' \in Busy => pc \in Busy /\ cmd'.task = cmd.task
  PROVE  BudgetInv'
<1>1. /\ LoopTyped /\ LeasesSound /\ Cardinality(FilesOf(leases)) <= Total.files
      /\ pc \in Busy \cup {"loop"} => LoopSound
      /\ pc \in Busy => CommandFits
  BY DEF BudgetInv
<1>2. Spending' = Spending
  BY DEF Spending
<1>3. \A i \in DOMAIN receipts : SpentSeconds(receipts'[i]) = SpentSeconds(receipts[i])
  <2>1. DOMAIN receipts' = DOMAIN receipts
    OBVIOUS
  <2>2. \A i \in DOMAIN receipts : Settles(receipts')[i] = Settles(receipts)[i]
    OBVIOUS
  <2> QED BY <2>1, <2>2 DEF Settles
<1>4. LoopTyped'
  BY <1>1 DEF LoopTyped
<1>5. LeasesSound'
  <2>1. DOMAIN leases = DOMAIN receipts
    BY <1>1 DEF LeasesSound
  <2> QED BY <1>1, <1>3, <2>1 DEF LeasesSound
<1>6. Cardinality(FilesOf(leases)') <= Total.files
  BY <1>1 DEF FilesOf, GrantedAt
<1>7. LoopSound => LoopSound'
  BY <1>2 DEF LoopSound, FilesOf, GrantedAt
<1>8. pc' \in Busy => CommandFits'
  BY <1>1, <1>2 DEF CommandFits, GrantedAt
<1> QED BY <1>1, <1>4, <1>5, <1>6, <1>7, <1>8 DEF BudgetInv

\* A task gets its receipt and its lease.
LEMMA LeaseJoins ==
  ASSUME LoopTyped, LeasesSound, NEW T, WorkSound(book, receipts, T), NEW x, Whole(x),
         NEW t \in Tasks, x.id = t,
         NEW st \in {"granted", "skipped_profile", "absent", "exhausted"},
         st # "granted" => SpentSeconds(x) = 0,
         receipts' = Append(receipts, x), leases' = Append(leases, Lease(t, st))
  PROVE  /\ LeasesSound' /\ Spending' = Spending + SpentSeconds(x)
         /\ Spending \in Nat /\ SpentSeconds(x) \in Nat
         /\ Cardinality(GrantedAt(leases)) \in Nat
         /\ IF st = "granted"
            THEN /\ Cardinality(GrantedAt(leases)') = Cardinality(GrantedAt(leases)) + 1
                 /\ FilesOf(leases)' = FilesOf(leases) \cup (IF t \in Tests THEN {File[t]} ELSE {})
            ELSE /\ Cardinality(GrantedAt(leases)') = Cardinality(GrantedAt(leases))
                 /\ FilesOf(leases)' = FilesOf(leases)
<1> DEFINE l == Lease(t, st)
           n == Len(leases)
<1>1. /\ leases \in Seq(LeaseRecords) /\ Len(leases) = Len(receipts)
      /\ \A i \in DOMAIN leases : leases[i].task = receipts[i].id
                                  /\ (leases[i].status # "granted" => SpentSeconds(receipts[i]) = 0)
  BY DEF LeasesSound
<1>2. l \in LeaseRecords /\ l.task = t /\ l.status = st
  <2>1. Cost(t) \in Nat /\ loop.budget.seconds \in Nat
    BY CostsNat DEF LoopTyped, Budgets
  <2>2. Ceiling(t, loop.budget) \in Nat
    BY <2>1 DEF Ceiling, Less
  <2> QED BY <2>2 DEF Lease, LeaseRecords
<1>3. receipts \in Seq(Receipts) /\ \A i \in DOMAIN receipts : Whole(receipts[i])
  BY DEF WorkSound
<1>4. x \in Receipts /\ SpentSeconds(x) \in Nat
  BY WholeRows, WholeSettles
<1> HIDE DEF l
<1>5. leases' = Append(leases, l)
  BY DEF l
<1>6. /\ leases' \in Seq(LeaseRecords) /\ Len(leases') = n + 1 /\ leases'[n + 1] = l
      /\ \A i \in 1 .. n : leases'[i] = leases[i]
      /\ DOMAIN leases = 1 .. n /\ DOMAIN leases' = 1 .. n + 1 /\ n \in Nat
  BY <1>1, <1>2, <1>5
<1>7. /\ receipts' \in Seq(Receipts) /\ Len(receipts') = n + 1 /\ receipts'[n + 1] = x
      /\ \A i \in 1 .. n : receipts'[i] = receipts[i]
      /\ DOMAIN receipts = 1 .. n /\ DOMAIN receipts' = 1 .. n + 1
  BY <1>1, <1>3, <1>4
<1> HIDE DEF n
<1>8. LeasesSound'
  <2>1. ASSUME NEW i \in 1 .. n + 1
        PROVE  /\ leases'[i].task = receipts'[i].id
               /\ leases'[i].status # "granted" => SpentSeconds(receipts'[i]) = 0
    <3>1. CASE i = n + 1
      BY <1>2, <1>6, <1>7, <3>1
    <3>2. CASE i \in 1 .. n
      BY <1>1, <1>6, <1>7, <3>2
    <3>3. i = n + 1 \/ i \in 1 .. n
      BY <1>6
    <3> QED BY <3>1, <3>2, <3>3
  <2> QED BY <1>6, <1>7, <2>1 DEF LeasesSound
<1>9. Spending \in Nat /\ Spending' = Spending + SpentSeconds(x)
  <2>1. /\ Settles(receipts) \in Seq(Nat) /\ Summed(Settles(receipts)) \in Nat
        /\ Len(Settles(receipts)) = n
        /\ \A i \in 1 .. n : Settles(receipts)[i] = SpentSeconds(receipts[i])
    BY <1>1, <1>3, SettlesNat DEF n
  <2> DEFINE f == Settles(receipts)
             g == Settles(receipts')
             s == SpentSeconds(x)
  <2>2. /\ DOMAIN g = 1 .. n + 1 /\ g[n + 1] = s
        /\ \A i \in 1 .. n : g[i] = SpentSeconds(receipts[i])
        /\ g = [i \in 1 .. n + 1 |-> g[i]]
    BY <1>6, <1>7 DEF Settles
  <2> HIDE DEF f, g, s
  <2>3. f \in Seq(Nat) /\ Len(f) = n /\ \A i \in 1 .. n : f[i] = SpentSeconds(receipts[i])
    BY <2>1 DEF f
  <2>4. s \in Nat
    BY <1>4 DEF s
  <2>5. g = Append(f, s)
    <3> DEFINE h == Append(f, s)
    <3>1. /\ DOMAIN h = 1 .. n + 1 /\ h[n + 1] = s /\ \A i \in 1 .. n : h[i] = f[i]
          /\ h = [i \in 1 .. n + 1 |-> h[i]]
      <4>1. h \in Seq(Nat) /\ Len(h) = n + 1 /\ h[n + 1] = s
        BY <1>6, <2>3, <2>4
      <4>2. \A i \in 1 .. n : h[i] = f[i]
        BY <1>6, <2>3, <2>4
      <4> HIDE DEF h
      <4>3. DOMAIN h = 1 .. n + 1 /\ h = [i \in DOMAIN h |-> h[i]]
        BY <4>1
      <4> QED BY <4>1, <4>2, <4>3
    <3> HIDE DEF h
    <3>2. ASSUME NEW i \in 1 .. n + 1 PROVE g[i] = h[i]
      <4>1. i = n + 1 \/ i \in 1 .. n
        BY <1>6
      <4> QED BY <2>2, <2>3, <3>1, <4>1
    <3>3. g = h
      BY <2>2, <3>1, <3>2
    <3> QED BY <3>3 DEF h
  <2>6. Summed(f) \in Nat /\ Summed(g) = Summed(f) + s
    BY <2>3, <2>4, <2>5, SummedAppended
  <2> QED BY <2>6 DEF Spending, f, g, s
<1>10. /\ GrantedAt(leases) \subseteq 1 .. n /\ IsFiniteSet(GrantedAt(leases))
       /\ Cardinality(GrantedAt(leases)) \in Nat
  BY <1>1, GrantedFinite DEF n
<1>11. CASE st = "granted"
  <2>1. GrantedAt(leases)' = GrantedAt(leases) \cup {n + 1}
    BY <1>2, <1>6, <1>11 DEF GrantedAt
  <2>2. n + 1 \notin GrantedAt(leases)
    BY <1>6, <1>10
  <2>3. Cardinality(GrantedAt(leases)') = Cardinality(GrantedAt(leases)) + 1
    BY <1>10, <2>1, <2>2, FS_AddElement
  <2>4. FilesOf(leases)' = FilesOf(leases) \cup (IF t \in Tests THEN {File[t]} ELSE {})
    <3>1. \A i \in GrantedAt(leases) : leases'[i] = leases[i]
      BY <1>6, <1>10
    <3>2. FilesOf(leases)' =
            {File[leases'[i].task] : i \in {j \in GrantedAt(leases)' : leases'[j].task \in Tests}}
      BY DEF FilesOf
    <3>3. leases'[n + 1].task = t
      BY <1>2, <1>6
    <3> DEFINE D == {j \in GrantedAt(leases) : leases[j].task \in Tests}
    <3>4. {j \in GrantedAt(leases)' : leases'[j].task \in Tests}
            = D \cup (IF t \in Tests THEN {n + 1} ELSE {})
      BY <2>1, <3>1, <3>3
    <3>5. \A i \in D : leases'[i] = leases[i]
      BY <3>1
    <3>6. FilesOf(leases) = {File[leases[i].task] : i \in D}
      BY DEF FilesOf
    <3> HIDE DEF D
    <3>7. FilesOf(leases)' = {File[leases'[i].task] : i \in D}
                             \cup (IF t \in Tests THEN {File[t]} ELSE {})
      BY <3>2, <3>3, <3>4, ZenonT(60)
    <3>8. {File[leases'[i].task] : i \in D} = {File[leases[i].task] : i \in D}
      BY <3>5
    <3> QED BY <1>4, <1>8, <1>9, <3>6, <3>7, <3>8
  <2> QED BY <1>4, <1>8, <1>9, <1>10, <1>11, <2>3, <2>4
<1>12. CASE st # "granted"
  <2>1. GrantedAt(leases)' = GrantedAt(leases)
    BY <1>2, <1>6, <1>12 DEF GrantedAt
  <2>2. FilesOf(leases)' = FilesOf(leases)
    <3>1. \A i \in GrantedAt(leases) : leases'[i] = leases[i]
      BY <1>6, <1>10
    <3>2. FilesOf(leases)' =
            {File[leases'[i].task] : i \in {j \in GrantedAt(leases)' : leases'[j].task \in Tests}}
      BY DEF FilesOf
    <3> QED BY <2>1, <3>1, <3>2, ZenonT(60) DEF FilesOf
  <2> QED BY <1>4, <1>8, <1>9, <1>10, <1>12, <2>1, <2>2
<1> QED BY <1>11, <1>12

LEMMA FilesBounded ==
  ASSUME LoopTyped, LoopSound, leases \in Seq(LeaseRecords),
         NEW f \in loop.files, NEW F \in SUBSET (FilesOf(leases) \cup {f})
  PROVE  Cardinality(F) <= Total.files
<1>1. IsFiniteSet(loop.files) /\ loop.budget.files \in Nat /\ Total.files \in Nat
  BY RunConstants DEF LoopTyped, Budgets
<1>2. Cardinality(loop.files) \in Nat /\ Cardinality(loop.files) # 0
  BY <1>1, FS_CardinalityType, FS_EmptySet
<1>3. loop.budget.files # 0 /\ Cardinality(loop.files) <= loop.budget.files
  BY <1>1, <1>2 DEF LoopSound
<1>4. PICK earlier \in SUBSET FilesOf(leases) :
         /\ FilesOf(leases) \subseteq earlier \cup loop.files
         /\ Cardinality(earlier) + loop.budget.files <= Total.files
  BY <1>3 DEF LoopSound
<1>5. IsFiniteSet(earlier) /\ Cardinality(earlier) \in Nat
  BY GrantedFinite, FS_Subset, FS_CardinalityType
<1> DEFINE all == earlier \cup loop.files
<1>6. F \subseteq all
  BY <1>4
<1>7. IsFiniteSet(earlier \cap loop.files) /\ Cardinality(earlier \cap loop.files) \in Nat
  BY <1>5, FS_Subset, FS_CardinalityType
<1>8. /\ IsFiniteSet(all)
      /\ Cardinality(all) = Cardinality(earlier) + Cardinality(loop.files)
                            - Cardinality(earlier \cap loop.files)
  BY <1>1, <1>5, FS_Union
<1> HIDE DEF all
<1>9. Cardinality(F) <= Cardinality(all) /\ IsFiniteSet(F) /\ Cardinality(F) \in Nat
  BY <1>6, <1>8, FS_Subset, FS_CardinalityType
<1> QED BY <1>1, <1>2, <1>3, <1>4, <1>5, <1>7, <1>8, <1>9

LEMMA BudgetConcludes ==
  ASSUME RunInv, BudgetInv, RunInv', pc \in Busy, NEW rows, NEW result, Concludes(rows, result)
  PROVE  BudgetInv'
<1> DEFINE t == cmd.task
           x == Receipt(t, rows, result)
           s == SpentSeconds(x)
<1>1. /\ receipts' = Append(receipts, x) /\ leases' = Append(leases, Lease(t, "granted"))
      /\ loop' = [loop EXCEPT !.queue = Tail(@), !.ran = @ + 1,
                   !.spent = @ + (IF s = Unsettled THEN Lease(t, "granted").ceiling ELSE s)]
      /\ pc' = "loop"
  BY DEF Concludes
<1>2. /\ LoopTyped /\ LeasesSound /\ Cardinality(FilesOf(leases)) <= Total.files
      /\ LoopSound /\ CommandFits
  BY DEF BudgetInv
<1>3. t \in Tasks /\ WorkSound(book, receipts, {t})
  BY AtWork
<1>4. x.id = t
  BY DEF Receipt
<1> HIDE DEF x
<1>5. Whole(x)
  <2>1. Working0'
    BY <1>1 DEF Working0
  <2>2. \A i \in DOMAIN receipts' : Whole(receipts'[i])
    BY <2>1 DEF RunInv, WorkSound
  <2>3. receipts \in Seq(Receipts)
    BY <1>3 DEF WorkSound
  <2>4. Len(receipts) + 1 \in DOMAIN receipts' /\ receipts'[Len(receipts) + 1] = x
    BY <1>1, <2>3
  <2> QED BY <2>2, <2>4
<1>6. s \in Nat /\ s # Unsettled
  BY <1>5, WholeSettles
<1>7. /\ LeasesSound' /\ Spending' = Spending + s /\ Spending \in Nat
      /\ Cardinality(GrantedAt(leases)) \in Nat
      /\ Cardinality(GrantedAt(leases)') = Cardinality(GrantedAt(leases)) + 1
      /\ FilesOf(leases)' = FilesOf(leases) \cup (IF t \in Tests THEN {File[t]} ELSE {})
  <2> DEFINE st == "granted"
  <2>1. /\ st \in {"granted", "skipped_profile", "absent", "exhausted"}
        /\ st # "granted" => SpentSeconds(x) = 0
        /\ leases' = Append(leases, Lease(t, st)) /\ st = "granted"
    BY <1>1
  <2> HIDE DEF st, t, s
  <2> QED BY <1>1, <1>2, <1>3, <1>4, <1>5, <2>1, LeaseJoins DEF s
<1> HIDE DEF s
<1>8. loop = [queue |-> loop.queue, budget |-> loop.budget, ran |-> loop.ran,
              files |-> loop.files, spent |-> loop.spent]
  BY DEF RunInv, RunTyped
<1>9. /\ loop'.budget = loop.budget /\ loop'.ran = loop.ran + 1 /\ loop'.files = loop.files
      /\ loop'.spent = loop.spent + s
  BY <1>1, <1>6, <1>8
<1>10. LoopTyped'
  BY <1>2, <1>6, <1>9 DEF LoopTyped
<1>11. Total.tasks \in Nat /\ Total.files \in Nat /\ Total.seconds \in Nat
       /\ loop.budget.tasks \in Nat /\ loop.budget.files \in Nat /\ loop.budget.seconds \in Nat
       /\ loop.ran \in Nat /\ loop.spent \in Nat
  BY <1>2, RunConstants DEF LoopTyped, Budgets
<1>12. FilesOf(leases)' \subseteq FilesOf(leases) \cup loop.files
       /\ FilesOf(leases) \subseteq FilesOf(leases)'
  BY <1>2, <1>7 DEF CommandFits
<1>13. LoopSound'
  <2>1. loop.budget.files # 0 =>
          \E earlier \in SUBSET (FilesOf(leases)') :
            /\ FilesOf(leases)' \subseteq earlier \cup loop.files
            /\ Cardinality(earlier) + loop.budget.files <= Total.files
    <3>1. ASSUME loop.budget.files # 0
          PROVE  \E earlier \in SUBSET (FilesOf(leases)') :
                   /\ FilesOf(leases)' \subseteq earlier \cup loop.files
                   /\ Cardinality(earlier) + loop.budget.files <= Total.files
      <4>1. PICK earlier \in SUBSET FilesOf(leases) :
              /\ FilesOf(leases) \subseteq earlier \cup loop.files
              /\ Cardinality(earlier) + loop.budget.files <= Total.files
        BY <1>2, <3>1 DEF LoopSound
      <4>2. earlier \in SUBSET (FilesOf(leases)')
            /\ FilesOf(leases)' \subseteq earlier \cup loop.files
        BY <1>12, <4>1
      <4> QED BY <4>1, <4>2
    <3> QED BY <3>1
  <2>2. /\ loop.budget.seconds # 0 => loop.budget.seconds + Spending = Total.seconds + loop.spent
        /\ loop.budget.tasks # 0 =>
             loop.budget.tasks + Cardinality(GrantedAt(leases)) = Total.tasks + loop.ran
        /\ Cardinality(loop.files) <= loop.budget.files
    BY <1>2 DEF LoopSound
  <2>3. /\ loop'.budget.seconds # 0 => loop'.budget.seconds + Spending' = Total.seconds + loop'.spent
        /\ loop'.budget.tasks # 0 =>
             loop'.budget.tasks + Cardinality(GrantedAt(leases)') = Total.tasks + loop'.ran
    BY <1>6, <1>7, <1>9, <1>11, <2>2
  <2> QED BY <1>9, <2>1, <2>2, <2>3 DEF LoopSound
<1>14. Cardinality(FilesOf(leases)') <= Total.files
  <2>1. CASE t \notin Tests
    BY <1>2, <1>7, <2>1
  <2>2. CASE t \in Tests
    <3>1. FilesOf(leases)' \in SUBSET (FilesOf(leases) \cup {File[t]}) /\ File[t] \in loop.files
      BY <1>2, <1>7, <2>2 DEF CommandFits
    <3>2. leases \in Seq(LeaseRecords)
      BY <1>2 DEF LeasesSound
    <3> QED BY <1>2, <3>1, <3>2, FilesBounded
  <2> QED BY <2>1, <2>2
<1>15. pc' \notin Busy
  BY <1>1 DEF Busy
<1> QED BY <1>1, <1>7, <1>10, <1>13, <1>14, <1>15 DEF BudgetInv

LEMMA BudgetDeclines ==
  ASSUME RunInv, BudgetInv, RunInv', pc = "loop", loop.queue # << >>,
         Obstacle(loop.queue[1]).lease # "granted",
         Decline(loop.queue[1], Obstacle(loop.queue[1]))
  PROVE  BudgetInv'
<1> DEFINE t == loop.queue[1]
           st == Obstacle(t).lease
           x == Receipt(t, <<SkippedRow("head")>>, Obstacle(t).result)
<1>1. /\ receipts' = Append(receipts, x) /\ leases' = Append(leases, Lease(t, st))
      /\ loop' = [loop EXCEPT !.queue = Tail(@)] /\ pc' = "loop"
  BY DEF Decline
<1>2. /\ LoopTyped /\ LeasesSound /\ Cardinality(FilesOf(leases)) <= Total.files
      /\ LoopSound
  BY DEF BudgetInv, Resting
<1>3. t \in Tasks /\ WorkSound(book, receipts, {})
  BY AtRest, TailKeeps DEF RunInv, RunTyped, QueueSound, Resting
<1>4. x.id = t /\ x.rows = <<SkippedRow("head")>>
  BY DEF Receipt
<1>5. st \in {"granted", "skipped_profile", "absent", "exhausted"} /\ st # "granted"
  BY DEF Obstacle
<1> HIDE DEF x, t, st
<1>6. Whole(x)
  <2>1. Working0'
    BY <1>1 DEF Working0
  <2>2. \A i \in DOMAIN receipts' : Whole(receipts'[i])
    BY <2>1 DEF RunInv, WorkSound
  <2>3. receipts \in Seq(Receipts)
    BY <1>3 DEF WorkSound
  <2>4. Len(receipts) + 1 \in DOMAIN receipts' /\ receipts'[Len(receipts) + 1] = x
    BY <1>1, <2>3
  <2> QED BY <2>2, <2>4
<1>7. SpentSeconds(x) = 0
  BY <1>4, <1>6, WholeSettles
<1>8. /\ LeasesSound' /\ Spending' = Spending + 0 /\ Spending \in Nat
      /\ Cardinality(GrantedAt(leases)') = Cardinality(GrantedAt(leases))
      /\ FilesOf(leases)' = FilesOf(leases)
  BY <1>1, <1>2, <1>3, <1>4, <1>5, <1>6, <1>7, LeaseJoins
<1>9. /\ loop'.budget = loop.budget /\ loop'.ran = loop.ran /\ loop'.files = loop.files
      /\ loop'.spent = loop.spent
  BY <1>1 DEF RunInv, RunTyped
<1>10. LoopTyped'
  BY <1>2, <1>9 DEF LoopTyped
<1>11. Spending' = Spending
  BY <1>8
<1>12. LoopSound'
  BY <1>2, <1>8, <1>9, <1>11 DEF LoopSound
<1>13. pc' \notin Busy
  BY <1>1 DEF Busy
<1> QED BY <1>1, <1>2, <1>8, <1>10, <1>12, <1>13 DEF BudgetInv

LEMMA BudgetBegins ==
  ASSUME RunInv, BudgetInv, pc = "loop", loop.queue # << >>,
         Obstacle(loop.queue[1]).lease = "granted", Begin(loop.queue[1])
  PROVE  BudgetInv'
<1> DEFINE t == loop.queue[1]
           fs == IF t \in Tests THEN loop.files \cup {File[t]} ELSE loop.files
<1>1. /\ receipts' = receipts /\ leases' = leases /\ pc' = "launch" /\ cmd'.task = t
      /\ loop' = [loop EXCEPT !.files = fs]
  BY DEF Begin, known
<1>2. /\ LoopTyped /\ LeasesSound /\ Cardinality(FilesOf(leases)) <= Total.files
      /\ LoopSound
  BY DEF BudgetInv, Resting
<1>3. t \in Tasks /\ WorkSound(book, receipts, {})
  BY AtRest, TailKeeps DEF RunInv, RunTyped, QueueSound, Resting
<1>4. /\ loop.ran < loop.budget.tasks
      /\ t \in Tests => File[t] \in loop.files \/ Cardinality(loop.files) < loop.budget.files
      /\ loop.spent + Cost(t) <= loop.budget.seconds
  BY DEF Obstacle, AllowsNext
<1>5. Cost(t) \in Nat \ {0}
  BY <1>3, CostsNat
<1> HIDE DEF t, fs
<1>6. /\ loop'.budget = loop.budget /\ loop'.ran = loop.ran /\ loop'.files = fs
      /\ loop'.spent = loop.spent
  BY <1>1 DEF RunInv, RunTyped
<1>7. Total.tasks \in Nat /\ Total.files \in Nat /\ Total.seconds \in Nat
      /\ loop.budget.tasks \in Nat /\ loop.budget.files \in Nat /\ loop.budget.seconds \in Nat
      /\ loop.ran \in Nat /\ loop.spent \in Nat
  BY <1>2, RunConstants DEF LoopTyped, Budgets
<1>8. /\ Cardinality(GrantedAt(leases)) \in Nat /\ Spending \in Nat
  BY <1>2, <1>3, GrantedFinite, SettlesNat DEF LeasesSound, WorkSound, Spending
<1>9. IsFiniteSet(fs) /\ loop.files \subseteq fs /\ (t \in Tests => File[t] \in fs)
      /\ Cardinality(fs) <= loop.budget.files
  <2>1. IsFiniteSet(loop.files) /\ Cardinality(loop.files) <= loop.budget.files
        /\ Cardinality(loop.files) \in Nat
    BY <1>2, FS_CardinalityType DEF LoopTyped, LoopSound
  <2>2. CASE t \notin Tests
    BY <2>1, <2>2 DEF fs
  <2>3. CASE t \in Tests
    <3>1. /\ IsFiniteSet(loop.files \cup {File[t]})
          /\ Cardinality(loop.files \cup {File[t]}) =
               IF File[t] \in loop.files THEN Cardinality(loop.files)
               ELSE Cardinality(loop.files) + 1
      BY <2>1, FS_AddElement
    <3> QED BY <1>4, <1>7, <2>1, <2>3, <3>1 DEF fs
  <2> QED BY <2>2, <2>3
<1>10. LoopTyped'
  BY <1>2, <1>6, <1>9 DEF LoopTyped
<1>11. LeasesSound' /\ Spending' = Spending /\ FilesOf(leases)' = FilesOf(leases)
       /\ GrantedAt(leases)' = GrantedAt(leases)
  BY <1>1, <1>2 DEF LeasesSound, Spending, FilesOf, GrantedAt
<1>12. LoopSound'
  <2>1. loop.budget.files # 0 =>
          \E earlier \in SUBSET FilesOf(leases) :
            /\ FilesOf(leases) \subseteq earlier \cup fs
            /\ Cardinality(earlier) + loop.budget.files <= Total.files
    <3>1. loop.budget.files # 0 =>
            \E earlier \in SUBSET FilesOf(leases) :
              /\ FilesOf(leases) \subseteq earlier \cup loop.files
              /\ Cardinality(earlier) + loop.budget.files <= Total.files
      BY <1>2 DEF LoopSound
    <3> QED BY <1>9, <3>1
  <2> QED BY <1>2, <1>6, <1>9, <1>11, <2>1 DEF LoopSound
<1>13. CommandFits'
  <2>1. /\ loop.budget.seconds + Spending = Total.seconds + loop.spent
        /\ loop.budget.tasks + Cardinality(GrantedAt(leases)) = Total.tasks + loop.ran
    BY <1>2, <1>4, <1>5, <1>7 DEF LoopSound
  <2>2. /\ Spending + Cost(t) <= Total.seconds
        /\ Cardinality(GrantedAt(leases)) + 1 <= Total.tasks
    <3>1. \A v, c, total, spent, b \in Nat :
            b + v = total + spent /\ spent + c <= b => v + c <= total
      OBVIOUS
    <3>2. \A g, total, ran, b \in Nat : b + g = total + ran /\ ran < b => g + 1 <= total
      OBVIOUS
    <3>3. Spending + Cost(t) <= Total.seconds
      BY <1>4, <1>5, <1>7, <1>8, <2>1, <3>1, SMTT(60)
    <3>4. Cardinality(GrantedAt(leases)) + 1 <= Total.tasks
      BY <1>4, <1>7, <1>8, <2>1, <3>2
    <3> QED BY <3>3, <3>4
  <2>3. Cost(cmd.task)' = Cost(t) /\ File[cmd.task]' = File[t]
    BY <1>1 DEF Cost, Commands
  <2> QED BY <1>1, <1>6, <1>9, <1>11, <2>2, <2>3 DEF CommandFits
<1> QED BY <1>2, <1>10, <1>11, <1>12, <1>13 DEF BudgetInv

\* What happens while a command is at hand leaves the budget alone, until the
\* task concludes.
LEMMA BudgetWaits ==
  ASSUME RunInv, BudgetInv, RunInv', pc \in Busy,
         \/ pc' \in Busy /\ cmd'.task = cmd.task /\ UNCHANGED <<loop, known>>
         \/ \E rows, result : Concludes(rows, result)
         \/ pc' = "failed"
  PROVE  BudgetInv'
<1>1. CASE pc' \in Busy /\ cmd'.task = cmd.task /\ UNCHANGED <<loop, known>>
  <2>1. receipts \in Seq(Receipts)
    BY AtWork DEF WorkSound
  <2>2. pc' # "loop" /\ loop' = loop /\ receipts' = receipts /\ leases' = leases
    BY <1>1 DEF Busy, known
  <2> QED BY <1>1, <2>1, <2>2, BudgetStays
<1>2. CASE \E rows, result : Concludes(rows, result)
  BY <1>2, BudgetConcludes
<1>3. CASE pc' = "failed"
  BY <1>3 DEF BudgetInv, Resting, Busy
<1> QED BY <1>1, <1>2, <1>3

LEMMA RowWaits ==
  ASSUME NEW row, Row(row), RunTyped
  PROVE  \/ pc' \in Busy /\ cmd'.task = cmd.task /\ UNCHANGED <<loop, known>>
         \/ \E rows, result : Concludes(rows, result)
<1>1. CASE Kind[cmd.task] = "red_green" /\ ~OnBase /\ row.status = "passed"
  <2> DEFINE rows == Append(cmd.rows, row)
  <2>1. cmd' = [cmd EXCEPT !.rows = rows] /\ pc' = "base" /\ UNCHANGED <<loop, known>>
    BY <1>1 DEF Row
  <2>2. cmd = [task |-> cmd.task, side |-> cmd.side, rows |-> cmd.rows]
    BY DEF RunTyped
  <2> HIDE DEF rows
  <2>3. cmd'.task = cmd.task
    BY <2>1, <2>2
  <2> QED BY <2>1, <2>3 DEF Busy
<1>2. CASE ~(Kind[cmd.task] = "red_green" /\ ~OnBase /\ row.status = "passed")
  BY <1>2 DEF Row
<1> QED BY <1>1, <1>2

LEMMA EndsWait ==
  ASSUME NEW told, NEW untold, NEW row, Ends(told, untold, row), RunTyped
  PROVE  \/ pc' \in Busy /\ cmd'.task = cmd.task /\ UNCHANGED <<loop, known>>
         \/ \E rows, result : Concludes(rows, result)
         \/ pc' = "failed"
<1>1. Row(row) \/ \E b : Fail(b)
  BY DEF Ends
<1> QED BY <1>1, RowWaits DEF Fail

LEMMA PhasesBudget ==
  ASSUME RunInv, BudgetInv,
         \/ OpenInitial \/ OpenSeeded \/ LanesAsk \/ OpenRequests \/ OpenFollowUp
         \/ PlanBuilds \/ ClosePhase
  PROVE  BudgetInv'
<1>1. pc \in Resting /\ pc \notin Busy
  BY DEF OpenInitial, OpenSeeded, LanesAsk, OpenRequests, OpenFollowUp, PlanBuilds, ClosePhase,
         Resting, Busy
<1>2. /\ WorkSound(book, receipts, {}) /\ receipts \in Seq(Receipts)
  BY <1>1, AtRest DEF WorkSound
<1>3. ASSUME NEW name, NEW rs, Open(name, rs), UNCHANGED known
      PROVE  BudgetInv'
  <2> DEFINE q == Among(Chosen(name, rs, BudgetNow, left').chosen, Tests)
  <2>1. loop' = [NoLoop EXCEPT !.budget = BudgetNow, !.queue = q] /\ pc' = "loop"
        /\ receipts' = receipts /\ leases' = leases
    BY <1>3 DEF Open, known
  <2> HIDE DEF q
  <2>2. loop' = [queue |-> q, budget |-> BudgetNow, ran |-> 0, files |-> {}, spent |-> 0]
    BY <2>1 DEF NoLoop
  <2> QED BY <1>1, <2>1, <2>2, LoopStarts
<1>4. ASSUME pc' \notin Busy \cup {"loop"}, loop' = loop, UNCHANGED known
      PROVE  BudgetInv'
  BY <1>1, <1>2, <1>4, BudgetStays DEF known
<1>5. CASE OpenInitial
  BY <1>3, <1>5 DEF OpenInitial
<1>6. CASE OpenFollowUp
  BY <1>3, <1>6 DEF OpenFollowUp
<1>7. CASE OpenSeeded \/ OpenRequests
  <2>1. UNCHANGED known /\ (\/ Open("seeded", Seeds) \/ Open("model", asked)
                            \/ Skip("model") \/ Skip("followup"))
    BY <1>7 DEF OpenSeeded, OpenRequests
  <2>2. ASSUME Skip("model") \/ Skip("followup") PROVE BudgetInv'
    <3>1. pc' \notin Busy \cup {"loop"} /\ loop' = loop
      BY <2>2 DEF Skip, Busy
    <3> QED BY <1>4, <2>1, <3>1
  <2> QED BY <1>3, <2>1, <2>2
<1>8. CASE LanesAsk
  <2>1. /\ receipts' = Attributed(receipts, asked') /\ leases' = leases /\ loop' = loop
        /\ pc' = "request"
    BY <1>8 DEF LanesAsk
  <2>2. RunInv'
    BY <1>8, LanesAsked
  <2>3. receipts' \in Seq(Receipts)
    BY <2>1, <2>2 DEF RunInv, Working0, WorkSound
  <2>4. DOMAIN receipts' = DOMAIN receipts
    BY <2>1 DEF Attributed
  <2>5. ASSUME NEW i \in DOMAIN receipts
        PROVE  /\ receipts'[i].id = receipts[i].id
               /\ SpentSeconds(receipts'[i]) = SpentSeconds(receipts[i])
    <3>1. receipts[i] \in Receipts
      BY <1>2
    <3>2. /\ receipts'[i].id = receipts[i].id /\ receipts'[i].kind = receipts[i].kind
          /\ receipts'[i].rows = receipts[i].rows
      BY <2>1, <3>1 DEF Attributed, Receipts
    <3> QED BY <3>2 DEF SpentSeconds, Sides, SidesRun
  <2>6. Settles(receipts') = Settles(receipts)
    BY <2>4, <2>5 DEF Settles
  <2>7. Len(receipts') = Len(receipts)
    BY <1>2, <2>3, <2>4
  <2>8. pc' # "loop" /\ pc' \notin Busy
    BY <2>1 DEF Busy
  <2> QED BY <1>1, <1>2, <2>1, <2>3, <2>5, <2>6, <2>7, <2>8, BudgetStays
<1>9. CASE PlanBuilds
  <2> DEFINE q == Among(Chosen(phase.name, phase.requests, BudgetNow, left').chosen, Builds)
  <2>1. loop' = [NoLoop EXCEPT !.budget = BudgetNow, !.queue = q] /\ pc' = "loop"
        /\ receipts' = receipts /\ leases' = leases
    BY <1>9 DEF PlanBuilds, known
  <2> HIDE DEF q
  <2>2. loop' = [queue |-> q, budget |-> BudgetNow, ran |-> 0, files |-> {}, spent |-> 0]
    BY <2>1 DEF NoLoop
  <2> QED BY <1>1, <2>1, <2>2, LoopStarts
<1>10. CASE ClosePhase
  <2>1. pc' = NextPhase(phase.name) /\ loop' = loop /\ UNCHANGED known
    BY <1>10 DEF ClosePhase
  <2>2. phase.name \in {"initial", "seeded", "model", "followup"}
    BY DEF RunInv, RunTyped
  <2>3. pc' \in {"seeded", "model", "followup", "publish"}
    BY <2>1, <2>2 DEF NextPhase
  <2>4. pc' \notin Busy \cup {"loop"}
    BY <2>3 DEF Busy
  <2> QED BY <1>4, <2>1, <2>4
<1> QED BY <1>5, <1>6, <1>7, <1>8, <1>9, <1>10

LEMMA CommandsBudget ==
  ASSUME RunInv, BudgetInv, RunInv',
         TakeNext \/ FailPaths \/ Spawn \/ FailSpawn \/ Exit \/ LoseChild \/ BeginBase
  PROVE  BudgetInv'
<1>1. CASE TakeNext
  <2>1. pc = "loop" /\ loop.queue # << >>
        /\ \/ Obstacle(loop.queue[1]).lease = "granted" /\ Begin(loop.queue[1])
           \/ Obstacle(loop.queue[1]).lease # "granted"
              /\ Decline(loop.queue[1], Obstacle(loop.queue[1]))
           \/ \E b : Fail(b)
    BY <1>1 DEF TakeNext
  <2>2. ASSUME NEW b, Fail(b) PROVE BudgetInv'
    BY <2>2 DEF Fail, BudgetInv, Resting, Busy
  <2> QED BY <2>1, <2>2, BudgetBegins, BudgetDeclines
<1>2. CASE FailPaths \/ LoseChild
  <2>1. pc' = "failed"
    BY <1>2 DEF FailPaths, LoseChild, Fail
  <2> QED BY <2>1 DEF BudgetInv, Resting, Busy
<1>3. CASE Spawn
  <2>1. pc \in Busy /\ pc' \in Busy /\ cmd'.task = cmd.task /\ UNCHANGED <<loop, known>>
    BY <1>3 DEF Spawn, Busy
  <2> QED BY <2>1, BudgetWaits
<1>4. CASE FailSpawn
  <2>1. pc \in Busy
    BY <1>4 DEF FailSpawn, Busy
  <2>2. \E told, untold, row : Ends(told, untold, row)
    BY <1>4 DEF FailSpawn
  <2> QED BY <2>1, <2>2, EndsWait, BudgetWaits DEF RunInv
<1>5. CASE Exit
  <2>1. pc \in Busy
    BY <1>5 DEF Exit, Busy
  <2>2. \E told, untold, row : Ends(told, untold, row)
    BY <1>5 DEF Exit
  <2> QED BY <2>1, <2>2, EndsWait, BudgetWaits DEF RunInv
<1>6. CASE BeginBase
  <2>1. pc \in Busy
    BY <1>6 DEF BeginBase, Busy
  <2>2. \/ cmd' = [cmd EXCEPT !.side = "base-plus-tests"] /\ pc' = "launch"
           /\ UNCHANGED <<loop, known>>
        \/ \E rows, result : Concludes(rows, result)
        \/ \E b : Fail(b)
    BY <1>6 DEF BeginBase
  <2>3. cmd = [task |-> cmd.task, side |-> cmd.side, rows |-> cmd.rows]
    BY DEF RunInv, RunTyped
  <2>4. cmd' = [cmd EXCEPT !.side = "base-plus-tests"] => cmd'.task = cmd.task
    BY <2>3
  <2>5. "launch" \in Busy
    BY DEF Busy
  <2> QED BY <2>1, <2>2, <2>4, <2>5, BudgetWaits DEF Fail
<1> QED BY <1>1, <1>2, <1>3, <1>4, <1>5, <1>6

LEMMA BudgetSteps == RunInv /\ RunInv' /\ BudgetInv /\ [Next]_vars => BudgetInv'
<1> SUFFICES ASSUME RunInv, RunInv', BudgetInv, [Next]_vars PROVE BudgetInv'
  OBVIOUS
<1>1. CASE PublishReceipts \/ ReconcileReceipts \/ Terminalize \/ WriteLedger
  <2>1. pc' \in {"reconcile", "failed", "terminal", "ledger", "done"}
    BY <1>1 DEF PublishReceipts, ReconcileReceipts, Terminalize, WriteLedger, Fail
  <2> QED BY <2>1 DEF BudgetInv, Resting, Busy
<1>2. CASE UNCHANGED vars
  <2>1. /\ pc' = pc /\ cmd' = cmd /\ loop' = loop /\ receipts' = receipts /\ leases' = leases
    BY <1>2 DEF vars, known
  <2> QED BY <2>1 DEF BudgetInv, LoopTyped, LeasesSound, LoopSound, CommandFits, FilesOf,
                      GrantedAt, Spending
<1>3. CASE Next
  BY <1>1, <1>3, PhasesBudget, CommandsBudget DEF Next
<1> QED BY <1>2, <1>3

LEMMA BudgetStarts == Init => BudgetInv
<1> SUFFICES ASSUME Init PROVE BudgetInv
  OBVIOUS
<1>1. pc = "initial" /\ loop = NoLoop /\ receipts = << >> /\ leases = << >>
  BY DEF Init
<1>2. LoopTyped
  BY <1>1, RunConstants, FS_EmptySet DEF LoopTyped, NoLoop, Budgets
<1>3. LeasesSound
  BY <1>1 DEF LeasesSound
<1>4. FilesOf(leases) = {}
  BY <1>1 DEF FilesOf, GrantedAt
<1>5. Cardinality(FilesOf(leases)) <= Total.files
  BY <1>4, FS_EmptySet, RunConstants
<1> QED BY <1>1, <1>2, <1>3, <1>5 DEF BudgetInv, Busy

LEMMA TakenSettled ==
  ASSUME NEW T, WorkSound(book, receipts, T)
  PROVE  Taken \in Nat /\ Spending \in Nat /\ Taken <= TicksPerSecond * Spending
<1> DEFINE f == [i \in DOMAIN receipts |-> TicksIn(receipts[i].rows)]
<1>1. /\ receipts \in Seq(Receipts) /\ \A i \in DOMAIN receipts : Whole(receipts[i])
      /\ DOMAIN receipts = 1 .. Len(receipts) /\ Len(receipts) \in Nat
  BY DEF WorkSound
<1>2. /\ Settles(receipts) \in Seq(Nat) /\ Len(Settles(receipts)) = Len(receipts)
      /\ \A i \in 1 .. Len(receipts) : Settles(receipts)[i] = SpentSeconds(receipts[i])
  BY <1>1, SettlesNat
<1>3. \A i \in 1 .. Len(receipts) :
        /\ TicksIn(receipts[i].rows) \in Nat
        /\ TicksIn(receipts[i].rows) <= TicksPerSecond * SpentSeconds(receipts[i])
  BY <1>1, WholeSettles
<1>4. f \in [1 .. Len(receipts) -> Nat]
      /\ \A i \in 1 .. Len(receipts) : f[i] = TicksIn(receipts[i].rows)
  BY <1>1, <1>3
<1>5. Taken = Summed(f)
  BY DEF Taken, TicksIn
<1> HIDE DEF f
<1>6. f \in Seq(Nat) /\ Len(f) = Len(receipts)
  <2>1. \A n \in Nat : \A h \in [1 .. n -> Nat] : h \in Seq(Nat) /\ Len(h) = n
    OBVIOUS
  <2> QED BY <1>1, <1>4, <2>1
<1>7. \A i \in 1 .. Len(f) : f[i] <= TicksPerSecond * Settles(receipts)[i]
  BY <1>2, <1>3, <1>4, <1>6
<1>8. TicksPerSecond \in Nat
  BY PortfolioConstants
<1> QED BY <1>2, <1>5, <1>6, <1>7, <1>8, SummedLeast DEF Spending

LEMMA HonouredNow == RunInv /\ BudgetInv => BudgetHonoured
<1> SUFFICES ASSUME RunInv, BudgetInv, pc \in Busy
             PROVE  /\ Taken + Cost(cmd.task) * TicksPerSecond <= Total.seconds * TicksPerSecond
                    /\ Cardinality(RanTasks) <= Total.tasks
                    /\ Cardinality({File[t] : t \in RanTasks \cap Tests}) <= Total.files
  BY DEF BudgetHonoured, Busy
<1> DEFINE u == cmd.task
<1>1. /\ LoopTyped /\ LeasesSound /\ Cardinality(FilesOf(leases)) <= Total.files
      /\ LoopSound /\ CommandFits
  BY DEF BudgetInv
<1>2. u \in Tasks /\ WorkSound(book, receipts, {u})
  BY AtWork
<1>3. Total.tasks \in Nat /\ Total.files \in Nat /\ Total.seconds \in Nat
      /\ TicksPerSecond \in Nat \ {0} /\ Cost(u) \in Nat
  BY <1>2, RunConstants, PortfolioConstants, CostsNat
<1>4. Taken + Cost(u) * TicksPerSecond <= Total.seconds * TicksPerSecond
  <2>1. Taken \in Nat /\ Spending \in Nat /\ Taken <= TicksPerSecond * Spending
    BY <1>2, TakenSettled
  <2>2. Spending + Cost(u) <= Total.seconds
    BY <1>1 DEF CommandFits
  <2>3. \A a, b, c, k \in Nat : a + b <= c => k * a + b * k <= c * k
    <3>1. \A d, k \in Nat : d * k >= 0 /\ d * k \in Nat
      OBVIOUS
    <3>2. ASSUME NEW a \in Nat, NEW b \in Nat, NEW c \in Nat, NEW k \in Nat, a + b <= c
          PROVE  k * a + b * k <= c * k
      <4> DEFINE d == c - a - b
      <4>1. d \in Nat /\ c = a + b + d
        BY <3>2
      <4> HIDE DEF d
      <4>2. c * k = k * a + b * k + d * k
        BY <4>1
      <4>3. d * k \in Nat /\ k * a \in Nat /\ b * k \in Nat
        BY <4>1, <3>1
      <4> QED BY <4>2, <4>3
    <3> QED BY <3>2
  <2>4. TicksPerSecond * Spending + Cost(u) * TicksPerSecond <= Total.seconds * TicksPerSecond
    BY <1>3, <2>1, <2>2, <2>3
  <2>5. TicksPerSecond * Spending \in Nat /\ Cost(u) * TicksPerSecond \in Nat
        /\ Total.seconds * TicksPerSecond \in Nat
    BY <1>3, <2>1
  <2> QED BY <2>1, <2>4, <2>5
<1> DEFINE G == GrantedAt(leases)
           f == [i \in G |-> leases[i].task]
           before == {f[i] : i \in G}
<1>5. IsFiniteSet(G) /\ Cardinality(G) \in Nat /\ G \subseteq DOMAIN leases
  BY <1>1, GrantedFinite DEF LeasesSound, GrantedAt
<1>6. RanTasks = before \cup {u}
  BY DEF RanTasks
<1>7. Cardinality(G) + 1 <= Total.tasks
  BY <1>1 DEF CommandFits
<1>8. DOMAIN f = G
  OBVIOUS
<1>9. {File[t] : t \in RanTasks \cap Tests}
        = FilesOf(leases) \cup (IF u \in Tests THEN {File[u]} ELSE {})
  BY <1>6 DEF FilesOf
<1> HIDE DEF G, f
<1>10. IsFiniteSet(before) /\ Cardinality(before) <= Cardinality(G) /\ Cardinality(before) \in Nat
  BY <1>5, <1>8, ImageBounded
<1> HIDE DEF before
<1>11. Cardinality(RanTasks) <= Total.tasks
  <2>1. /\ Cardinality(before \cup {u}) = IF u \in before THEN Cardinality(before)
                                          ELSE Cardinality(before) + 1
    BY <1>10, FS_AddElement
  <2> QED BY <1>3, <1>5, <1>6, <1>7, <1>10, <2>1
<1>12. Cardinality({File[t] : t \in RanTasks \cap Tests}) <= Total.files
  <2>1. CASE u \notin Tests
    BY <1>1, <1>9, <2>1
  <2>2. CASE u \in Tests
    <3>1. File[u] \in loop.files /\ leases \in Seq(LeaseRecords)
      BY <1>1, <2>2 DEF CommandFits, LeasesSound
    <3>2. FilesOf(leases) \cup {File[u]} \in SUBSET (FilesOf(leases) \cup {File[u]})
      OBVIOUS
    <3> QED BY <1>1, <1>9, <2>2, <3>1, <3>2, FilesBounded
  <2> QED BY <2>1, <2>2
<1> QED BY <1>4, <1>11, <1>12

\* Over all phases the commands that are run fit the profile's seconds, tasks
\* and test files (settled_focused_proof_budget, the checks before each task).
THEOREM BudgetAlwaysHonoured == Spec => []BudgetHonoured
<1>1. RunInv /\ BudgetInv => BudgetHonoured
  BY HonouredNow
<1>2. RunInv /\ RunInv' /\ BudgetInv /\ [Next]_vars => BudgetInv'
  BY BudgetSteps
<1> QED BY <1>1, <1>2, RunAlwaysSound, BudgetStarts, PTL DEF Spec

================================================================================

------------------------------ MODULE IssueBroker ------------------------------
(***************************************************************************)
(* What the run lets the post command open: issue_broker.rs, from the      *)
(* follow-up candidates of the lanes to the broker plan.  A candidate is   *)
(* [fp, target, valid, renders]: its fingerprint (target, kind and         *)
(* normalized title), the repository it is about, whether it meets the bar *)
(* to exist, and whether the issue posture lets it render.                 *)
(***************************************************************************)
EXTENDS Naturals, Sequences, FiniteSets

CONSTANTS OpenIn, OpenCap

ASSUME BrokerAssumption == OpenCap \in Nat

EarlierTwin(cands, i) ==
  {j \in 1 .. i - 1 : cands[j].valid /\ cands[j].fp = cands[i].fp}

\* classify_issue_candidates(): "suggested" ones, every other is invalid, a
\* duplicate or stays in the artifacts.
Suggested(cands) ==
  {i \in DOMAIN cands : cands[i].valid /\ EarlierTwin(cands, i) = {} /\ cands[i].renders}

Allowed(cands) == {i \in Suggested(cands) : cands[i].target \in OpenIn}

\* open_cap counts attempts, in the order of the ledger.
MayAttempt(cands) ==
  {i \in Allowed(cands) : Cardinality({j \in Allowed(cands) : j < i}) < OpenCap}

InOrder(S) ==
  CHOOSE o \in [1 .. Cardinality(S) -> S] : \A a, b \in DOMAIN o : a < b => o[a] < o[b]

\* build_issue_broker_plan(): nothing is dropped, what may not be attempted is
\* a skip.
BrokerPlan(cands) ==
  LET order == InOrder(Suggested(cands))
      Entry(i) == [fp |-> cands[i].fp, target |-> cands[i].target,
                   decision |-> IF i \in MayAttempt(cands) THEN "attempt" ELSE "skip"]
  IN [k \in DOMAIN order |-> Entry(order[k])]
================================================================================

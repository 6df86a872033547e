------------------------------ MODULE TaskAccount ------------------------------
(***************************************************************************)
(* What the task ledger promises about one task, without its lifecycle     *)
(* detail: a task is offered once; it either is declined without ever      *)
(* holding a resource, or holds its resources until an execution outcome   *)
(* is known, a receipt has been attempted for it, and they are released.   *)
(***************************************************************************)
CONSTANTS Tasks, Outcomes

VARIABLES
  account,   \* account[t]: where the task's resources stand
  outcome    \* outcome[t]: its execution outcome, "none" until it is known

vars == <<account, outcome>>

Init ==
  /\ account = [t \in Tasks |-> "unknown"]
  /\ outcome = [t \in Tasks |-> "none"]

Move(t, from, to) ==
  /\ account[t] = from
  /\ account' = [account EXCEPT ![t] = to]

Offer(t)   == Move(t, "unknown", "offered") /\ UNCHANGED outcome
Decline(t) == Move(t, "offered", "declined") /\ UNCHANGED outcome
Acquire(t) == Move(t, "offered", "holding") /\ UNCHANGED outcome

Conclude(t, o) ==
  /\ account[t] = "holding" /\ outcome[t] = "none"
  /\ outcome' = [outcome EXCEPT ![t] = o]
  /\ UNCHANGED account

Attest(t)  == outcome[t] # "none" /\ Move(t, "holding", "attested") /\ UNCHANGED outcome
Release(t) == Move(t, "attested", "released") /\ UNCHANGED outcome

Next ==
  \E t \in Tasks :
    \/ Offer(t) \/ Decline(t) \/ Acquire(t) \/ Attest(t) \/ Release(t)
    \/ \E o \in Outcomes : Conclude(t, o)

Spec == Init /\ [][Next]_vars
================================================================================

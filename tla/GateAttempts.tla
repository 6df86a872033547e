------------------------------ MODULE GateAttempts ------------------------------
(***************************************************************************)
(* What an attempt of the gate workflow promises, whatever it does inside: *)
(* it records at most one verdict in its gate_outcome.json, and where the  *)
(* gate is enforced it ends green only with the verdict "pass".  ReviewJob *)
(* implements this; GateWatchdog reads attempts that behave like it.       *)
(***************************************************************************)
CONSTANTS Attempts, Enforcement

VARIABLES phase, recorded, enforced

attempts == <<phase, recorded, enforced>>

Outcomes == {"pass", "fail", "inconclusive"}

AttemptInit ==
  /\ phase = [a \in Attempts |-> "none"]
  /\ recorded = [a \in Attempts |-> "none"]
  /\ enforced \in [Attempts -> Enforcement]

StartAttempt(a) ==
  /\ phase[a] = "none"
  /\ phase' = [phase EXCEPT ![a] = "working"]
  /\ UNCHANGED <<recorded, enforced>>

\* A verdict is recorded, or its file is cut short.
RecordOutcome(a) ==
  /\ phase[a] = "working" /\ recorded[a] = "none"
  /\ \E v \in Outcomes \cup {"torn"} : recorded' = [recorded EXCEPT ![a] = v]
  /\ UNCHANGED <<phase, enforced>>

\* cmd_gate_check() as the last step of an attempt that went well so far.
MayBeGreen(a) ==
  /\ recorded[a] \in Outcomes
  /\ enforced[a] => recorded[a] = "pass"

EndAttempt(a) ==
  /\ phase[a] = "working"
  /\ \/ MayBeGreen(a) /\ phase' = [phase EXCEPT ![a] = "success"]
     \/ \E c \in {"failure", "cancelled"} : phase' = [phase EXCEPT ![a] = c]
  /\ UNCHANGED <<recorded, enforced>>

AttemptNext == \E a \in Attempts : StartAttempt(a) \/ RecordOutcome(a) \/ EndAttempt(a)

AttemptSpec == AttemptInit /\ [][AttemptNext]_attempts
================================================================================

------------------------------ MODULE MCGateWatchdog ------------------------------
(***************************************************************************)
(* A run with two attempts, a second run, and a head that may move.        *)
(***************************************************************************)
EXTENDS GateWatchdog

MCAttempts    == {<<1, 1>>, <<1, 2>>, <<2, 1>>}
MCHeads       == {1, 2}
MCEnforcement == BOOLEAN
================================================================================

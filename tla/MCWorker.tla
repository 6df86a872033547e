-------------------------------- MODULE MCWorker --------------------------------
(***************************************************************************)
(* Instances of the standalone worker: an ordinary request, a sanitizer    *)
(* witness, which needs nightly, and one nothing stands for.               *)
(***************************************************************************)
EXTENDS Worker

MCNeeds == [r \in 1 .. 3 |-> <<"nothing", "nightly", "impossible">>[r]]
================================================================================

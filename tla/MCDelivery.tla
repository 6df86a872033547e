----------------------------- MODULE MCDelivery -----------------------------
(* Every plan over a few items, posted by two executions, for TLC.         *)
EXTENDS Delivery
=============================================================================

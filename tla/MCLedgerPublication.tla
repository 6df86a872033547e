------------------------ MODULE MCLedgerPublication ------------------------
(* Three publishing runs over one reused directory, for TLC.      *)
EXTENDS LedgerPublication
=============================================================================

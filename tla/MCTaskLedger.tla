------------------------------ MODULE MCTaskLedger ------------------------------
(***************************************************************************)
(* The replay of a short stream about one task: three instants, two        *)
(* consumers' metadata, a stale revision, and reservation lists with a     *)
(* repeated class and a zero unit count among them.                        *)
(***************************************************************************)
EXTENDS TaskLedger

Cpu(n)  == [class |-> "Cpu", units |-> n]
Disk(n) == [class |-> "Disk", units |-> n]

MCInstants     == 0 .. 2
MCReservations == {<< >>, <<Cpu(1), Disk(2)>>, <<Cpu(1), Cpu(2)>>, <<Disk(0)>>}
================================================================================

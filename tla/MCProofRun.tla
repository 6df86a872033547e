------------------------------- MODULE MCProofRun -------------------------------
(***************************************************************************)
(* Instances of the proof work of a run.  Task 1 is a test file the diff   *)
(* changed, 2 a target of the impact plan, 3 the red/green form of that    *)
(* target and 4 a build, which only requests name.                         *)
(***************************************************************************)
EXTENDS ProofRun

MCTasks     == 1 .. 4
MCKind      == <<"red_green", "head", "red_green", "build">>
MCFile      == <<"a", "b", "b", "c">>
MCAllowance == <<1, 1, 1, 1>>
\* Requests: 11 and 12 of the planner, 13 of a lane, 14 of a follow-up.
MCTarget    == [r \in 11 .. 14 |-> CASE r = 12 -> 4 [] r \in {11, 13} -> 1 [] r = 14 -> 3]
MCStanding  == [r \in 11 .. 14 |-> "requested"]
MCSeeds     == <<11, 12>>
MCLanes     == <<13>>
MCFollowUps == <<14>>
MCTotal     == [tasks |-> 4, files |-> 4, seconds |-> 5]

\* Everything allowed, then something missing.
Usual      == [tests |-> TRUE, builds |-> TRUE, dry |-> FALSE, box |-> TRUE, wave |-> TRUE]
MCSettings == {Usual, [Usual EXCEPT !.wave = FALSE, !.builds = FALSE],
               [Usual EXCEPT !.tests = FALSE], [Usual EXCEPT !.dry = TRUE],
               [Usual EXCEPT !.box = FALSE]}

\* An earlier run required the task that now only a follow-up names.
Left(head)  == [head |-> head, entries |-> [t \in {3} |->
                  [Decision(3, "selected", <<14>>, {}) EXCEPT !.required = TRUE]]]
MCEndings   == {[outcome |-> "passed", ticks |-> 0], [outcome |-> "failed", ticks |-> 8],
                [outcome |-> "signalled", ticks |-> 1], [outcome |-> "timed_out", ticks |-> 1],
                [outcome |-> "cancelled", ticks |-> 0]}
MCLeftovers == {Left(ThisHead), Left("other head")}

================================================================================

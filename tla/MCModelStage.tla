------------------------------ MODULE MCModelStage ------------------------------
(***************************************************************************)
(* Wide: a plain lane, the opposition and a fast lane, called two at a     *)
(* time, one of them on OpenCode, with a budget that starves retries.      *)
(* Deep: one lane, with budgets that end in every later pass.              *)
(***************************************************************************)
EXTENDS ModelStage

MCLimit == [minimax |-> 0, opencode |-> 1]

Wide == [lanes |-> <<"tests", "opposition", "summary-pressure">>, auto |-> TRUE,
         policy |-> "primary-with-fallback", keys |-> Providers, budget |-> 2,
         planner |-> TRUE, old |-> "old", tasks |-> << >>]
Deep == [Wide EXCEPT !.lanes = <<"tests">>, !.budget = 9, !.tasks = <<"task">>]

MCSetups ==
  {[Wide EXCEPT !.budget = b, !.planner = FALSE] : b \in {2, 4}}
  \cup {[Wide EXCEPT !.policy = p, !.keys = k] :
          p \in Policies, k \in {Providers, {"minimax"}, {}}}
  \cup {[Deep EXCEPT !.budget = b] : b \in 3 .. 9}
  \cup {[Deep EXCEPT !.auto = a, !.old = o] : a \in BOOLEAN, o \in {"none", "old_head"}}

\* The reporter names a lane as it is, in other words, or one there is not.
Asks(l, e) == [lane |-> l, exact |-> e]
MCQuestions == {<< >>, <<Asks("tests", TRUE), Asks("refuter", TRUE)>>,
                <<Asks("nobody", TRUE), Asks("proof-planner", TRUE)>>}
MCNamings   == {<<Asks("tests", FALSE)>>}
================================================================================

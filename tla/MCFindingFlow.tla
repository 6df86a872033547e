---------------------------- MODULE MCFindingFlow ----------------------------
(* Three lanes, the third of which may not comment, and the sensor; two     *)
(* claims in three places, for TLC.                                         *)
EXTENDS FindingFlow

P == <<1, 1>>
Q == <<1, 2>>

Finding(kind, lane, at, claim, ev, grade, fit, word, status, key) ==
  [id |-> 0, kind |-> kind, lane |-> lane, at |-> at, claim |-> claim, ev |-> ev,
   grade |-> grade, fit |-> fit, word |-> word, status |-> status, key |-> key]
Comment(lane, at, claim, ev, grade, fit) ==
  Finding("comment", lane, at, claim, ev, grade, fit, "plain", "open", 0)
Sum(lane, claim, ev, grade, fit, word) ==
  Finding("summary", lane, NoPlace, claim, ev, grade, fit, word, "open", 0)
Obs(lane, at, claim, status, key) ==
  Finding("observation", lane, at, claim, <<1>>, 1, "fit", "plain", status, key)

MCOffers ==
  { Comment(1, P, 1, <<1>>, 2, "fit"),
    Comment(1, Q, 1, <<2>>, 1, "fit"),
    Comment(2, P, 2, <<2>>, 2, "fit"),
    Comment(2, P, 1, <<1>>, 2, "long"),
    Comment(2, Q, 2, <<>>, 1, "unfit"),
    Comment(3, P, 1, <<1>>, 1, "fit"),
    Comment(4, P, 2, <<1>>, 1, "fit"),
    Comment(4, Q, 2, <<1>>, 1, "premise"),
    Sum(1, 1, <<1>>, 1, "fit", "plain"),
    Sum(1, 1, <<2>>, 1, "fit", "plain"),
    Sum(1, 2, <<1>>, 0, "fit", "polish"),
    Sum(2, 1, <<1>>, 0, "fit", "refuted"),
    Sum(2, 3, <<1>>, 1, "unfit", "plain"),
    Obs(1, P, 1, "open", 1),
    Obs(2, P, 2, "refuted", 1),
    Obs(2, P, 1, "resolved-check", 2) }

\* The lane of a reply is that of its task.
MCReplies ==
  { <<Obs(0, P, 1, "refuted", 1)>>,
    <<Sum(0, 2, <<1>>, 1, "fit", "parked")>>,
    <<Obs(0, NoPlace, 2, "covered", 2), Sum(0, 1, <<1>>, 1, "fit", "plain")>>,
    <<Obs(0, NoPlace, 2, "covered", 2), Sum(0, 1, <<1>>, 1, "fit", "refuted")>> }

MCThreads ==
  { [at |-> P, claim |-> 1, current |-> TRUE, tradeoff |-> FALSE],
    [at |-> P, claim |-> 1, current |-> FALSE, tradeoff |-> FALSE],
    [at |-> P, claim |-> 2, current |-> TRUE, tradeoff |-> TRUE] }

\* Claims 1 and 2 share their words; 2 says what 1 says in other words.
MCShares == {<<0, 0>>, <<1, 1>>, <<2, 2>>, <<1, 2>>, <<2, 1>>}
MCRestates == {<<1, 1>>, <<1, 2>>, <<2, 1>>}
MCClashes == {<<1, 1>>, <<2, 1>>, <<1, 2>>, <<2, 0>>}
MCStrength == <<1, 3>>
MCNeed == [c \in 0..3 |-> IF c = 3 THEN "proof" ELSE "summary"]
==============================================================================

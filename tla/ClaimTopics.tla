----------------------------- MODULE ClaimTopics -----------------------------
(***************************************************************************)
(* The claim graph of one run: which claims its observations and surfaces  *)
(* make, which of them contradict each other and which side loses, and     *)
(* what the graph then takes off the public surfaces.  The receipt of the  *)
(* reduction is built from the graph on its own and may refuse it.         *)
(***************************************************************************)
EXTENDS FindingSurfaces

CONSTANTS
  Shares,    \* pairs of claims with two distinctive words in common
  Mentions,  \* pairs of claims with one distinctive word in common
  Clashes,   \* pairs of a claim and a refutation that are about the same
  Proved     \* dedupe keys that name a proof request with a receipt of this head

Overlap(t, u) == <<t.claim, u.claim>> \in Shares

(***************************************************************************)
(* Topics.                                                                 *)
(***************************************************************************)
Topic(at, family, key, lane, text, status) ==
  [id |-> <<at, family, key, text>>, at |-> at, lane |-> lane, text |-> text, status |-> status]

\* The first observation at the place of a comment that is about the same.
Matching(observations, c) ==
  Where(observations, {i \in DOMAIN observations :
                         /\ observations[i].at = c.at /\ c.at # NoPlace
                         /\ Overlap(observations[i].text, c.text)})

\* A comment takes the family and mechanism of the observation it matches;
\* the graph keeps its own text as the subject, topic_claim_id_for_inline()
\* takes the observation's.
InlineTopic(c, observations) ==
  LET m == Matching(observations, c)
  IN  IF m = <<>> THEN Topic(c.at, "inline", c.text, c.lane, c.text, "confirmed")
                  ELSE Topic(c.at, "observed", m[1].key, c.lane, c.text, "confirmed")
InlineClaim(c, observations) ==
  LET m == Matching(observations, c)
      t == InlineTopic(c, observations)
  IN  IF m = <<>> THEN t.id ELSE [t.id EXCEPT ![4] = m[1].text]

SummaryTopic(s) == Topic(NoPlace, "summary", s.text, s.lane, s.text, "supported")

\* The seeds in order; the first with an id is the topic.
Topics(observations, comments, summaries) ==
  LET seeds == [i \in DOMAIN observations |->
                  LET o == observations[i]
                  IN  Topic(o.at, "observed", o.key, o.lane, o.text, o.status)]
               \o [i \in DOMAIN comments |-> InlineTopic(comments[i], observations)]
               \o [i \in DOMAIN summaries |-> SummaryTopic(summaries[i])]
  IN  Where(seeds, {i \in DOMAIN seeds : \A j \in 1..(i - 1) : seeds[j].id # seeds[i].id})

\* A receipt binds to a topic by the dedupe key of an observation of its lane.
Backed(t, observations) ==
  \E i \in DOMAIN observations :
    LET o == observations[i]
    IN  /\ o.lane = t.lane /\ o.at = t.at /\ Overlap(o.text, t.text)
        /\ o.key.form = "key" /\ o.key.claim \in Proved

(***************************************************************************)
(* Conflicts: a surface against a refutation from another lane.  Both      *)
(* sides always have some evidence, so only a receipt decides.             *)
(***************************************************************************)
Refutes(o) == o.status \in {"refuted", "resolved-check"}
Conflicts(s, o) == s.lane # o.lane /\ Refutes(o) /\ <<s.text.claim, o.text.claim>> \in Clashes

\* The topic with the lowest id; ids are hashes, so either end may be it.
TopicOf(topics, x, last) ==
  LET fits == SelectSeq(topics,
                        LAMBDA t : t.lane = x.lane /\ t.at = x.at /\ Overlap(t.text, x.text))
  IN  IF fits = <<>> THEN {} ELSE {IF last THEN Last(fits) ELSE Head(fits)}

\* explicit_conflict_pairs() and adjudicate_claim_graph_conflicts()
Losers(topics, observations, surfaces, last) ==
  LET conflicts == {p \in ToSet(surfaces) \X ToSet(observations) : Conflicts(p[1], p[2])}
      sides == {tu \in UNION {TopicOf(topics, p[1], last) \X TopicOf(topics, p[2], last) :
                                p \in conflicts} : tu[1].id # tu[2].id}
      backed == {t \in UNION {{tu[1], tu[2]} : tu \in sides} : Backed(t, observations)}
  IN  {l \in UNION {{tu[1], tu[2]} : tu \in {tv \in sides : backed \cap {tv[1], tv[2]} # {}}} :
         l \notin backed}

\* build_active_claim_graph(); a thread of the head that shares a word with a
\* topic at its place belongs to it, and covers it when nothing new is known.
Graph(observations, comments, summaries, threads, last) ==
  LET topics == Topics(observations, comments, summaries)
      losers == Losers(topics, observations, comments \o summaries, last)
      Threads(t) == {h \in threads : /\ h.at = t.at /\ h.current
                                     /\ <<t.text.claim, h.claim>> \in Mentions}
  IN  {LET t == topics[i]
       IN  [id |-> t.id, at |-> t.at, lane |-> t.lane, text |-> t.text,
            loser |-> t \in losers,
            threaded |-> Threads(t) # {},
            covered |-> /\ Threads(t) # {}
                        /\ \/ t \in losers
                           \/ /\ t.status # "refuted"
                              /\ \/ \E h \in Threads(t) : h.tradeoff
                                 \/ ~Backed(t, observations)] : i \in DOMAIN topics}

(***************************************************************************)
(* Reconciliation of the surfaces with the graph.                          *)
(***************************************************************************)
SamePublicClaim(c, s) == c.text = s.text

\* Faulty variant: similar words are enough.
CopiesButLoosely(kept, s) == {k \in DOMAIN kept : Overlap(kept[k].text, s.text)}

\* The kept comments that make a summary superfluous if there is just one.
Copies(kept, s) == {k \in DOMAIN kept : SamePublicClaim(kept[k], s)}

\* reconcile_public_surfaces()
ReconcileSurfaces(graph, comments, summaries) ==
  LET Concerns(t, c) == /\ t.at = c.at
                        /\ t.id = InlineClaim(c, <<>>) \/ Overlap(t.text, c.text)
      Settled(c) == \E t \in graph : Concerns(t, c) /\ (t.loser \/ t.covered)
      open == Where(comments, {i \in DOMAIN comments : ~Settled(comments[i])})
      New(i) == \A j \in 1..(i - 1) : InlineClaim(open[j], <<>>) # InlineClaim(open[i], <<>>)
      kept == Where(open, {i \in DOMAIN open : New(i)})
      Lost(s) == \E t \in graph : t.loser /\ t.lane = s.lane /\ Overlap(t.text, s.text)
  IN  [comments |-> kept,
       summaries |-> Where(summaries, {i \in DOMAIN summaries :
                             ~Lost(summaries[i]) /\ Cardinality(Copies(kept, summaries[i])) # 1})]

\* build_compiler_reconciliation_receipt(): what is gone needs a reason that
\* the graph or a retained surface gives.
ExplainedComment(graph, c, observations, after) ==
  \/ \E d \in ToSet(after.comments) : Face(d) = Face(c)
  \/ \E t \in graph : /\ t.at = c.at /\ (t.loser \/ t.threaded)
                      /\ t.id = InlineClaim(c, observations) \/ Overlap(t.text, c.text)

ExplainedSummary(graph, s, after) ==
  \/ \E r \in ToSet(after.summaries) : Face(r) = Face(s)
  \/ \E t \in graph : /\ t.lane = s.lane /\ (t.loser \/ t.threaded)
                      /\ t.id = SummaryTopic(s).id \/ Overlap(t.text, s.text)
  \/ Cardinality({k \in DOMAIN after.comments : SamePublicClaim(after.comments[k], s)}) = 1

ReceiptHolds(graph, comments, summaries, observations, after) ==
  /\ \A c \in ToSet(comments) : ExplainedComment(graph, c, observations, after)
  /\ \A s \in ToSet(summaries) : ExplainedSummary(graph, s, after)
==============================================================================

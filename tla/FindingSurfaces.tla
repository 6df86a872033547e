--------------------------- MODULE FindingSurfaces ---------------------------
(***************************************************************************)
(* The two surfaces a finding can reach the reviewer on, inline comments   *)
(* and summary-only findings, and what is done to them on the way: lane    *)
(* output is admitted, duplicates are merged, the refuter keeps, demotes   *)
(* or drops.  A text is what it says (a claim) and the form it is said in; *)
(* wording is abstracted to the relations the code decides by.             *)
(***************************************************************************)
EXTENDS Integers, SequencesExt

CONSTANTS
  CandidateOnly,  \* lanes that may not comment inline
  Strength,       \* what a piece of evidence counts for, 1 to 5
  Restates,       \* pairs of claims that are one claim in other words
  Need            \* the evidence a plain summary candidate asks for, by claim

NoPlace == <<0, 0>>     \* a place is a path and a line
NoClaim == 0            \* what machine-made text claims
Diagnostic == 0         \* the piece of evidence that is machine-made

(***************************************************************************)
(* Filters and stable sorts of lists, by their indices.                    *)
(***************************************************************************)
\* The members of I among 1 .. n, in order.
Indices(I, n) ==
  LET upto[k \in 0 .. n] == IF k = 0 THEN <<>>
                            ELSE IF k \in I THEN Append(upto[k - 1], k) ELSE upto[k - 1]
  IN  upto[n]

Taken(s, order) == [k \in DOMAIN order |-> s[order[k]]]
Where(s, I) == Taken(s, Indices(I, Len(s)))

SeqLess(s, t) ==
  \E i \in DOMAIN t : /\ \A j \in 1..(i - 1) : j \in DOMAIN s /\ s[j] = t[j]
                      /\ i \in DOMAIN s => s[i] < t[i]

\* The next index comes behind those whose key is not greater than its own.
Inserted(order, n, key) ==
  InsertAt(order, 1 + Cardinality({k \in DOMAIN order : ~SeqLess(key[n], key[order[k]])}), n)

Sorted(s, key) ==
  LET upto[n \in 0 .. Len(s)] == IF n = 0 THEN <<>> ELSE Inserted(upto[n - 1], n, key)
  IN  Taken(s, upto[Len(s)])

--------------------------------------------------------------------------------
Text(form, at, claim) == [form |-> form, at |-> at, claim |-> claim]
Own(claim) == Text("own", NoPlace, claim)

\* One record serves both surfaces; a summary has no place.  `from` is the
\* finding it stands for and is not in the code.
Surface(lane, at, text, ev, word, grade, from) ==
  [lane |-> lane, at |-> at, text |-> text, ev |-> ev, word |-> word,
   grade |-> grade, from |-> from]

\* compiler_surface_id(): everything of a surface but its grades.
Face(s) == [s EXCEPT !.grade = 0, !.from = 0]

(***************************************************************************)
(* Admission of one finding o that a lane offers.                          *)
(***************************************************************************)
Observed(o) == o.kind = "observation" \/ o.fit \in {"overclaim", "premise"}

GoesInline(o) ==
  /\ o.kind = "comment" /\ o.fit = "fit" /\ o.ev # <<>>
  /\ o.lane \notin CandidateOnly

\* A demoted comment keeps its text and place if it had evidence, else only
\* the diagnostic is left of it.
DemotedText(at, claim, ev) ==
  IF ev = <<>> THEN Text("rejected", at, NoClaim) ELSE Text("anchored", at, claim)
DemotedEvidence(ev) == Append(ev, Diagnostic)

CommentOf(o) == Surface(o.lane, o.at, Own(o.claim), o.ev, "plain", o.grade, o.id)

SummaryOf(o) ==
  LET As(text, ev, word, grade) == Surface(o.lane, NoPlace, text, ev, word, grade, o.id)
  IN  CASE o.kind = "summary" /\ o.fit = "fit" /\ o.ev # <<>> ->
             As(Own(o.claim), o.ev, o.word, o.grade)
        [] o.kind = "summary" /\ ~(o.fit = "fit" /\ o.ev # <<>>) ->
             As(Text("guarded", NoPlace, NoClaim), <<Diagnostic>>, "plain", 0)
        [] o.kind = "comment" /\ o.lane \notin CandidateOnly /\ o.fit = "long" /\ o.ev # <<>> ->
             As(Text("trailing", o.at, o.claim), o.ev, "plain", o.grade)
        [] OTHER ->
             As(DemotedText(o.at, o.claim, o.ev), DemotedEvidence(o.ev), "plain", o.grade)

\* The guards answer a refuted premise or an overclaim with a fixed claim of
\* their own.
ObservationOf(o) ==
  LET guarded == o.fit \in {"overclaim", "premise"}
  IN  [lane |-> o.lane, at |-> o.at,
       text |-> IF guarded THEN Text(o.fit, NoPlace, NoClaim) ELSE Own(o.claim),
       status |-> CASE o.fit = "premise" -> "refuted"
                    [] o.fit = "overclaim" -> "open"
                    [] OTHER -> o.status,
       key |-> IF guarded THEN Text(o.fit, NoPlace, NoClaim)
                          ELSE Text("key", NoPlace, o.key),
       from |-> o.id]

(***************************************************************************)
(* Merging duplicates.  The rank is (evidence, severity, confidence), the  *)
(* last two of which are the grade.                                        *)
(***************************************************************************)
Rank(c) == 100 * Max({Strength[c.ev[i]] : i \in DOMAIN c.ev}) + c.grade

\* compare_inline_comments()
Keys(cs) ==
  [i \in DOMAIN cs |-> <<- Rank(cs[i])>> \o cs[i].at \o <<cs[i].lane, cs[i].text.claim>> \o cs[i].ev]

Quotes(s, t) ==
  \E i \in 0..(Len(s) - Len(t)) : SubSeq(s, i + 1, i + Len(t)) = t

\* merge_duplicate_inline_evidence()
Enriched(kept, dropped) ==
  IF Quotes(kept.ev, dropped.ev) THEN kept ELSE [kept EXCEPT !.ev = @ \o dropped.ev]

\* Duplicates are merged at one place first, then by what they say in a path.
Duplicates(c, d, form) ==
  \/ form = "merged" /\ c.at = d.at
  \/ form = "restated" /\ c.at[1] = d.at[1] /\ <<c.text.claim, d.text.claim>> \in Restates

\* The next comment finds the first kept one that it duplicates; the higher
\* rank of the two is kept and the other leaves a note of that form behind.
Absorb(acc, c, form) ==
  LET twins == {i \in DOMAIN acc.kept : Duplicates(acc.kept[i], c, form)}
  IN  IF twins = {} THEN [acc EXCEPT !.kept = Append(@, c)]
      ELSE LET i == Min(twins)
               wins == Rank(c) > Rank(acc.kept[i])
               kept == IF wins THEN c ELSE acc.kept[i]
               dropped == IF wins THEN acc.kept[i] ELSE c
               note == Surface(dropped.lane, NoPlace, Text(form, dropped.at \o kept.at, NoClaim),
                               dropped.ev, "plain", dropped.grade, dropped.from)
           IN  [kept |-> [acc.kept EXCEPT ![i] = Enriched(kept, dropped)],
                notes |-> Append(acc.notes, note)]

Absorbed(first, cs, form) ==
  LET acc[n \in 0 .. Len(cs)] == IF n = 0 THEN first ELSE Absorb(acc[n - 1], cs[n], form)
  IN  acc[Len(cs)]

\* dedupe_inline_comments(): what is kept of the comments, and the notes.
Dedupe(comments) ==
  LET Places(cs) == [i \in DOMAIN cs |-> cs[i].at]
      Ranks(cs) == [i \in DOMAIN cs |-> <<- Rank(cs[i])>> \o cs[i].at]
      byPlace == Absorbed([kept |-> <<>>, notes |-> <<>>], Sorted(comments, Keys(comments)),
                          "merged")
      byClaim == Absorbed([byPlace EXCEPT !.kept = <<>>],
                          Sorted(byPlace.kept, Places(byPlace.kept)), "restated")
  IN  [byClaim EXCEPT !.kept = Sorted(@, Ranks(@))]

(***************************************************************************)
(* The refuter.  `said` maps the places it decided on to its decisions;    *)
(* a decision is used once.                                                *)
(***************************************************************************)
Demoted(c, word) ==
  Surface(c.lane, NoPlace, DemotedText(c.at, c.text.claim, c.ev),
          DemotedEvidence(c.ev), word, c.grade, c.from)

Refuted(comments, said) ==
  LET First(i) == \A j \in 1..(i - 1) : comments[j].at # comments[i].at
      Verdict(i) == IF First(i) /\ comments[i].at \in DOMAIN said
                    THEN said[comments[i].at] ELSE [verdict |-> "unsure", word |-> "plain"]
      With(v) == {i \in DOMAIN comments : Verdict(i).verdict = v}
  IN  [kept |-> Where(comments, With("inline")),
       demoted |-> Where([i \in DOMAIN comments |-> Demoted(comments[i], Verdict(i).word)],
                         With("unsure")),
       dropped |-> {comments[i].from : i \in With("drop")}]

(***************************************************************************)
(* The candidates that go on record.                                       *)
(***************************************************************************)
\* candidate_disposition_for_summary_finding()
Disposition(s) ==
  CASE s.word = "parked" -> "parked-follow-up"
    [] s.word = "refuted" -> "refuted"
    [] s.word \notin {"parked", "refuted"}
       /\ (s.text.form \in {"merged", "guarded"} \/ (s.word = "polish" /\ s.grade = 0)) -> "dropped"
    [] OTHER -> "summary-only"

\* candidate_evidence_need(): only a plain candidate asks by what it says.
EvidenceNeed(disposition, s) ==
  IF disposition = "summary-only" THEN Need[s.text.claim] ELSE disposition

\* build_candidate_records()
Candidates(comments, summaries) ==
  [i \in DOMAIN comments |->
     [kind |-> "inline", disposition |-> "inline", need |-> "inline", surface |-> comments[i]]]
  \o
  [i \in DOMAIN summaries |->
     [kind |-> "summary", disposition |-> Disposition(summaries[i]),
      need |-> EvidenceNeed(Disposition(summaries[i]), summaries[i]),
      surface |-> summaries[i]]]
==============================================================================

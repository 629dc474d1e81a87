------------------------------ MODULE MatchScore ------------------------------
(***************************************************************************)
(* The arithmetic of a match run: how process_match turns the model's       *)
(* answers into claims (worker/matching.py), the score they add up to       *)
(* (packages/scoring engine.py) and what GET /v1/matches/{id}/gaps projects *)
(* from the stored claims (projection.py).                                  *)
(*                                                                          *)
(* Decimals are integers: weights, satisfaction and corroboration count     *)
(* tenths, integrity halves, contributions their product (1/2000, so that   *)
(* quantize(0.0001) rounds none of them), scores tenths of a percent.       *)
(***************************************************************************)
EXTENDS Integers, FiniteSets, FiniteSetsExt

CONSTANTS N,              \* requirements of the job description, by ordinal
          Spans, Foreign, \* spans of the resume; a span id that is none of them
          Severity,       \* [Spans -> severities of the findings over the span]
          Catalogues,     \* the requirement lists a job description may have
          MaxCandidates   \* skills that are offered for projection

Requirements == 1..N
Severities == {"info", "suspicious", "high"}
MatchTypes == {"direct", "adjacent", "none"}

ASSUME InputsOK ==
  /\ N \in Nat \ {0} /\ MaxCandidates \in Nat
  /\ IsFiniteSet(Spans) /\ Foreign \notin Spans /\ Severity \in [Spans -> SUBSET Severities]
  /\ \A c \in Catalogues : \A r \in Requirements :
       c[r].criticality \in 1..3 /\ c[r].required \in BOOLEAN

VARIABLES catalogue,  \* [Requirements -> [criticality, required, skill]]
          claim,      \* the claims built so far, as stored
          run,        \* the summary columns of the match run
          analysis    \* the answer of the gaps endpoint

vars == <<catalogue, claim, run, analysis>>

\* What the model may say of a requirement; it may also leave it out.
RawClaims == [met : BOOLEAN, type : MatchTypes, note : BOOLEAN,
              cited : SUBSET (Spans \cup {Foreign})]

Unmet == [met |-> FALSE, type |-> "none", corroboration |-> 0, integrity |-> 2,
          contribution |-> 0]
NotYet == [score |-> -1, trusted |-> -1, delta |-> -1, unmet |-> -1]
NoAnalysis == [gaps |-> {}, category |-> <<>>, projected |-> <<>>, candidates |-> {},
               combined |-> <<>>, base |-> NotYet]

Init ==
  /\ catalogue \in Catalogues
  /\ claim = <<>>
  /\ run = NotYet
  /\ analysis = NoAnalysis

-----------------------------------------------------------------------------
(* The claims the worker builds.                                             *)

Weight(r) == catalogue[r].criticality * (IF catalogue[r].required THEN 10 ELSE 4)
Satisfaction == [direct |-> 10, adjacent |-> 6, none |-> 0]
Corroboration(spans) == Min({10, 8 + Cardinality(spans) - 1})

\* The worst severity that lies on any of the spans decides.
Integrity(spans) ==
  LET found == UNION {Severity[s] : s \in spans} IN
    IF "high" \in found THEN 0 ELSE IF "suspicious" \in found THEN 1 ELSE 2

\* An adjacent claim without a note and a claim that cites anything foreign are
\* rejected, and so is a met one that cites nothing.
\* Mutant: a rejected claim keeps the contribution its valid spans would give.
Build_KeepsContribution(r, raw) ==
  LET valid == raw.cited \ {Foreign}
      rejected == (raw.type = "adjacent" /\ ~raw.note) \/ Foreign \in raw.cited
      worth == Weight(r) * Satisfaction[raw.type] * Corroboration(valid) * Integrity(valid)
  IN IF raw.met /\ raw.type # "none" /\ ~rejected /\ valid # {}
     THEN [met |-> TRUE, type |-> raw.type, corroboration |-> Corroboration(valid),
           integrity |-> Integrity(valid), contribution |-> worth]
     ELSE [Unmet EXCEPT !.contribution = IF valid = {} THEN 0 ELSE worth]
Build(r, raw) ==
  LET valid == raw.cited \ {Foreign}
      rejected == (raw.type = "adjacent" /\ ~raw.note) \/ Foreign \in raw.cited
  IN IF raw.met /\ raw.type # "none" /\ ~rejected /\ valid # {}
     THEN [met |-> TRUE, type |-> raw.type, corroboration |-> Corroboration(valid),
           integrity |-> Integrity(valid),
           contribution |-> Weight(r) * Satisfaction[raw.type] * Corroboration(valid)
                            * Integrity(valid)]
     ELSE Unmet

-----------------------------------------------------------------------------
(* compute_match_score                                                       *)

RoundHalfEven(a, b) ==
  LET q == a \div b  rest == 2 * (a % b) IN
    IF rest > b \/ (rest = b /\ q % 2 = 1) THEN q + 1 ELSE q

Counted(cs, r) == cs[r].met /\ cs[r].type # "none"
Gains(cs, r) ==
  IF Counted(cs, r)
  THEN Weight(r) * Satisfaction[cs[r].type] * cs[r].corroboration * cs[r].integrity ELSE 0
GainsTrusted(cs, r) ==
  IF Counted(cs, r) THEN Weight(r) * Satisfaction[cs[r].type] * cs[r].corroboration * 2 ELSE 0

\* Over all requirements of the job.
Sum(worth) == MapThenSumSet(LAMBDA r : worth[r], Requirements)
TotalWeight == Sum([r \in Requirements |-> Weight(r)])

\* Mutant: only required requirements count in the denominator.
Percent_Required(sum) ==
  LET heavy == {r \in Requirements : catalogue[r].required} IN
    RoundHalfEven(5 * sum, Max({1, MapThenSumSet(Weight, heavy)}))
Percent(sum) == RoundHalfEven(5 * sum, TotalWeight)

\* Mutant: required requirements whose evidence is flagged count as met.
UnmetRequired_ByMet(cs) ==
  Cardinality({r \in Requirements : catalogue[r].required /\ ~Counted(cs, r)})
UnmetRequired(cs) ==
  Cardinality({r \in Requirements : catalogue[r].required /\ Gains(cs, r) = 0})

Result(cs) ==
  LET score == Percent(Sum([r \in Requirements |-> Gains(cs, r)]))
      trusted == Percent(Sum([r \in Requirements |-> GainsTrusted(cs, r)]))
  IN [score |-> score, trusted |-> trusted, delta |-> trusted - score,
      unmet |-> UnmetRequired(cs)]

-----------------------------------------------------------------------------
(* compute_gap_analysis                                                      *)

\* Mutant: every claim that is met is left out.
IsGap_Unmet(cs, r) == ~Counted(cs, r)
IsGap(cs, r) == Gains(cs, r) = 0 \/ Satisfaction[cs[r].type] < 10 \/ cs[r].integrity < 2

\* Mutant: the match type is looked at before the integrity.
Category_TypeFirst(c) ==
  IF c.type = "adjacent" THEN "partial"
  ELSE IF Satisfaction[c.type] > 0 /\ c.integrity < 2 THEN "unverifiable" ELSE "missing"
Category(c) ==
  IF Satisfaction[c.type] > 0 /\ c.integrity < 2 THEN "unverifiable"
  ELSE IF c.type = "adjacent" THEN "partial" ELSE "missing"

\* Mutant: what the integrity took away is not available again.
Points_Trusted(cs, r) == 200 * Weight(r) - Max({GainsTrusted(cs, r), Gains(cs, r)})
Points(cs, r) == Max({0, 200 * Weight(r) - Gains(cs, r)})

\* The claims as they would be with one clean direct span for each of clean.
Clean == [met |-> TRUE, type |-> "direct", corroboration |-> 8, integrity |-> 2,
          contribution |-> 0]
\* Mutant: the claims of the other requirements are forgotten.
Hypothetical_Alone(cs, clean) ==
  [r \in Requirements |-> IF r \in clean THEN Clean ELSE Unmet]
Hypothetical(cs, clean) == [r \in Requirements |-> IF r \in clean THEN Clean ELSE cs[r]]
Projected(cs, clean) == Result(Hypothetical(cs, clean)).score

\* The skills of the gaps in the order of their best gap, the first few of them.
Linked(gaps, skill) == {r \in gaps : catalogue[r].skill = skill}
Before(cs, r, q) == Points(cs, r) > Points(cs, q) \/ (Points(cs, r) = Points(cs, q) /\ r < q)
Candidates(cs, gaps) ==
  LET skills == {catalogue[r].skill : r \in gaps}
      ahead(s) == {t \in skills \ {s} :
        \E r \in Linked(gaps, t) : \A q \in Linked(gaps, s) : Before(cs, r, q)}
  IN {s \in skills : Cardinality(ahead(s)) < MaxCandidates}

Analysis(cs) ==
  LET gaps == {r \in Requirements : IsGap(cs, r)}
      offered == Candidates(cs, gaps)
  IN [gaps |-> gaps,
      category |-> [r \in gaps |-> Category(cs[r])],
      projected |-> [r \in gaps |-> Projected(cs, {r})],
      candidates |-> offered,
      combined |-> [S \in SUBSET offered |-> Projected(cs, UNION {Linked(gaps, s) : s \in S})],
      base |-> Result(cs)]

-----------------------------------------------------------------------------

Judged == DOMAIN claim

\* The claim for the next requirement; the model may have left it out.
Judge ==
  /\ Judged # Requirements
  /\ LET r == Cardinality(Judged) + 1 IN
       \E c \in {Build(r, raw) : raw \in RawClaims} \cup {Unmet} :
         claim' = [q \in Judged \cup {r} |-> IF q = r THEN c ELSE claim[q]]
  /\ UNCHANGED <<catalogue, run, analysis>>

Score ==
  /\ Judged = Requirements /\ run = NotYet
  /\ run' = Result(claim)
  /\ UNCHANGED <<catalogue, claim, analysis>>

Analyse ==
  /\ run # NotYet /\ analysis = NoAnalysis
  /\ analysis' = Analysis(claim)
  /\ UNCHANGED <<catalogue, claim, run>>

Next == Judge \/ Score \/ Analyse
Spec == Init /\ [][Next]_vars
-----------------------------------------------------------------------------

Scored == run # NotYet
Analysed == analysis # NoAnalysis

\* Rounding included, 0 <= score <= score_if_trusted <= 100.
ScoresInRange ==
  Scored => 0 <= run.score /\ run.score <= run.trusted /\ run.trusted <= 1000

\* The score can be reconstructed from the stored contributions, which the
\* worker computes on its own and the engine does not read.
Reconstructible ==
  Scored => run.score = Percent(Sum([r \in Requirements |-> claim[r].contribution]))

\* The count of unmet required requirements is what the gap list shows as
\* required and worth nothing, flagged evidence included.
UnmetAreGaps ==
  Analysed =>
    run.unmet = Cardinality({r \in analysis.gaps :
                  catalogue[r].required /\ claim[r].contribution = 0})

\* Whatever is not in the gap list is clean and direct: without gaps the score
\* is at least that of one clean span each.
GapsExplainLoss ==
  Analysed /\ analysis.gaps = {} => run.score >= 800 /\ run.delta = 0

\* Points lost to flagged evidence show up as an unverifiable requirement.
DeltaIsExplained ==
  Analysed /\ run.delta > 0 =>
    \E r \in analysis.gaps : analysis.category[r] = "unverifiable"

\* Closing a gap never lowers the score, and no more of it closed lowers it
\* further; the empty selection of the donut is the stored score.
ProjectionsGrow ==
  Analysed =>
    /\ analysis.base = run
    /\ \A r \in analysis.gaps : analysis.projected[r] >= run.score
    /\ analysis.combined[{}] = run.score
    /\ \A S, T \in SUBSET analysis.candidates :
         S \subseteq T => analysis.combined[S] <= analysis.combined[T]

\* No projection promises more than the points shown as available, up to the
\* rounding of both scores.
PointsBoundGain ==
  Analysed =>
    \A r \in analysis.gaps :
      (analysis.projected[r] - run.score - 1) * TotalWeight <= 5 * Points(claim, r)

\* Score and score_if_trusted survive their separate rounding, in their order and
\* range, and are those of the contributions that are stored and shown.
ScoreIsSound == ScoresInRange /\ Reconstructible

\* The gap list accounts for all the score lacks: for what is counted as unmet,
\* for not being clean and direct, and for what flagged evidence took away.
GapsExplainScore == UnmetAreGaps /\ GapsExplainLoss /\ DeltaIsExplained

\* What the page promises for closing gaps, one, some or all, is neither a loss
\* nor more than there is to gain.
ProjectionsAreHonest == ProjectionsGrow /\ PointsBoundGain
=============================================================================

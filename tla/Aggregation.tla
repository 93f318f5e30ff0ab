----------------------------- MODULE Aggregation ----------------------------
(***************************************************************************)
(* The community's recommendation for one field of a filament              *)
(* (packages/domain/src/aggregation.ts, asked for by the recommendation    *)
(* route of apps/api/src/routes.ts) while contributions come in.           *)
(*                                                                         *)
(* Numbers are exact here: quantiles are kept four times, medians twice    *)
(* and weights four times their size.  Every computation sorts its input,  *)
(* so samples is kept sorted, and their order of arrival is left out.      *)
(***************************************************************************)
EXTENDS Integers, Sequences, SequencesExt

CONSTANTS
    Values,            \* measured values
    Trusts,            \* trust scores of contributors, times four
    MaxSamples

ASSUME AggregationParameters ==
    /\ Values \subseteq Nat /\ Trusts \subseteq Nat /\ MaxSamples \in Nat

VARIABLE samples       \* the published contributions, in order of value

\* capTrust: from a quarter to three.
CapTrust(t) == IF t < 1 THEN 1 ELSE IF t > 12 THEN 12 ELSE t

AllValues(ss) == [i \in DOMAIN ss |-> ss[i].value]

\* median, twice.
Median2(s) ==
    LET mid == Len(s) \div 2
    IN IF Len(s) % 2 = 0 THEN s[mid] + s[mid + 1] ELSE 2 * s[mid + 1]

\* quantile of q quarters, four times, interpolated between neighbours.
Quantile4(s, q) ==
    LET pos == (Len(s) - 1) * q
        a == s[pos \div 4 + 1]
        b == s[IF pos \div 4 + 2 > Len(s) THEN Len(s) ELSE pos \div 4 + 2]
    IN 4 * a + (pos % 4) * (b - a)

Spread4(s) == Quantile4(s, 3) - Quantile4(s, 1)

\* Tukey's, one and a half spreads from the quartiles, eight times.
Fences(s) ==
    [low |-> 2 * Quantile4(s, 1) - 3 * Spread4(s),
     high |-> 2 * Quantile4(s, 3) + 3 * Spread4(s)]

\* Where the values are that are no outliers.
Inside(s) == {i \in DOMAIN s : Fences(s).low <= 8 * s[i] /\ 8 * s[i] <= Fences(s).high}

\* The samples that are no outliers; in order of value they follow each other.
Kept(ss) ==
    LET inside == Inside(AllValues(ss))
    IN IF Len(ss) < 4 \/ inside = {} THEN ss ELSE SubSeq(ss, Min(inside), Max(inside))

\* Mutant of Recommended2: the middle of the range instead of the median.
Recommended2_Middle(ss) ==
    Head(Kept(ss)).value + Last(Kept(ss)).value

Recommended2(ss) == Median2(AllValues(Kept(ss)))

\* cumulative: what the first samples weigh, for each number of them.
Cumulative(ss) ==
    LET upTo[i \in 0..Len(ss)] ==
            IF i = 0 THEN 0 ELSE upTo[i - 1] + CapTrust(ss[i].trust)
    IN upTo

Weight(ss) == Cumulative(ss)[Len(ss)]

\* weightedMedian: the first value at which half of the weight is reached.
Weighted(ss) ==
    ss[Min({i \in DOMAIN ss : 2 * Cumulative(ss)[i] >= Weight(ss)})].value

\* The spread the confidence is judged by.
KeptSpread4(kept) ==
    CASE Len(kept) >= 4 -> Spread4(kept)
      [] Len(kept) >= 2 /\ Len(kept) < 4 -> 4 * (Last(kept) - Head(kept))
      [] OTHER -> 0

Confidence(ss) ==
    LET kept == AllValues(Kept(ss))
        spread == KeptSpread4(kept)
        med == Median2(kept)
        Within(percent) == med = 0 \/ 50 * spread <= percent * med
    IN CASE Len(kept) >= 4 /\ Within(15) -> "high"
         [] Len(kept) >= 3 /\ Within(30)
            /\ ~(Len(kept) >= 4 /\ Within(15)) -> "medium"
         [] OTHER -> "low"
-----------------------------------------------------------------------------
AggregationInit == samples = << >>

\* In order of value, and of trust where values are equal.
Ordered(ss) ==
    \A i, j \in DOMAIN ss : i < j =>
        \/ ss[i].value < ss[j].value
        \/ ss[i].value = ss[j].value /\ ss[i].trust <= ss[j].trust

\* One more profile of the filament is published, with a value for the field: it
\* takes its place among the others.
Contribute(v, t) ==
    /\ Len(samples) < MaxSamples
    /\ \E i \in 1..Len(samples) + 1 :
          samples' = InsertAt(samples, i, [value |-> v, trust |-> t])
    /\ Ordered(samples')

AggregationNext == \E v \in Values, t \in Trusts : Contribute(v, t)

AggregationSpec == AggregationInit /\ [][AggregationNext]_samples
-----------------------------------------------------------------------------
(* What must hold.                                                         *)

AggregationTypeOK ==
    samples \in Seq([value : Values, trust : Trusts])

\* One contribution, however wild, never takes the recommended value out of the
\* range of the others, once there are two others: not even the lowest or the
\* highest of all does.
OneSampleCannotDrag ==
    Len(samples) >= 3 =>
        /\ 2 * samples[2].value <= Recommended2(samples)
        /\ Recommended2(samples) <= 2 * samples[Len(samples) - 1].value

\* The weighted recommendation has at most half of the kept weight below it
\* and at most half above.
WeightIsHalved ==
    samples # << >> =>
        LET kept == Kept(samples)
            w == Weighted(kept)
            weight == Weight(kept)
        IN \A i \in DOMAIN kept :
             /\ kept[i].value < w => 2 * Cumulative(kept)[i] <= weight
             /\ kept[i].value > w => 2 * (weight - Cumulative(kept)[i - 1]) <= weight

\* High confidence is agreement: half of those kept are within 15 % of the
\* recommendation.
HighIsAgreement ==
    (samples # << >> /\ Confidence(samples) = "high") =>
        LET kept == Kept(samples)
            r == Recommended2(samples)
            Near(v) == 17 * r <= 40 * v /\ 40 * v <= 23 * r
        IN 2 * Cardinality({i \in DOMAIN kept : Near(kept[i].value)}) >= Len(kept)

\* What the page may say: one wrong contribution does not move the recommended
\* value, the weighted one is in the middle of the trust, and "high" confidence
\* is agreement.
RecommendationIsSound == OneSampleCannotDrag /\ WeightIsHalved /\ HighIsAgreement
=============================================================================

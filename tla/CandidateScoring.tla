-------------------------- MODULE CandidateScoring --------------------------
(* The judgements a candidate pair goes through before it becomes a row:    *)
(* the pre-filter, the search of the catalogue for an external title, the   *)
(* question to the model and the direction of the outcomes.  A state is one *)
(* judgement with its input, for every small input.  Words are numbers.     *)
EXTENDS Integers, Sequences, FiniteSets, FiniteSetsExt, SequencesExt

CONSTANTS
    WordLength,      \* word -> its letters, 4 the shortest that is compared
    PassScore,       \* DISCOVERY_PREFILTER_THRESHOLD, tenths of per cent
    WindowDays, MaxCandidates,
    TitleMatch,      \* EXTERNAL_PAIR_CATALOG_MATCH_THRESHOLD, per cent
    GrayFrom, GrayTo \* scores the second model is asked about

Word == DOMAIN WordLength
ASSUME ScoringAssumption ==
    /\ IsFiniteSet(Word)
    /\ GrayFrom \in 0..100 /\ GrayTo \in GrayFrom..100
    /\ MaxCandidates \in Nat
    /\ TitleMatch \in 0..100

VARIABLE judged      \* [of, in, out]

Nothing == <<>>
Label == SUBSET Word \ {{}}

-----------------------------------------------------------------------------
(* OutcomeDirectionValidator.                                               *)

Letters(label) == MapThenSumSet(LAMBDA w : WordLength[w], label)
MinNameLength == 4
Shorter(a, b) == IF Letters(a) <= Letters(b) THEN a ELSE b
Longer(a, b) == IF Letters(a) <= Letters(b) THEN b ELSE a
LongEnough(a, b) == Letters(Shorter(a, b)) >= MinNameLength
(* Equal names agree, and so do a name and a longer one that contains it.   *)
NamesAgree(a, b) == a = b \/ (LongEnough(a, b) /\ Shorter(a, b) \subseteq Longer(a, b))

Verdict(aligned, token) == [aligned |-> aligned, token |-> token]   \* token 0: as it was

(* model: what the model says to the question number i; a failed question   *)
(* is not an answer.                                                        *)
AskedOnce(model) ==
    CASE model[1] = "same" -> Verdict("yes", 0)
      [] model[1] = "other" -> Verdict("no", 0)
      [] model[1] = "fails" -> Verdict("unknown", 0)

(* attemptSelfCorrection: the first outcome token of the contract whose     *)
(* name agrees, then the first one the model takes for the same; the        *)
(* question is asked once per token.                                        *)
Corrected(tokens, kalshi, model) ==
    LET named == SelectInSeq(tokens, LAMBDA t : NamesAgree(t, kalshi))
        asked == SelectInSeq(SubSeq(model, 1, Len(tokens)), LAMBDA a : a = "same")
    IN  IF tokens = Nothing THEN AskedOnce(model)
        ELSE IF named # 0 THEN Verdict("yes", named)
        ELSE IF asked # 0 THEN Verdict("yes", asked)
        ELSE Verdict("no", 0)

Direction(poly, kalshi, tokens, model) ==
    IF Nothing \in {poly, kalshi} THEN Verdict("unknown", 0)
    ELSE IF NamesAgree(poly[1], kalshi[1]) THEN Verdict("yes", 0)
    ELSE IF LongEnough(poly[1], kalshi[1]) THEN Corrected(tokens, kalshi[1], model)
    ELSE AskedOnce(model)

-----------------------------------------------------------------------------
(* The pre-filter of discovery: candidates in the order of the catalogue,   *)
(* each with its cosine and keyword similarity in per cent and the days     *)
(* between the settlements.                                                 *)
CombinedScore(c) == 6 * c.cosine + 4 * c.keywords
InWindow(c) == c.days # Nothing /\ c.days[1] <= WindowDays

(* Sorted by score, the earlier of two equal ones first; the places of the  *)
(* first MaxCandidates.                                                     *)
RanksBefore(cs, i, j) ==
    CombinedScore(cs[i]) > CombinedScore(cs[j]) \/
    (CombinedScore(cs[i]) = CombinedScore(cs[j]) /\ i < j)
Passing(cs) == {i \in DOMAIN cs : InWindow(cs[i]) /\ CombinedScore(cs[i]) >= PassScore}
Shortlist(cs) ==
    {i \in Passing(cs) : Cardinality({j \in Passing(cs) : RanksBefore(cs, j, i)}) < MaxCandidates}

(* computeTitleSimilarity, in per cent.                                     *)
TitleSimilarity(a, b) ==
    IF a = {} \/ b = {} THEN 0
    ELSE (100 * Cardinality(a \intersect b)) \div Max({Cardinality(a), Cardinality(b)})

(* findBestMatch: the first of the catalogue's entries most alike by title  *)
(* or description, or 0.                                                    *)
Likeness(title, entry) ==
    Max({TitleSimilarity(title, entry.title), TitleSimilarity(title, entry.description)})
BestSoFar(title, catalog) ==
    LET best[i \in 0..Len(catalog)] ==
            IF i = 0 THEN 0
            ELSE IF best[i - 1] = 0 \/ Likeness(title, catalog[i]) > Likeness(title, catalog[best[i - 1]])
            THEN i ELSE best[i - 1]
    IN  best
BestMatch(title, catalog) ==
    LET found == BestSoFar(title, catalog)[Len(catalog)]
    IN  IF found # 0 /\ Likeness(title, catalog[found]) = 0 THEN 0 ELSE found

(* enrichPairs, for a pair without identifiers: both titles are found well  *)
(* enough, or the pair stays as it is.                                      *)
Enriched(title, catalog) ==
    LET found == BestMatch(title, catalog)
    IN  IF found # 0 /\ Likeness(title, catalog[found]) >= TitleMatch THEN found ELSE 0

-----------------------------------------------------------------------------
(* parseResponse: only a score from 0 to 100 is an answer.                  *)
Parsed(reply) == IF reply \in 0..100 THEN reply ELSE -1
(* scoreMatch: a doubtful score is replaced by the second model's, never    *)
(* kept when that fails.                                                    *)
ModelScore(first, second) ==
    IF Parsed(first) \in GrayFrom..GrayTo THEN Parsed(second) ELSE Parsed(first)

(* validateDuplicatesAndLimits on the configured pairs.                     *)
NoDuplicates(pairs) ==
    LET before(i) == {pairs[j] : j \in 1..(i - 1)}
    IN  \A i \in DOMAIN pairs : \A q \in before(i) :
            q.polymarket # pairs[i].polymarket /\ q.kalshi # pairs[i].kalshi

-----------------------------------------------------------------------------
Lists(S, n) == UNION {[1..k -> S] : k \in 0..n}
Judgement(of, in, out) == judged' = [of |-> of, in |-> in, out |-> out]
ScoringInit == judged = [of |-> "nothing", in |-> Nothing, out |-> Nothing]

JudgeDirection ==
    \E poly, kalshi \in Lists(Label, 1), tokens \in Lists(Label, 2),
       model \in [1..2 -> {"same", "other", "fails"}] :
       Judgement("direction", <<poly, kalshi, tokens, model>>, Direction(poly, kalshi, tokens, model))

Candidates == [cosine : {0, 40, 60}, keywords : {0, 50}, days : {Nothing, <<0>>, <<9>>}]
JudgeCandidates ==
    \E cs \in Lists(Candidates, 2) \union {<<c, d, c>> : c, d \in Candidates} :
       Judgement("shortlist", cs, Shortlist(cs))

Entries == [title : SUBSET Word, description : SUBSET Word]
JudgeTitle ==
    \E title \in SUBSET Word, catalog \in Lists(Entries, 2) :
       Judgement("title", <<title, catalog>>, Enriched(title, catalog))

Replies == {0, GrayFrom - 1, GrayFrom, GrayTo, GrayTo + 1, 100, 101, -1}
JudgeScore ==
    \E first, second \in Replies : Judgement("score", <<first, second>>, ModelScore(first, second))

JudgeConfig ==
    \E pairs \in Lists([polymarket : 1..2, kalshi : 1..3], 3) :
       Judgement("config", pairs, NoDuplicates(pairs))

ScoringNext ==
    /\ judged.of = "nothing"
    /\ JudgeDirection \/ JudgeCandidates \/ JudgeTitle \/ JudgeScore \/ JudgeConfig
ScoringSpec == ScoringInit /\ [][ScoringNext]_judged

-----------------------------------------------------------------------------
(* The token that would be traded pays for Kalshi's outcome: its name       *)
(* agrees, or the model said so about it.  A pair is called a mismatch only *)
(* if neither its own name nor a token's agrees (validateDirection:53-92).  *)
DirectionRight ==
    judged.of = "direction" =>
       LET poly == judged.in[1]  kalshi == judged.in[2]  tokens == judged.in[3]
           model == judged.in[4]  v == judged.out
           traded == IF v.token = 0 THEN poly[1] ELSE tokens[v.token]
       IN  /\ v.aligned = "yes" =>
                \/ NamesAgree(traded, kalshi[1])
                \/ model[IF v.token = 0 THEN 1 ELSE v.token] = "same"
           /\ v.aligned = "no" =>
                /\ ~NamesAgree(poly[1], kalshi[1])
                /\ LongEnough(poly[1], kalshi[1]) =>
                     \A i \in DOMAIN tokens : ~NamesAgree(tokens[i], kalshi[1])
           /\ v.token # 0 => v.aligned = "yes"

(* No candidate that is left out would have come before one that is asked   *)
(* about (filterCandidates:241, runDiscovery:254).                          *)
ShortlistRight ==
    judged.of = "shortlist" =>
       LET cs == judged.in  kept == judged.out  fits == Passing(cs)
       IN  /\ Cardinality(kept) = Min({Cardinality(fits), MaxCandidates})
           /\ \A i \in kept, j \in fits \ kept : CombinedScore(cs[i]) >= CombinedScore(cs[j])

(* The identifier taken for an external title is that of an entry at least  *)
(* as alike as any other; an entry without a word in common is never taken, *)
(* however low the threshold (findBestMatch:155).                           *)
TitleRight ==
    judged.of = "title" =>
       LET title == judged.in[1]  catalog == judged.in[2]
           likely == {i \in DOMAIN catalog :
                         Likeness(title, catalog[i]) >= TitleMatch /\ Likeness(title, catalog[i]) # 0}
       IN  IF judged.out = 0 THEN likely = {}
           ELSE /\ judged.out \in likely
                /\ \A i \in likely : Likeness(title, catalog[i]) <= Likeness(title, catalog[judged.out])

(* A doubtful score of the first model is never the score of the pair       *)
(* unless the second model gave it too (scoreMatch:233-293).                *)
ScoreRight ==
    judged.of = "score" =>
       /\ judged.out \in -1..100
       /\ judged.out \in GrayFrom..GrayTo => judged.in[2] = judged.out

(* A configuration that is accepted names no contract twice (:60-79).       *)
ConfigRight ==
    judged.of = "config" /\ judged.out =>
       \A i, j \in DOMAIN judged.in : i # j =>
          /\ judged.in[i].polymarket # judged.in[j].polymarket
          /\ judged.in[i].kalshi # judged.in[j].kalshi

ScoringSound == DirectionRight /\ ShortlistRight /\ TitleRight /\ ScoreRight /\ ConfigRight
=============================================================================

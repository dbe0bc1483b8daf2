----------------------------- MODULE MCServices -----------------------------
(* Small instances of the services around trading, for one run.            *)
EXTENDS Services, TLC

CONSTANTS A, B, C, r1, r2

TwoRuns == {r1, r2}
RunsAlike == Permutations(TwoRuns)

PairOrder == <<A, B>>
(* An edge that pays, one that is gone, one that grows, and a market that  *)
(* has resolved; a second pair is held beside the first while the capital  *)
(* lasts.                                                                  *)
QuotesOfStep == {(A :> q) @@ (B :> other) : q \in {<<>>, <<8, 10>>, <<9, 11>>, <<1, 1>>},
                                            other \in {<<>>, <<8, 9>>}}
ResolvesAt == (A :> 2) @@ (B :> 9)

BestFirst == (A :> 90) @@ (B :> 80)
OldestFirst == <<A, B>>
(* One broad category of Kalshi, two narrow ones of Polymarket.            *)
Categories == (A :> [kalshi |-> "sports", polymarket |-> "football"]) @@
              (B :> [kalshi |-> "sports", polymarket |-> "hockey"]) @@
              (C :> [kalshi |-> "none", polymarket |-> "hockey"])

LettersOf == <<4, 3>>

ListedTargets == <<A, B>>
AskedRanges == {[from |-> 1, to |-> 4]}

(* Two contracts of each venue: their titles, what of them is matched, and  *)
(* what the sources say: matches, other titles and contracts nobody knows.  *)
PolymarketTitles == <<{"a"}, {"b", "c"}>>
KalshiTitles == <<{"d"}, {"e", "f"}>>
OurMatches ==
    LET Match(p, k) == [pm |-> p, k |-> k]
    IN  {<<>>} \cup {<<Match(p, k)>> : p, k \in 1..2}
        \cup {<<Match(p, 1), Match(q, 2)>> : p, q \in 1..2}
OddsPipePairs ==
    {[source |-> "oddspipe", pm |-> 0, k |-> 0, pmTitle |-> p, kTitle |-> k] :
        p \in {{"a"}, {"b"}, {"g"}}, k \in {{"d"}, {"h"}}}
PredexonPairs ==
    {[source |-> "predexon", pm |-> p, k |-> k,
      pmTitle |-> IF p \in 1..2 THEN PolymarketTitles[p] ELSE {"g"},
      kTitle |-> IF k \in 1..2 THEN KalshiTitles[k] ELSE {"h"}] : p \in 0..4, k \in 0..2}
ExternalPairs ==
    LET Foreign == {o \in OddsPipePairs : o.pmTitle = {"g"} /\ o.kTitle = {"d"}}
    IN  {<<p>> : p \in PredexonPairs} \cup {<<o, p>> : o \in OddsPipePairs, p \in PredexonPairs}
        \cup {<<o, p, q>> : o \in Foreign, p \in PredexonPairs,
                             q \in {x \in PredexonPairs : x.pm # 2 /\ x.k # 2}}
=============================================================================

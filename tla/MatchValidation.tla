-------------------------- MODULE MatchValidation --------------------------
(***************************************************************************)
(* MatchValidationService compares the contract matches with the pairs two *)
(* external sources know of, and stores a report.  A validation may be     *)
(* asked for by an operator and by the refresh of the historical data; a   *)
(* flag keeps them apart, which a safety timer takes down when a           *)
(* validation has gone on for ten minutes.                                 *)
(*                                                                         *)
(* Abstractions: a title is a set of words (stop words are left out),      *)
(* scores are in percent, and the words of a title that names a contract   *)
(* are those of the contract.                                              *)
(***************************************************************************)
EXTENDS Integers, Sequences, FiniteSets, FiniteSetsExt, SequencesExt

CONSTANTS
    PolyWords, KalshiWords, \* the words of a contract, by contract
    OurLists,               \* lists of matches: [pm, k]
    PairLists,              \* what the sources answer, OddsPipe first: [source, pm, k, pmTitle, kTitle]
    MatchThreshold,         \* in percent
    MaxValidations          \* bound on validations of a caller

ASSUME ValidationAssumption ==
    /\ \A ours \in OurLists : ours \in Seq([pm : Nat \ {0}, k : Nat \ {0}])
    /\ \A pairs \in PairLists :
        /\ pairs \in Seq(ToSet(pairs))
        /\ \A pair \in ToSet(pairs) : \/ pair.source = "oddspipe" /\ pair.pm = 0 /\ pair.k = 0
                                     \/ pair.source = "predexon"

VARIABLES
    flag,           \* _isRunning
    timers,         \* the callers whose safety timer is ticking
    safetyTimer,    \* the one the service can clear
    validating,     \* by caller: "no", "fetching" or "storing"
    asked,          \* by caller: validations so far
    fired,          \* history: a safety timer has fired since nobody validated
    validation      \* the first one: [ours, pairs, buckets]

validationVars == <<flag, timers, safetyTimer, validating, asked, fired, validation>>

Callers == {"operator", "refresh"}
Nobody == "nobody"
NoMatch == <<>>
NoReport == [ours |-> <<>>, pairs |-> <<>>, buckets |-> NoMatch]

-----------------------------------------------------------------------------
(* The comparison. *)

(* tokenOverlap *)
TokenOverlap(a, b) ==
    IF a = {} \/ b = {} THEN 0
    ELSE (100 * Cardinality(a \cap b)) \div Max({Cardinality(a), Cardinality(b)})

(* buildLookupMaps: the last match of a contract. *)
LastWith(ours, field, id) ==
    LET places == {i \in DOMAIN ours : ours[i][field] = id} IN
    IF id = 0 \/ places = {} THEN NoMatch ELSE <<ours[Max(places)]>>

CombinedTitles(pair, our) ==
    TokenOverlap(pair.pmTitle, PolyWords[our.pm]) + TokenOverlap(pair.kTitle, KalshiWords[our.k])

(* fuzzyTitleMatch: the best of those good enough, the first of them in the *)
(* order their contracts of Polymarket were met; no likeness is never good  *)
(* enough, whatever the threshold.                                          *)
FuzzyTitleMatch(pair, ours) ==
    LET Met(i) == LastWith(ours, "pm", ours[i].pm)[1]
        score == [i \in DOMAIN ours |-> CombinedTitles(pair, Met(i))]
        good == {i \in DOMAIN ours : /\ \A j \in 1..(i - 1) : ours[j].pm # ours[i].pm
                                    /\ score[i] >= 2 * MatchThreshold /\ score[i] > 0}
        best == {i \in good : \A j \in good : score[j] < score[i] \/ (score[j] = score[i] /\ i <= j)}
    IN  IF best = {} THEN NoMatch ELSE <<Met(CHOOSE i \in best : TRUE)>>

(* matchExternalPair *)
MatchExternalPair(pair, ours) ==
    LET byPolymarket == LastWith(ours, "pm", pair.pm)
        byKalshi == LastWith(ours, "k", pair.k)
    IN  IF byPolymarket # NoMatch THEN byPolymarket
        ELSE IF byKalshi # NoMatch THEN byKalshi
        ELSE FuzzyTitleMatch(pair, ours)

OurKey(our) == [of |-> "our", pm |-> our.pm, k |-> our.k, title |-> {}]
ExternalKey(pair) ==
    [of |-> "external", pm |-> pair.pm, k |-> 0, title |-> IF pair.pm = 0 THEN pair.pmTitle ELSE {}]

KeyOf(pair, ours) ==
    LET our == MatchExternalPair(pair, ours) IN
    IF our = NoMatch THEN ExternalKey(pair) ELSE OurKey(our[1])

(* The places of the pairs about a contract, and the last of a source. *)
PlacesAbout(ours, pairs, key) == {i \in DOMAIN pairs : KeyOf(pairs[i], ours) = key}

NewestAbout(ours, pairs, key, source) ==
    LET places == {i \in PlacesAbout(ours, pairs, key) : pairs[i].source = source} IN
    IF places = {} THEN NoMatch ELSE <<pairs[Max(places)]>>

(* aggregatePairs: a bucket for every match and for every contract of       *)
(* Polymarket that no match has; a later pair of a source displaces the     *)
(* one there is.  Beside it the place of the first pair about it: the       *)
(* buckets are met in the order of these places.                            *)
AggregatePairs(ours, pairs) ==
    LET seed == {OurKey(ours[i]) : i \in DOMAIN ours}
        First(key) == IF PlacesAbout(ours, pairs, key) = {} THEN 0 ELSE Min(PlacesAbout(ours, pairs, key))
    IN  [key \in seed \cup {KeyOf(pairs[i], ours) : i \in DOMAIN pairs} |->
            [our |-> IF key \in seed THEN <<CHOOSE our \in ToSet(ours) : OurKey(our) = key>> ELSE NoMatch,
             oddspipe |-> NewestAbout(ours, pairs, key, "oddspipe"),
             predexon |-> NewestAbout(ours, pairs, key, "predexon"),
             met |-> First(key), disputed |-> FALSE]]

(* How a source names the contract of Kalshi. *)
KalshiName(pair) == <<pair.k, IF pair.k = 0 THEN pair.kTitle ELSE {}>>

(* detectCrossExternalConflicts, in one bucket ... *)
DisputedInside(buckets) ==
    [key \in DOMAIN buckets |->
        LET b == buckets[key] IN
        IF b.our = NoMatch /\ b.oddspipe # NoMatch /\ b.predexon # NoMatch
           /\ KalshiName(b.oddspipe[1]) # KalshiName(b.predexon[1])
        THEN [b EXCEPT !.disputed = TRUE] ELSE b]

(* The buckets without a match that one source alone has a pair in, and of  *)
(* these the last that was met with its title.                              *)
OfSource(bucket, source) == IF source = "oddspipe" THEN bucket.oddspipe ELSE bucket.predexon

Lone(buckets, source, other) ==
    {key \in DOMAIN buckets : /\ buckets[key].our = NoMatch
                              /\ OfSource(buckets[key], source) # NoMatch
                              /\ OfSource(buckets[key], other) = NoMatch}

LastLone(buckets, source, other) ==
    LET Title(key) == OfSource(buckets[key], source)[1].pmTitle IN
    {key \in Lone(buckets, source, other) :
        \A same \in Lone(buckets, source, other) :
            Title(same) = Title(key) => buckets[same].met <= buckets[key].met}

(* Two of them with one title that name the contract of Kalshi in the same  *)
(* way, and not the same one.                                               *)
Opposed(buckets) ==
    {d \in LastLone(buckets, "oddspipe", "predexon") \X LastLone(buckets, "predexon", "oddspipe") :
        LET odds == buckets[d[1]].oddspipe[1]  pred == buckets[d[2]].predexon[1] IN
        odds.pmTitle = pred.pmTitle /\ (odds.k = 0) = (pred.k = 0) /\ KalshiName(odds) # KalshiName(pred)}

(* ... and across two: these become one. *)
ConflictKey(buckets, d) ==
    [of |-> "conflict", pm |-> 0, k |-> 0, title |-> buckets[d[1]].oddspipe[1].pmTitle]

DisputedAcross(buckets) ==
    LET opposed == Opposed(buckets)
        gone == {d[1] : d \in opposed} \cup {d[2] : d \in opposed}
        Merged(d) == [buckets[d[1]] EXCEPT !.predexon = buckets[d[2]].predexon, !.disputed = TRUE]
    IN  [key \in (DOMAIN buckets \ gone) \cup {ConflictKey(buckets, d) : d \in opposed} |->
            IF key \in DOMAIN buckets THEN buckets[key]
            ELSE Merged(CHOOSE d \in opposed : ConflictKey(buckets, d) = key)]

(* categorize *)
PairCategory(b) ==
    IF b.our = NoMatch THEN (IF b.disputed THEN "conflict" ELSE "external-only")
    ELSE LET our == b.our[1] IN
         IF b.predexon # NoMatch /\ b.predexon[1].k \notin {0, our.k} THEN "conflict"
         ELSE IF b.oddspipe # NoMatch
                 /\ TokenOverlap(b.oddspipe[1].kTitle, KalshiWords[our.k]) < MatchThreshold
              THEN "conflict"
         ELSE IF b.oddspipe # NoMatch \/ b.predexon # NoMatch THEN "confirmed"
         ELSE "our-only"

Compared(ours, pairs) == DisputedAcross(DisputedInside(AggregatePairs(ours, pairs)))

-----------------------------------------------------------------------------
(* The runs. *)

ValidationInit ==
    /\ flag = FALSE /\ timers = {} /\ safetyTimer = Nobody /\ fired = FALSE
    /\ validating = [c \in Callers |-> "no"] /\ asked = [c \in Callers |-> 0]
    /\ validation = NoReport

(* runValidation up to its first await. *)
RunValidation(c) ==
    /\ validating[c] = "no" /\ asked[c] < MaxValidations /\ ~flag
    /\ flag' = TRUE
    /\ timers' = timers \cup {c} /\ safetyTimer' = c
    /\ validating' = [validating EXCEPT ![c] = "fetching"]
    /\ asked' = [asked EXCEPT ![c] = @ + 1]
    /\ UNCHANGED <<fired, validation>>

(* The matches and the answers are there: compared, and written.  The      *)
(* first report stands for all of them.                                     *)
PairsFetched(c) ==
    /\ validating[c] = "fetching"
    /\ validating' = [validating EXCEPT ![c] = "storing"]
    /\ IF validation # NoReport THEN UNCHANGED validation
       ELSE \E ours \in OurLists, pairs \in PairLists :
            validation' = [ours |-> ours, pairs |-> pairs, buckets |-> <<Compared(ours, pairs)>>]
    /\ UNCHANGED <<flag, timers, safetyTimer, asked, fired>>

(* finally: after the report, or after an answer or a write that failed. *)
ValidationEnds(c) ==
    /\ validating[c] # "no"
    /\ flag' = FALSE
    /\ timers' = timers \ {safetyTimer} /\ safetyTimer' = Nobody
    /\ validating' = [validating EXCEPT ![c] = "no"]
    /\ fired' = (fired /\ \E d \in Callers \ {c} : validating[d] # "no")
    /\ UNCHANGED <<asked, validation>>

SafetyTimerFires(c) ==
    /\ c \in timers
    /\ timers' = timers \ {c}
    /\ flag' = FALSE
    /\ fired' = \E d \in Callers : validating[d] # "no"
    /\ UNCHANGED <<safetyTimer, validating, asked, validation>>

ValidationNext ==
    \E c \in Callers : \/ RunValidation(c) \/ PairsFetched(c) \/ ValidationEnds(c)
                       \/ SafetyTimerFires(c)

ValidationSpec == ValidationInit /\ [][ValidationNext]_validationVars

-----------------------------------------------------------------------------
ValidationTypeOK ==
    /\ flag \in BOOLEAN /\ fired \in BOOLEAN /\ timers \subseteq Callers
    /\ safetyTimer \in Callers \cup {Nobody}
    /\ validating \in [Callers -> {"no", "fetching", "storing"}]

(* Two validations are under way only after a safety timer has fired, and a *)
(* validation that nothing has disturbed has its flag.                      *)
ExclusiveUntilSafety ==
    fired \/ /\ Cardinality({c \in Callers : validating[c] # "no"}) <= 1
             /\ flag <=> \E c \in Callers : validating[c] # "no"

(* No pair of a source is lost from the report, unless a later one of its   *)
(* source is about the same contract.                                       *)
PairsAccounted ==
    \A i \in DOMAIN validation.pairs :
        LET pair == validation.pairs[i] IN
        \/ \E key \in DOMAIN validation.buckets[1] :
               OfSource(validation.buckets[1][key], pair.source) = <<pair>>
        \/ \E j \in (i + 1)..Len(validation.pairs) :
            /\ validation.pairs[j].source = pair.source
            /\ KeyOf(validation.pairs[j], validation.ours) = KeyOf(pair, validation.ours)

(* Every match is judged, once; it is confirmed only by pairs that agree    *)
(* with it on the contract of Kalshi, and nothing confirms a match that no  *)
(* pair was about.  A conflict among the sources has two sides.             *)
VerdictsSupported ==
    validation.buckets # NoMatch => LET buckets == validation.buckets[1] IN
        /\ \A our \in ToSet(validation.ours) :
            Cardinality({key \in DOMAIN buckets : buckets[key].our = <<our>>}) = 1
        /\ \A key \in DOMAIN buckets :
            LET b == buckets[key]  verdict == PairCategory(b) IN
            /\ verdict = "confirmed" =>
                /\ \E pair \in ToSet(validation.pairs) : MatchExternalPair(pair, validation.ours) = b.our
                /\ \A pair \in ToSet(b.predexon) : pair.k \in {0, b.our[1].k}
            /\ verdict = "our-only" =>
                \A pair \in ToSet(validation.pairs) : MatchExternalPair(pair, validation.ours) # b.our
            /\ verdict = "conflict" /\ b.our = NoMatch =>
                b.oddspipe # NoMatch /\ b.predexon # NoMatch
                /\ b.oddspipe[1].pmTitle = b.predexon[1].pmTitle

ValidationsSound ==
    ValidationTypeOK /\ ExclusiveUntilSafety /\ PairsAccounted /\ VerdictsSupported
=============================================================================

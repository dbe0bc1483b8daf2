--------------------------- MODULE BacktestReports ---------------------------
(* The computations around a backtest that give no error when they are      *)
(* wrong: the cutting of a date range into chunks and at the walk-forward   *)
(* split, the search for the depth at a moment, the trading window, and     *)
(* what the reports find in a sweep and in the stored prices.  A state is   *)
(* one computation, with its input and its result, for every small input.   *)
EXTENDS Integers, Sequences, FiniteSets, Functions, FiniteSetsExt

CONSTANTS
    Day,            \* hours in a day
    LastHour,       \* bound on dates
    MaxList,    \* bound on the length of lists
    GapHours        \* GAP_THRESHOLD_MS

ASSUME ReportsAssumption ==
    {Day, LastHour} \subseteq Nat \ {0} /\ {MaxList, GapHours} \subseteq Nat

VARIABLE answer     \* [of, in, out]

None == <<>>        \* null
NoAnswer == [of |-> "nothing", in |-> None, out |-> None]

-----------------------------------------------------------------------------
(* generateChunkRanges: <<start, end>>, in order. *)
ChunkRanges(start, end, days) ==
    LET length == days * Day IN
    [k \in 1..((end - start + length - 1) \div length) |->
        <<start + (k - 1) * length, Min({start + k * length, end})>>]

(* The dates a chunk loads: its end belongs to the next one, but for the last. *)
Loads(ranges, i) ==
    {d \in 0..LastHour : ranges[i][1] <= d /\ (IF i = Len(ranges) THEN d <= ranges[i][2]
                                                               ELSE d < ranges[i][2])}

Midnight(hour) == (hour \div Day) * Day

(* The split of a walk-forward analysis, or none when the range is too short. *)
TrainEndDate(start, end, pct) ==
    LET wanted == Midnight(start + ((end - start) * pct) \div 100)
        split == IF wanted <= start THEN Midnight(start + Day) ELSE wanted
    IN  IF split >= end THEN None ELSE <<split>>

(* fault: the search goes on to older entries after a hit *)
NearestLast(entries, at) ==
    LET search[w \in (1..(Len(entries) + 1)) \X (0..Len(entries))] ==
            IF w[1] > w[2] THEN 0
            ELSE LET mid == (w[1] + w[2]) \div 2
                     older == search[<<mid + 1, w[2]>>]
                 IN  IF entries[mid] <= at THEN Max({mid, older}) ELSE older
    IN  search[<<1, Len(entries)>>]

(* findNearestDepthFromCache on entries sorted from new to old: the place  *)
(* of the newest that is not after the moment, 0 without one, in a window  *)
(* of places that is halved.                                               *)
NearestDepth(entries, at) ==
    LET search[w \in (1..(Len(entries) + 1)) \X (0..Len(entries))] ==
            IF w[1] > w[2] THEN 0
            ELSE LET mid == (w[1] + w[2]) \div 2 IN
                 IF entries[mid] <= at
                 THEN LET newer == search[<<w[1], mid - 1>>] IN IF newer = 0 THEN mid ELSE newer
                 ELSE search[<<mid + 1, w[2]>>]
    IN  search[<<1, Len(entries)>>]

(* isInTradingWindow *)
InTradingWindow(hour, from, to) ==
    IF from <= to THEN from <= hour /\ hour < to ELSE from <= hour \/ hour < to

(* findBreakEvenValue, on profit factors in tenths: where it first crosses *)
(* 1.0 and whether it is lost above or below.                              *)
BreakEven(factors) ==
    LET Crosses(i) == factors[i - 1] # None /\ factors[i] # None
                      /\ (factors[i - 1][1] >= 10) # (factors[i][1] >= 10)
        places == {i \in 2..Len(factors) : Crosses(i)}
    IN  IF places = {} THEN None
        ELSE LET i == Min(places) IN
             <<i, IF factors[i][1] < 10 THEN "above" ELSE "below">>

(* findRecommendedParameters: the first of the best. *)
Recommended(factors) ==
    LET known == {i \in DOMAIN factors : factors[i] # None}
        best == {i \in known : \A j \in known : factors[i][1] >= factors[j][1]}
    IN  IF known = {} THEN None ELSE <<Min(best)>>

(* compareMetrics: whether more than 30% is lost from training to testing. *)
Overfit(inTraining, inTesting) ==
    /\ inTraining # None /\ inTesting # None /\ inTraining[1] # 0
    /\ LET magnitude == IF inTraining[1] > 0 THEN inTraining[1] ELSE -inTraining[1]
       IN  (inTraining[1] - inTesting[1]) * 10 > 3 * magnitude

(* computeCI: the places of the bounds among n sorted results. *)
Interval(n, iterations) ==
    IF 2 * n < iterations THEN None ELSE <<(n * 25) \div 1000 + 1, (n * 975) \div 1000 + 1>>

(* detectCoverageGaps: the hours missing between consecutive prices.  The  *)
(* hours before the first and after the last are no gap.                   *)
CoverageGaps(prices) ==
    LET Before(p) == {q \in prices : q < p}
        gaps == {p \in prices : Before(p) # {} /\ p - Max(Before(p)) > GapHours}
    IN  SumFunction([p \in gaps |-> p - Max(Before(p))])

(* checkDataCoverage, in percent: from the oldest to the newest price. *)
CoveragePct(prices, start, end) ==
    IF prices = {} THEN 0 ELSE ((Max(prices) - Min(prices)) * 100) \div (end - start)

-----------------------------------------------------------------------------
ReportsInit == answer = NoAnswer

Answers(of, in, out) == answer' = [of |-> of, in |-> in, out |-> out]

Hours == 0..LastHour
Factors == {None, <<8>>, <<10>>, <<13>>}
FactorLists == UNION {[1..n -> Factors] : n \in 0..MaxList}
Descending == {s \in UNION {[1..n -> Hours] : n \in 0..MaxList} :
                 \A i, j \in DOMAIN s : i < j => s[i] > s[j]}

CutRange == \E start, end \in Hours, days \in 1..2 :
    start < end /\ Answers("chunks", <<start, end, days>>, ChunkRanges(start, end, days))
SplitRange == \E start, end \in Hours, pct \in {10, 70, 90} :
    start < end /\ Answers("split", <<start, end>>, TrainEndDate(start, end, pct))
FindDepth == \E entries \in Descending, at \in Hours :
    Answers("depth", <<entries, at>>, NearestDepth(entries, at))
CheckWindow == \E hour, from, to \in 0..(Day - 1) :
    from # to /\ Answers("window", <<hour, from, to>>, InTradingWindow(hour, from, to))
ReadSweep == \E factors \in FactorLists :
    Answers("sweep", factors, [even |-> BreakEven(factors), best |-> Recommended(factors)])
CompareWalks == \E training, testing \in {None} \cup {<<v>> : v \in {-10, -7, -6, 0, 7, 8, 10, 13}} :
    Answers("overfit", <<training, testing>>, Overfit(training, testing))
FindInterval == \E n \in 0..200 :
    Answers("interval", n, Interval(n, 200))
FindGaps == \E prices \in SUBSET Hours :
    Answers("gaps", prices, <<CoverageGaps(prices), CoveragePct(prices, 0, LastHour)>>)

ReportsNext ==
    /\ answer.of = "nothing"
    /\ \/ CutRange \/ SplitRange \/ FindDepth \/ CheckWindow
       \/ ReadSweep \/ CompareWalks \/ FindInterval \/ FindGaps

ReportsSpec == ReportsInit /\ [][ReportsNext]_answer

-----------------------------------------------------------------------------
(* Every date of the range is loaded by one chunk and one only. *)
ChunksPartition ==
    answer.of = "chunks" =>
        LET start == answer.in[1]  end == answer.in[2]  ranges == answer.out IN
        /\ \A d \in start..end : Cardinality({i \in DOMAIN ranges : d \in Loads(ranges, i)}) = 1
        /\ \A i \in DOMAIN ranges : ranges[i][1] < ranges[i][2] /\ Loads(ranges, i) \subseteq start..end

(* The split is a midnight strictly inside the range; ranges that hold one *)
(* are refused only when the wanted one, cut to the day, has to be pushed  *)
(* past the end.                                                           *)
SplitInside ==
    answer.of = "split" =>
        LET start == answer.in[1]  end == answer.in[2]  split == answer.out IN
        /\ split # None => start < split[1] /\ split[1] < end /\ split[1] % Day = 0
        /\ split = None => \A m \in Hours : m % Day = 0 /\ start < m => m >= end

(* The search finds what a scan finds. *)
DepthIsLatest ==
    answer.of = "depth" =>
        LET entries == answer.in[1]  at == answer.in[2]
            before == {i \in DOMAIN entries : entries[i] <= at}
        IN  answer.out = IF before = {} THEN 0 ELSE Min(before)

(* A window and the window the other way round share the day between them. *)
WindowsComplementary ==
    answer.of = "window" =>
        answer.out # InTradingWindow(answer.in[1], answer.in[3], answer.in[2])

(* No crossing is reported between two points on one side, and no point    *)
(* before it lies on the other side of a neighbour; nothing beats the      *)
(* recommended point.                                                      *)
SweepReadRight ==
    answer.of = "sweep" =>
        LET f == answer.in  even == answer.out.even  best == answer.out.best
            Known(i) == f[i] # None
        IN  /\ even # None =>
                 /\ Known(even[1]) /\ Known(even[1] - 1)
                 /\ (even[2] = "above") = (f[even[1] - 1][1] > f[even[1]][1])
                 /\ \A i \in 2..(even[1] - 1) : Known(i) /\ Known(i - 1) =>
                        (f[i][1] >= 10) = (f[i - 1][1] >= 10)
            /\ best = None <=> \A i \in DOMAIN f : ~Known(i)
            /\ best # None => \A i \in DOMAIN f : Known(i) =>
                    f[i][1] < f[best[1]][1] \/ (f[i] = f[best[1]] /\ best[1] <= i)

(* A result that is no worse is never flagged; one that changes sign from  *)
(* profit to loss always is.                                               *)
OverfitRight ==
    answer.of = "overfit" /\ answer.in[1] # None /\ answer.in[2] # None =>
        LET a == answer.in[1][1]  b == answer.in[2][1] IN
        /\ b >= a => ~answer.out
        /\ a > 0 /\ b < 0 => answer.out

IntervalRight ==
    answer.of = "interval" /\ answer.out # None =>
        /\ 1 <= answer.out[1] /\ answer.out[1] <= answer.out[2] /\ answer.out[2] <= answer.in

(* Prices without a gap cover at most what the gaps leave. *)
GapsRight ==
    answer.of = "gaps" =>
        /\ answer.out[1] * 100 <= LastHour * (answer.out[2] + 1)
        /\ answer.out[1] = 0 => \A a, b \in answer.in :
               a < b /\ (\A c \in answer.in : c <= a \/ c >= b) => b - a <= GapHours

(* Every computation agrees with its definition by quantifiers.            *)
(* (generateChunkRanges, the walk-forward split, findNearestDepthFromCache,*)
(* isInTradingWindow, the sensitivity analysis, compareMetrics, computeCI, *)
(* detectCoverageGaps)                                                     *)
ReportsSound ==
    /\ ChunksPartition /\ SplitInside /\ DepthIsLatest /\ WindowsComplementary
    /\ SweepReadRight /\ OverfitRight /\ IntervalRight /\ GapsRight
=============================================================================

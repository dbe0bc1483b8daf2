---------------------------- MODULE HistoricalData ----------------------------
(* The computations around the data of the past: what becomes of a request  *)
(* that is tried again, how fresh a source is, what is wrong with stored    *)
(* prices, trades and books, and how the sources are compared and sampled.  *)
(* A state is one computation, with its input and its result.               *)
EXTENDS Integers, Sequences, FiniteSets, FiniteSetsExt, SequencesExt

CONSTANTS
    Attempts,       \* MAX_RETRIES
    GapAfter,       \* gapThresholdMs, in units of time
    Hour,           \* units in an hour
    LowTrades,      \* LOW_TRADE_THRESHOLD
    LastTime,       \* bound on times
    MaxRecords      \* bound on the length of lists

ASSUME HistoryAssumption ==
    /\ Attempts \in Nat \ {0} /\ Hour \in Nat \ {0}
    /\ GapAfter \in Nat /\ LowTrades \in Nat /\ LastTime \in Nat /\ MaxRecords \in Nat

VARIABLE measured   \* [of, in, out]

Nil == <<>>
Times == 0..LastTime
NotMeasured == [of |-> "nothing", in |-> Nil, out |-> Nil]

-----------------------------------------------------------------------------
(* A request that is tried again. *)

HttpAnswers == {"ok", "forbidden", "limited", "client", "server", "network"}
Clients == {"kalshi", "predexon", "oddspipe", "matching"}

(* What an answer does at once: give rows, give nothing, throw; or it is    *)
(* tried again.                                                             *)
Effect(client, answer) ==
    CASE answer = "ok" -> "rows"
      [] answer = "server" -> "again"
      [] answer = "network" -> IF client = "kalshi" THEN "throws" ELSE "again"
      [] answer = "forbidden" -> IF client \in {"predexon", "matching"} THEN "nothing" ELSE "throws"
      [] answer = "limited" -> IF client = "oddspipe" THEN "throws" ELSE "again"
      [] answer = "client" -> IF client = "matching" THEN "again" ELSE "throws"

(* fetchWithRetry, fetchJsonWithRetry: the effect and the requests made. *)
Retried(client, answers) ==
    LET try[n \in 1..(Attempts + 1)] ==
            IF n > Attempts THEN <<"throws", Attempts>>
            ELSE IF Effect(client, answers[n]) = "again" THEN try[n + 1]
            ELSE <<Effect(client, answers[n]), n>>
    IN  try[1]

-----------------------------------------------------------------------------
(* Freshness. *)

(* computeFreshStatus; 0: never *)
FreshStatus(success, now, threshold) ==
    IF success = 0 THEN "never"
    ELSE IF threshold <= 0 \/ now - success > threshold THEN "stale"
    ELSE IF 2 * (now - success) > threshold THEN "warning"
    ELSE "fresh"

(* checkStaleness: the severity of the event, if there is one.  A threshold *)
(* of 0 stands for a day and a half.                                        *)
StaleEvent(success, now, configured) ==
    LET threshold == IF configured = 0 THEN 36 * Hour ELSE configured IN
    IF success = 0 THEN "error"
    ELSE IF now - success <= threshold THEN "none"
    ELSE IF now - success > 2 * threshold THEN "error" ELSE "warning"

-----------------------------------------------------------------------------
(* Quality. *)

(* The place of a row in the order of their times: rows of one time stay as *)
(* they came.                                                               *)
PlaceInTime(records, i) ==
    Cardinality({j \in DOMAIN records :
                    records[j].t < records[i].t \/ (records[j].t = records[i].t /\ j <= i)})

InTime(records) ==
    [p \in DOMAIN records |-> records[CHOOSE i \in DOMAIN records : PlaceInTime(records, i) = p]]

Neighbours(n) == {<<i, i + 1>> : i \in 1..(n - 1)}
GapsIn(sorted, longest) ==
    {<<sorted[i[1]].t, sorted[i[2]].t>> :
        i \in {j \in Neighbours(Len(sorted)) : sorted[j[2]].t - sorted[j[1]].t > longest}}

(* assessPriceQuality *)
PriceFlags(prices, now) ==
    LET sorted == InTime(prices)
        Jump(a, b) == a # 0 /\ 5 * (IF b > a THEN b - a ELSE a - b) > a
    IN  [gaps |-> GapsIn(sorted, GapAfter),
         jumps |-> {j[2] : j \in {i \in Neighbours(Len(sorted)) :
                                    Jump(sorted[i[1]].close, sorted[i[2]].close)}},
         stale |-> sorted # Nil /\ now - sorted[Len(sorted)].t > 24 * Hour,
         low |-> sorted # Nil /\ \A i \in DOMAIN sorted : sorted[i].volume = 0]

(* assessTradeQuality: the windows of an hour from the first trade on, up   *)
(* to the first that has too few.                                           *)
LowVolume(times) ==
    LET n == Len(times)
        Past(limit) == Cardinality({i \in 1..n : times[i] < limit})
        firstLow[start \in 0..(LastTime + Hour)] ==
            IF start >= times[n] THEN Nil
            ELSE IF Past(start + Hour) - Past(start) < LowTrades THEN <<start>>
            ELSE firstLow[start + Hour]
    IN  IF n = 0 THEN FALSE
        ELSE IF times[1] = times[n] THEN n < LowTrades ELSE firstLow[times[1]] # Nil

TradeFlags(trades) ==
    LET sorted == InTime(trades) IN
    [gaps |-> GapsIn(sorted, Hour), low |-> LowVolume([i \in DOMAIN sorted |-> sorted[i].t])]

Volume(levels) == SumFunction([l \in levels |-> l.size])

(* assessDepthQuality of one book: relative spread over 5%, sizes 10 : 1. *)
BookFlags(book) ==
    IF book.bids = {} \/ book.asks = {}
    THEN [gap |-> TRUE, crossed |-> FALSE, wide |-> FALSE, low |-> FALSE]
    ELSE LET bid == Max({l.price : l \in book.bids})
             ask == Min({l.price : l \in book.asks})
         IN  [gap |-> FALSE, crossed |-> ask <= bid,
              wide |-> 2 * (ask - bid) * 100 > 5 * (ask + bid),
              low |-> \/ Volume(book.bids) * 10 < Volume(book.asks)
                      \/ Volume(book.asks) * 10 < Volume(book.bids)]

-----------------------------------------------------------------------------
(* Sources. *)

(* assessCrossSourceDeviation: for every price of OddsPipe the place of the *)
(* price of Polymarket it is compared with, or 0.  The pointer only moves   *)
(* forward, past prices more than an hour too early, and stays on the last. *)
Advanced(poly, from, time) ==
    Min({q \in from..(Len(poly) + 1) : q >= Len(poly) \/ poly[q] >= time - Hour})

Partners(odds, poly) ==
    LET pointer[i \in 0..Len(odds)] ==
            IF i = 0 THEN 1 ELSE Advanced(poly, pointer[i - 1], odds[i])
        Within(i, time) == i <= Len(poly) /\ poly[i] - time < Hour /\ time - poly[i] < Hour
    IN  [i \in DOMAIN odds |-> IF Within(pointer[i], odds[i]) THEN pointer[i] ELSE 0]

(* samplePerUtcHour, over the files of an ingestion, which share the hours  *)
(* that were seen: a snapshot is kept when none of its hour was read before *)
(* it, in a file before or earlier in its own.                              *)
Sampled(files) ==
    LET read == {s \in [file : DOMAIN files, t : Times] : s.t \in ToSet(files[s.file])}
        Before(a, b) == a.file < b.file \/ (a.file = b.file /\ a.t < b.t)
    IN  {s \in read : \A r \in read : Before(r, s) => r.t \div Hour # s.t \div Hour}

(* deriveTradeFromEvent: asset 0 is USDC, the token is 1. *)
FillTrade(fill) ==
    IF fill.maker = 0 /\ fill.takerAmount # 0
    THEN <<[side |-> "buy", usdc |-> fill.makerAmount, tokens |-> fill.takerAmount]>>
    ELSE IF fill.maker # 0 /\ fill.taker = 0 /\ fill.makerAmount # 0
    THEN <<[side |-> "sell", usdc |-> fill.takerAmount, tokens |-> fill.makerAmount]>>
    ELSE Nil

(* ingestTrades: the trades of two queries, of the events where the token   *)
(* is the maker's asset and of those where it is the taker's, without the   *)
(* ones that were met already.                                              *)
FillsOf(events) ==
    LET Asset(r) == IF r.query = 1 THEN events[r.place].maker ELSE events[r.place].taker
        read == {r \in [query : 1..2, place : DOMAIN events] :
                    Asset(r) = 1 /\ FillTrade(events[r.place]) # Nil}
        Before(a, b) == a.query < b.query \/ (a.query = b.query /\ a.place < b.place)
        kept == {r \in read : \A q \in read : Before(q, r) => events[q.place].id # events[r.place].id}
    IN  {[query |-> r.query, id |-> events[r.place].id, trade |-> FillTrade(events[r.place])[1]] :
            r \in kept}

-----------------------------------------------------------------------------
HistoryDataInit == measured = NotMeasured

Measures(of, in, out) == measured' = [of |-> of, in |-> in, out |-> out]

ListsOf(set, most) == UNION {[1..n -> set] : n \in 0..most}
Rising(most) == {s \in ListsOf(Times, most) : \A i, j \in DOMAIN s : i < j => s[i] < s[j]}
SidesOfBook == {s \in SUBSET [price : 1..3, size : {1, 11}] : Cardinality(s) <= 2}
Orders(id) == [id : {id}, maker : 0..2, taker : 0..2, makerAmount : {0, 4}, takerAmount : {0, 5}]

Request == \E client \in Clients, answers \in [1..Attempts -> HttpAnswers] :
    Measures("request", <<client, answers>>, Retried(client, answers))
AskFreshness == \E now \in Times : \E success \in 0..now, threshold \in 0..3 :
    Measures("freshness", <<success, now, threshold>>,
             [status |-> FreshStatus(success, now, threshold),
              event |-> StaleEvent(success, now, threshold)])
JudgePrices == \E prices \in ListsOf([t : Times, close : {0, 10, 13}, volume : {0, 1}], 2) :
    Measures("prices", prices, PriceFlags(prices, LastTime))
JudgeTrades == \E trades \in ListsOf([t : Times], MaxRecords) :
    Measures("trades", trades, TradeFlags(trades))
JudgeBook == \E bids, asks \in SidesOfBook :
    Measures("book", <<bids, asks>>, BookFlags([bids |-> bids, asks |-> asks]))
CompareSources == \E odds, poly \in Rising(MaxRecords - 1) :
    Measures("sources", <<odds, poly>>, Partners(odds, poly))
SampleFiles == \E first, second \in ListsOf(Times, 2) :
    Measures("sample", <<first, second>>, Sampled(<<first, second>>))
ReadFills == \E one \in Orders(1), two \in Orders(2) :
    Measures("fills", <<one, two>>, FillsOf(<<one, two>>))

HistoryDataNext ==
    /\ measured.of = "nothing"
    /\ \/ Request \/ AskFreshness \/ JudgePrices \/ JudgeTrades
       \/ JudgeBook \/ CompareSources \/ SampleFiles \/ ReadFills

HistoryDataSpec == HistoryDataInit /\ [][HistoryDataNext]_measured

-----------------------------------------------------------------------------
(* A request ends with its first answer that is not tried again, or throws  *)
(* after the last attempt.                                                  *)
RequestEnds ==
    measured.of = "request" =>
        LET client == measured.in[1]  answers == measured.in[2]  made == measured.out[2]
            final == {n \in 1..Attempts : Effect(client, answers[n]) # "again"}
        IN  /\ made = IF final = {} THEN Attempts ELSE Min(final)
            /\ measured.out[1] = "rows" <=> final # {} /\ answers[made] = "ok"

(* What the dashboard shows as stale is what the event reports.            *)
FreshnessAgrees ==
    measured.of = "freshness" /\ measured.in[3] > 0 =>
        /\ measured.out.status \in {"stale", "never"} <=> measured.out.event # "none"
        /\ measured.out.status = "never" => measured.out.event = "error"

(* Exactly the empty stretches are gaps, whatever the order of the rows.    *)
GapsExact(gaps, records, longest) ==
    LET rows == ToSet(records) IN
    /\ \A g \in gaps : \E a, b \in rows : g = <<a.t, b.t>>
    /\ \A a, b \in rows :
           <<a.t, b.t>> \in gaps <=> b.t - a.t > longest /\ \A c \in rows : c.t <= a.t \/ c.t >= b.t

(* A window of an hour with too few trades is found, wherever it lies.      *)
TradesJudged ==
    measured.of = "trades" /\ measured.in # Nil =>
        LET times == {r.t : r \in ToSet(measured.in)}
            InHour(from) == Cardinality({i \in DOMAIN measured.in :
                                measured.in[i].t \in from..(from + Hour - 1)})
            starts == {Min(times) + k * Hour : k \in 0..LastTime}
        IN  /\ GapsExact(measured.out.gaps, measured.in, Hour)
            /\ Cardinality(times) > 1 =>
                   (measured.out.low <=> \E from \in starts : from < Max(times) /\ InHour(from) < LowTrades)

PricesJudged ==
    measured.of = "prices" =>
        /\ GapsExact(measured.out.gaps, measured.in, GapAfter)
        /\ measured.out.jumps # {} => \E p, q \in ToSet(measured.in) : p.close * 6 < q.close * 5
                                                                     \/ q.close * 5 < p.close * 4

(* A book is crossed when somebody bids what somebody asks; a book that is  *)
(* crossed is never reported as wide.                                       *)
BookJudged ==
    measured.of = "book" =>
        LET bids == measured.in[1]  asks == measured.in[2] IN
        /\ measured.out.crossed <=> \E b \in bids, a \in asks : b.price >= a.price
        /\ ~(measured.out.crossed /\ measured.out.wide)
        /\ ~measured.out.gap /\ bids = asks => ~measured.out.low

(* A price is compared only with one within the hour, and one within the    *)
(* hour is found unless another lies an hour before to the instant.         *)
PartnersRight ==
    measured.of = "sources" =>
        LET odds == measured.in[1]  poly == measured.in[2]
            Near(i, j) == poly[j] - odds[i] < Hour /\ odds[i] - poly[j] < Hour
        IN  \A i \in DOMAIN odds :
                IF measured.out[i] = 0
                THEN (\E j \in DOMAIN poly : Near(i, j)) => odds[i] - Hour \in ToSet(poly)
                ELSE Near(i, measured.out[i])

(* One snapshot is kept of every hour that has one, the first of the first  *)
(* file that has it.                                                        *)
SampleRight ==
    measured.of = "sample" =>
        LET first == ToSet(measured.in[1])  second == ToSet(measured.in[2])
            HourOf(t) == t \div Hour
            Earliest(ts) == {t \in ts : \A u \in ts : HourOf(u) = HourOf(t) => t <= u}
            fresh == {t \in second : \A u \in first : HourOf(u) # HourOf(t)}
        IN  /\ {s.t : s \in measured.out} = Earliest(first) \cup Earliest(fresh)
            /\ \A r, s \in measured.out : HourOf(r.t) = HourOf(s.t) => r = s

(* Every event that pays USDC for the token is one trade, on the side of    *)
(* the event, and nothing else is.                                          *)
FillsRight ==
    measured.of = "fills" =>
        LET bought == {e \in ToSet(measured.in) : e.maker = 0 /\ e.taker = 1 /\ e.takerAmount # 0}
            sold == {e \in ToSet(measured.in) : e.maker = 1 /\ e.taker = 0 /\ e.makerAmount # 0}
        IN  /\ {t.id : t \in measured.out} = {e.id : e \in bought \cup sold}
            /\ \A s, t \in measured.out : s.id = t.id => s = t
            /\ \A t \in measured.out : /\ t.trade.tokens # 0
                                        /\ t.trade.side = "buy" <=> \E e \in bought : e.id = t.id

(* Every computation agrees with its definition by quantifiers.             *)
(* (fetchWithRetry of the clients, computeFreshStatus and checkStaleness,   *)
(* DataQualityService, samplePerUtcHour, the trades of Goldsky)             *)
HistoryDataSound ==
    /\ RequestEnds /\ FreshnessAgrees /\ TradesJudged /\ PricesJudged
    /\ BookJudged /\ PartnersRight /\ SampleRight /\ FillsRight
=============================================================================

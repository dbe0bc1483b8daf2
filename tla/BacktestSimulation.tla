------------------------- MODULE BacktestSimulation -------------------------
(***************************************************************************)
(* What a backtest simulates: aligned prices replayed chunk by chunk into  *)
(* a portfolio (runSimulationLoop, BacktestPortfolioService), and into the *)
(* two portfolios of a walk-forward analysis, which split the replay at    *)
(* one moment and start from the same bankroll.                            *)
(*                                                                         *)
(* A chunk has its own depth cache.  The eager one holds only snapshots    *)
(* taken inside the chunk, the lazy one asks the database for the latest;  *)
(* when the preload fails the chunk has none.  Without depth an entry is   *)
(* filled at the close price all the same, and the position is closed at   *)
(* the next step for INSUFFICIENT_DEPTH.                                   *)
(*                                                                         *)
(* Abstractions: prices are in units of 1/Unit, fees and gas a constant;   *)
(* the depth of a pair is that of its worse venue; a chunk that cannot be  *)
(* loaded is skipped whole (a lookup that fails in the middle of a chunk   *)
(* leaves the walk-forward portfolios behind: left out); every step is in  *)
(* the trading window; Sharpe ratio and utilization are left out.          *)
(***************************************************************************)
EXTENDS Integers, FiniteSets, Sequences, FiniteSetsExt, Functions

CONSTANTS
    SimPairs,       \* the pairs, in the order a step lists them
    Quotes,         \* what a step can quote: by pair, <<kalshi, polymarket>> or <<>>
    Unit,
    LastStep, ChunkLength,
    TrainEnd,       \* first step that is not training
    Bankroll, Size, Cost, Threshold, MaxPairs,
    CapturePct, Evaporation, TimeLimit,
    Resolution      \* by pair: the step it resolves at

PairSet == Range(SimPairs)

ASSUME SimConstants ==
    /\ SimPairs \in Seq(PairSet) /\ IsInjective(SimPairs)
    /\ \A quotes \in Quotes : /\ DOMAIN quotes = PairSet
                             /\ \A p \in PairSet : quotes[p] # <<>> => quotes[p] \in Nat \X Nat
    /\ {Unit, LastStep, TrainEnd, Size, Cost, MaxPairs, CapturePct, TimeLimit} \subseteq Nat
    /\ {ChunkLength, Bankroll} \subseteq Nat \ {0} /\ {Threshold, Evaporation} \subseteq Int
    /\ \A p \in PairSet : Resolution[p] \in Int

VARIABLES
    now,            \* the step replayed last
    chunkEnd,       \* the last step of the chunk under way
    cache,          \* kind of its depth cache
    seen,           \* by pair: the latest snapshot there is
    visible,        \* by pair: the one the cache of the chunk finds
    last,           \* the last step of the last chunk that had one: time and quotes
    lastTrain, lastTest,
    main, train, test,
    over

simVars == <<now, chunkEnd, cache, seen, visible, last, lastTrain, lastTest, main, train, test, over>>

(* Money is in units of a dollar / Unit as well. *)
Notional == Size * Unit
NoQuotes == [p \in PairSet |-> <<>>]
NoStep == [at |-> 0, quotes |-> NoQuotes]

Fresh == [available |-> Bankroll, deployed |-> 0, realized |-> 0, open |-> {}, trades |-> {},
          won |-> 0, lost |-> 0, peak |-> Bankroll, drawdown |-> 0]

SimInit ==
    /\ now = 0 /\ chunkEnd = 0 /\ cache = "eager"
    /\ seen = [p \in PairSet |-> "none"] /\ visible = [p \in PairSet |-> "none"]
    /\ last = NoStep /\ lastTrain = NoStep /\ lastTest = NoStep
    /\ main = Fresh /\ train = Fresh /\ test = Fresh
    /\ over = FALSE

-----------------------------------------------------------------------------
GrossEdge(buy, sell) == sell - buy
EdgeA(q) == GrossEdge(q[1], Unit - q[2])
EdgeB(q) == GrossEdge(q[2], Unit - q[1])
BuySide(q) == IF EdgeA(q) > EdgeB(q) THEN "kalshi" ELSE "polymarket"
NetEdge(q) == Max({EdgeA(q), EdgeB(q)}) - Cost

(* The price the market seems to have resolved at, or none. *)
ResolutionPrice(q) ==
    IF 20 * Max({q[1], q[2]}) >= 19 * Unit THEN {Unit}
    ELSE IF 20 * Min({q[1], Unit - q[2]}) <= Unit THEN {0}
    ELSE {}

LegPnl(side, entry, exit) == (IF side = "buy" THEN exit - entry ELSE entry - exit) * Size
PnlOf(pos, kalshi, polymarket) ==
    LegPnl(IF pos.side = "kalshi" THEN "buy" ELSE "sell", pos.quote[1], kalshi)
    + LegPnl(IF pos.side = "kalshi" THEN "sell" ELSE "buy", pos.quote[2], polymarket)

(* In hundredths. *)
DrawdownFrom(peak, equity) == ((peak - equity) * 100) \div peak

(* The end of updateEquity, for an equity. *)
Marked(f, equity) ==
    LET peak == Max({f.peak, equity}) IN
    [f EXCEPT !.peak = peak, !.drawdown = Max({@, DrawdownFrom(peak, equity)})]

(* The order in which positions were entered, which is that of a step's    *)
(* pairs within a step.                                                    *)
Place(p) == CHOOSE i \in DOMAIN SimPairs : SimPairs[i] = p
NoLater(a, b) == a.at < b.at \/ (a.at = b.at /\ Place(a.pair) <= Place(b.pair))
LeftBy(left, b) == {a \in left : NoLater(a, b)}

(* What each position that leaves brings, and the equity and its peak once  *)
(* it and those before it have left.                                       *)
PnlOfExits(exits) ==
    [pos \in DOMAIN exits |-> PnlOf(pos, exits[pos].quote[1], exits[pos].quote[2])]
EquityAfter(f, pnl, b) ==
    f.available + f.deployed + SumFunction([a \in LeftBy(DOMAIN pnl, b) |-> pnl[a]])
PeakAfter(f, pnl, b) ==
    Max({f.peak} \cup {EquityAfter(f, pnl, a) : a \in LeftBy(DOMAIN pnl, b)})
DrawdownAfter(f, pnl, b) == DrawdownFrom(PeakAfter(f, pnl, b), EquityAfter(f, pnl, b))

(* closePosition for the positions that leave, one after the other: for    *)
(* each the reason and the quote of its exit.                              *)
Closed(f, exits, at) ==
    LET left == DOMAIN exits
        pnl == PnlOfExits(exits)
    IN  [f EXCEPT
            !.available = @ + Notional * Cardinality(left) + SumFunction(pnl),
            !.deployed = @ - Notional * Cardinality(left),
            !.realized = @ + SumFunction(pnl),
            !.won = @ + SumFunction([pos \in left |-> Max({pnl[pos], 0})]),
            !.lost = @ + SumFunction([pos \in left |-> Max({-pnl[pos], 0})]),
            !.open = @ \ left,
            !.trades = @ \cup {[pair |-> pos.pair, in |-> pos.at, out |-> at, pnl |-> pnl[pos],
                               reason |-> exits[pos].reason] : pos \in left},
            !.peak = Max({@} \cup {EquityAfter(f, pnl, b) : b \in left}),
            !.drawdown = Max({@} \cup {DrawdownAfter(f, pnl, b) : b \in left})]

(* The exits of ExitEvaluatorService, the one that is taken first. *)
ExitReason(pos, q, at, depth) ==
    LET edge == NetEdge(q) IN
    IF at >= Resolution[pos.pair] /\ ResolutionPrice(q) # {} THEN "RESOLUTION_FORCE_CLOSE"
    ELSE IF depth = "none" THEN "INSUFFICIENT_DEPTH"
    ELSE IF pos.edge > 0 /\ (pos.edge - edge) * 100 >= CapturePct * pos.edge THEN "PROFIT_CAPTURE"
    ELSE IF edge < Evaporation THEN "EDGE_EVAPORATION"
    ELSE IF at - pos.at > TimeLimit THEN "TIME_DECAY"
    ELSE "none"

ExitQuote(q, reason) ==
    IF reason = "RESOLUTION_FORCE_CLOSE"
    THEN LET res == CHOOSE r \in ResolutionPrice(q) : TRUE IN <<res, Unit - res>>
    ELSE q

EvaluateExits(f, at, quotes, depth) ==
    LET reason == [pos \in f.open |-> IF quotes[pos.pair] = <<>> THEN "none"
                                      ELSE ExitReason(pos, quotes[pos.pair], at, depth[pos.pair])]
        leaving == {pos \in f.open : reason[pos] # "none"}
    IN  Closed(f, [pos \in leaving |-> [reason |-> reason[pos],
                                        quote |-> ExitQuote(quotes[pos.pair], reason[pos])]], at)

(* The places of the pairs worth an entry.  A pair without depth is filled  *)
(* at its close price, one with an empty book is not.                      *)
Worth(f, quotes, depth) ==
    {i \in DOMAIN SimPairs : LET p == SimPairs[i] IN
        /\ quotes[p] # <<>> /\ \A pos \in f.open : pos.pair # p
        /\ NetEdge(quotes[p]) >= Threshold /\ depth[p] # "empty"}

(* The first of them, as many as the limit and the capital leave room for. *)
Taken(f, worth) ==
    LET Rank(i) == Cardinality({j \in worth : j <= i})
    IN  {i \in worth : Cardinality(f.open) + Rank(i) <= MaxPairs /\ Notional * Rank(i) <= f.available}

Entry(p, at, q) ==
    [pair |-> p, at |-> at, quote |-> q, side |-> BuySide(q), edge |-> NetEdge(q)]

(* detectOpportunities with openPosition *)
DetectOpportunities(f, at, quotes, depth) ==
    LET taken == Taken(f, Worth(f, quotes, depth))
    IN  [f EXCEPT !.available = @ - Notional * Cardinality(taken),
                  !.deployed = @ + Notional * Cardinality(taken),
                  !.open = @ \cup {Entry(SimPairs[i], at, quotes[SimPairs[i]]) : i \in taken}]

(* Positions whose pair is not quoted count at cost. *)
UpdateEquity(f, quotes) ==
    LET marked == {pos \in f.open : quotes[pos.pair] # <<>>} IN
    Marked(f, f.available + f.deployed
              + SumFunction([pos \in marked |-> PnlOf(pos, quotes[pos.pair][1], quotes[pos.pair][2])]))

SimulationStep(f, at, quotes, depth) ==
    UpdateEquity(DetectOpportunities(EvaluateExits(f, at, quotes, depth), at, quotes, depth), quotes)

(* closeRemainingPositions: at the last quote, or at the entry price. *)
ClosePositions(f, step) ==
    Closed(f, [pos \in f.open |-> [reason |-> "SIMULATION_END",
                                   quote |-> IF step.quotes[pos.pair] = <<>> THEN pos.quote
                                             ELSE step.quotes[pos.pair]]], step.at)

-----------------------------------------------------------------------------
(* A chunk begins; one that cannot be loaded is skipped. *)
BeginChunk ==
    /\ ~over /\ now = chunkEnd /\ chunkEnd < LastStep
    /\ chunkEnd' = Min({chunkEnd + ChunkLength, LastStep})
    /\ \E kind \in {"eager", "lazy", "failed"} :
        /\ cache' = kind
        /\ visible' = IF kind = "lazy" THEN seen ELSE [p \in PairSet |-> "none"]
    /\ UNCHANGED <<now, seen, last, lastTrain, lastTest, main, train, test, over>>

SkipChunk ==
    /\ ~over /\ now = chunkEnd /\ chunkEnd < LastStep
    /\ chunkEnd' = Min({chunkEnd + ChunkLength, LastStep}) /\ now' = chunkEnd'
    /\ UNCHANGED <<cache, seen, visible, last, lastTrain, lastTest, main, train, test, over>>

(* fault: the step at the split is trained on as well *)
IsTrainThrough(at) == at <= TrainEnd

IsTrain(at) == at < TrainEnd

(* A step of the chunk, with the snapshots taken since the last one. *)
Step ==
    /\ ~over /\ now < chunkEnd
    /\ now' = now + 1
    /\ \E quotes \in Quotes, fresh \in SUBSET PairSet, book \in {"deep", "empty"} :
        /\ fresh = {} => book = "deep"
        /\ seen' = [p \in PairSet |-> IF p \in fresh THEN book ELSE seen[p]]
        /\ visible' = [p \in PairSet |-> IF p \in fresh /\ cache # "failed" THEN book ELSE visible[p]]
        /\ IF quotes = NoQuotes
           THEN UNCHANGED <<last, lastTrain, lastTest, main, train, test>>
           ELSE LET this == [at |-> now', quotes |-> quotes] IN
                /\ main' = SimulationStep(main, now', quotes, visible')
                /\ last' = this
                /\ IF IsTrain(now')
                   THEN /\ train' = SimulationStep(train, now', quotes, visible')
                        /\ lastTrain' = this /\ UNCHANGED <<test, lastTest>>
                   ELSE /\ test' = SimulationStep(test, now', quotes, visible')
                        /\ lastTest' = this /\ UNCHANGED <<train, lastTrain>>
    /\ UNCHANGED <<chunkEnd, cache, over>>

(* After the chunks. *)
EndSimulation ==
    /\ ~over /\ now = LastStep /\ chunkEnd = LastStep
    /\ main' = ClosePositions(main, last)
    /\ train' = ClosePositions(train, lastTrain)
    /\ test' = ClosePositions(test, lastTest)
    /\ over' = TRUE
    /\ UNCHANGED <<now, chunkEnd, cache, seen, visible, last, lastTrain, lastTest>>

SimNext == BeginChunk \/ SkipChunk \/ Step \/ EndSimulation

SimSpec == SimInit /\ [][SimNext]_simVars

-----------------------------------------------------------------------------
SimTypeOK ==
    /\ now \in 0..LastStep /\ chunkEnd \in now..LastStep
    /\ cache \in {"eager", "lazy", "failed"}
    /\ {seen, visible} \subseteq [PairSet -> {"none", "deep", "empty"}]

(* No money is made or lost by bookkeeping, and the accumulators that      *)
(* survive a flush agree with the trades.                                  *)
Conserved(f) ==
    /\ f.available + f.deployed = Bankroll + f.realized
    /\ f.deployed = Notional * Cardinality(f.open)
    /\ f.realized = f.won - f.lost
    /\ f.peak >= Bankroll + f.realized

(* A pair is held once, no more pairs than allowed, and a pair's trades    *)
(* follow each other.                                                      *)
OneAtATime(f) ==
    /\ Cardinality(f.open) <= MaxPairs
    /\ \A a, b \in f.open : a.pair = b.pair => a = b
    /\ \A t \in f.trades : t.in < t.out \/ (t.in = t.out /\ t.reason = "SIMULATION_END")
    /\ \A a, b \in f.trades : a.pair = b.pair /\ a # b => a.out <= b.in \/ b.out <= a.in
    /\ \A t \in f.trades, pos \in f.open : t.pair = pos.pair => t.out <= pos.at

(* Chunks, caches, missing quotes and skipped chunks leave every portfolio *)
(* conserved, within its limits and, at the end, flat; training sees       *)
(* nothing from the split on and testing nothing before it.                *)
SimulationSound ==
    /\ SimTypeOK
    /\ \A f \in {main, train, test} : Conserved(f) /\ OneAtATime(f) /\ (over => f.open = {})
    /\ \A t \in train.trades : t.out < TrainEnd
    /\ \A pos \in train.open : pos.at < TrainEnd
    /\ \A t \in test.trades : t.in >= TrainEnd
=============================================================================

---------------------------- MODULE ExitCriteria ----------------------------
(***************************************************************************)
(* When a position is left: ThresholdEvaluatorService with its fixed       *)
(* thresholds, its six criteria and the shadow mode that compares them,    *)
(* and the record ShadowComparisonService keeps of the comparison.         *)
(*                                                                         *)
(* Prices are in ticks; rates, ratios and multipliers are parts of Parts;   *)
(* a P&L is in ticks times Parts.  Both legs have Contracts contracts.      *)
(* Proximities and details, which the dashboard shows, are left out, and   *)
(* so is the recalculated edge, but for the rank it gives the position.    *)
(***************************************************************************)
EXTENDS Integers, Sequences

CONSTANTS
    Ticks,              \* ticks in a dollar
    Parts,              \* parts of one
    Contracts,          \* size of either leg
    ExitFee,            \* taker fee of both venues
    InitialEdges,       \* expected edges, in parts of a dollar
    EvapMultiplier,     \* exitEdgeEvapMultiplier, negated
    CaptureRatio,       \* exitProfitCaptureRatio
    DecayTrigger,       \* exitTimeDecayTrigger
    Horizon,            \* exitTimeDecayHorizonH
    HoursLeft,          \* hours to the resolution as <<h>>, or <<>> without a date
    ShadowCap           \* MAX_SHADOW_COMPARISONS

ASSUME CriteriaConstants ==
    /\ {Ticks, Parts, Contracts, Horizon, ShadowCap} \subseteq Nat \ {0}
    /\ InitialEdges \subseteq Nat \ {0} /\ ExitFee \in Nat

VARIABLES
    holding,            \* the position: its legs, edge, and whether its close prices are known
    exitMode,           \* "fixed", "model" or "shadow"
    lastVerdict,        \* the last evaluation
    comparisons         \* the shadow record since midnight

exitVars == <<holding, exitMode, lastVerdict, comparisons>>

TickPrice == 1 .. Ticks - 1
Sides == {"buy", "sell"}
Opposite(side) == IF side = "buy" THEN "sell" ELSE "buy"

(* Entry price, price it could be closed at on entry, and now.             *)
Leg == [side : Sides, entry : TickPrice, entryClose : TickPrice, now : TickPrice]
Legs == {holding.kalshi, holding.polymarket}

(* What else an evaluation looks at. *)
Context == [hours : HoursLeft, confidenceLost : BOOLEAN, riskApproaching : BOOLEAN,
            lowestEdge : BOOLEAN, thin : BOOLEAN]

-----------------------------------------------------------------------------
(* computeCommon *)

LegPnl(leg) == Parts * Contracts *
    (IF leg.side = "buy" THEN leg.now - leg.entry ELSE leg.entry - leg.now)
LegExitFee(leg) == ExitFee * Contracts * leg.now
LegReturn(leg) == LegPnl(leg) - LegExitFee(leg)
Pnl == LegReturn(holding.kalshi) + LegReturn(holding.polymarket)

OrZero(x) == IF x > 0 THEN x ELSE 0
Spread(leg) == OrZero(IF leg.side = "buy" THEN leg.entry - leg.entryClose
                                          ELSE leg.entryClose - leg.entry)
LegEntryCost(leg) == Contracts * (Parts * Spread(leg) + ExitFee * leg.entryClose)
Baseline ==
    IF holding.closeKnown
    THEN -(LegEntryCost(holding.kalshi) + LegEntryCost(holding.polymarket)) ELSE 0

(* initialEdge times the size, in ticks times Parts.                        *)
ScaledEdge == holding.edge * Ticks * Contracts

-----------------------------------------------------------------------------
(* The fixed thresholds, each times 10.                                    *)

StopLoss == Pnl <= Baseline - 2 * ScaledEdge

(* fault: the way from the entry baseline is all the target *)
TakeProfitTarget10Journey == 10 * Baseline + 8 * (ScaledEdge - Baseline)

JourneyTarget10 == 10 * Baseline + 8 * (ScaledEdge - Baseline)
TakeProfitTarget10 ==
    IF JourneyTarget10 > 0 THEN JourneyTarget10 ELSE OrZero(8 * ScaledEdge)
TakeProfit == 10 * Pnl >= TakeProfitTarget10

TimeBased(c) == c.hours # <<>> /\ c.hours[1] <= 48

Fixed(c) == IF StopLoss THEN "stop_loss"
            ELSE IF TakeProfit THEN "take_profit"
            ELSE IF TimeBased(c) THEN "time_based" ELSE "hold"

-----------------------------------------------------------------------------
(* The six criteria. *)

EdgeEvaporation == Parts * Pnl <= Parts * Baseline - ScaledEdge * EvapMultiplier
ProfitCapture == Parts * Pnl >= Parts * Baseline + ScaledEdge * CaptureRatio
TimeDecay(c) == c.hours # <<>> /\
    LET h == c.hours[1] IN h <= 0 \/ (h < Horizon /\
        (Horizon - h) * (Horizon - h) * Parts >= DecayTrigger * Horizon * Horizon)
RiskBudget(c) == c.riskApproaching /\ c.lowestEdge

(* In the order of EXIT_CRITERION_PRIORITY. *)
Criteria(c) == <<
    [name |-> "risk_budget",             met |-> RiskBudget(c)],
    [name |-> "edge_evaporation",        met |-> EdgeEvaporation],
    [name |-> "liquidity_deterioration", met |-> c.thin],
    [name |-> "model_confidence",        met |-> c.confidenceLost],
    [name |-> "time_decay",              met |-> TimeDecay(c)],
    [name |-> "profit_capture",          met |-> ProfitCapture]>>

ModelDriven(c) ==
    LET met == {k \in DOMAIN Criteria(c) : Criteria(c)[k].met}
        first == CHOOSE k \in met : \A j \in met : k <= j
    IN  IF met = {} THEN "hold" ELSE Criteria(c)[first].name

Triggered(verdict) == verdict # "hold"

-----------------------------------------------------------------------------
CriteriaInit ==
    /\ \E k, p \in Leg, e \in InitialEdges, known \in BOOLEAN :
         /\ p.side = Opposite(k.side) /\ k.now = k.entryClose /\ p.now = p.entryClose
         /\ holding = [kalshi |-> k, polymarket |-> p, edge |-> e, closeKnown |-> known]
    /\ exitMode = "fixed" /\ lastVerdict = "none" /\ comparisons = <<>>

PricesMove(k, p) ==
    /\ holding' = [holding EXCEPT !.kalshi.now = k, !.polymarket.now = p]
    /\ lastVerdict' = "none"
    /\ UNCHANGED <<exitMode, comparisons>>

ReloadMode(mode) ==
    /\ exitMode' = mode /\ lastVerdict' = "none"
    /\ UNCHANGED <<holding, comparisons>>

Compared(c) == [fixed |-> Triggered(Fixed(c)), model |-> Triggered(ModelDriven(c))]
Kept(log) == IF Len(log) > ShadowCap THEN Tail(log) ELSE log

(* evaluate: the fixed thresholds govern the shadow mode. *)
EvaluateExit(c) ==
    /\ lastVerdict = "none"
    /\ lastVerdict' = IF exitMode = "model" THEN ModelDriven(c) ELSE Fixed(c)
    /\ comparisons' = IF exitMode = "shadow" THEN Kept(Append(comparisons, Compared(c)))
                                             ELSE comparisons
    /\ UNCHANGED <<holding, exitMode>>

EmitDailySummary ==
    /\ comparisons # <<>> /\ comparisons' = <<>>
    /\ UNCHANGED <<holding, exitMode, lastVerdict>>

CriteriaNext ==
    \/ \E k, p \in TickPrice : PricesMove(k, p)
    \/ \E mode \in {"fixed", "model", "shadow"} : ReloadMode(mode)
    \/ \E c \in Context : EvaluateExit(c)
    \/ EmitDailySummary

CriteriaSpec == CriteriaInit /\ [][CriteriaNext]_exitVars

-----------------------------------------------------------------------------
(* As long as the close prices are what they were on entry, the costs of   *)
(* the entry alone do not make a position look like a loss to stop or a    *)
(* profit to take (a spread is a cost: no leg could be closed at a gain).  *)
EntryCostsAreNoVerdict ==
    (/\ \A leg \in Legs : leg.now = leg.entryClose
     /\ \A leg \in Legs : IF leg.side = "buy" THEN leg.entryClose <= leg.entry
                                               ELSE leg.entryClose >= leg.entry
     /\ holding.closeKnown /\ exitMode # "model")
        => lastVerdict \notin {"stop_loss", "take_profit"}

(* A profit that is taken is one, however much the baseline outweighs the  *)
(* edge.                                                                   *)
TakenProfitIsOne == lastVerdict = "take_profit" => Pnl > 0

ExitVerdictsSound == EntryCostsAreNoVerdict /\ TakenProfitIsOne
=============================================================================

--------------------------- MODULE EdgeCalculation ---------------------------
(***************************************************************************)
(* What the edge calculator (edge-calculator.service.ts) makes of a        *)
(* dislocation: the books normalised to YES prices, the VWAP of both legs  *)
(* for the detection size, fill ratios, fees, gas, the threshold that      *)
(* falls with the depth of the books, and the capital-efficiency gate.     *)
(*                                                                         *)
(* Prices are multiples of 1/Scale, rates multiples of 1/Unit (thresholds, *)
(* fees, fill ratios), and decimals are exact fractions.  The degradation  *)
(* multiplier is 1: while a venue is degraded detection skips every pair.  *)
(***************************************************************************)
EXTENDS Integers, Sequences, FiniteSets, Functions, FiniteSetsExt

CONSTANTS
  Scale,          \* ticks in a dollar
  Unit,           \* parts of one that rates are counted in
  Quantities,     \* quantities a level may hold
  MaxLevels,      \* levels a side of a book may have
  PositionSize,   \* DETECTION_POSITION_SIZE_USD, in ticks
  Gas,            \* the gas estimate, in ticks
  Fee,            \* taker fee of both venues, in parts of Unit
  Settings,       \* the configurations to start from
  Reloads,        \* values reloadConfig may be given, invalid ones included
  DaysLeft        \* days to the resolution date as <<n>>, or <<>> for no date

ASSUME EdgeAssumption ==
  /\ {Scale, Unit} \subseteq Nat \ {0} /\ PositionSize \in Nat \ {0}
  /\ Quantities \subseteq Nat \ {0} /\ {MaxLevels, Gas} \subseteq Nat
  /\ Fee \in 0..Unit
  /\ Settings \subseteq [minEdge : Nat, minFill : Nat, scaling : Nat, cap : Nat, minReturn : Nat]
  /\ Reloads \subseteq Int

VARIABLES
  dislocation,    \* raw levels of the asks bought and of the bids sold
  settings,       \* minEdge, minFill, scaling, cap, minReturn
  verdict         \* what processSingleDislocation decided

edgeVars == <<dislocation, settings, verdict>>

----------------------------------------------------------------------------
(* Fractions, as exact as the decimals of the code.                        *)

Frac(n, d)   == [n |-> n, d |-> d]
Times(a, b)  == Frac(a.n * b.n, a.d * b.d)
AtLeast(a, b) == a.n * b.d >= b.n * a.d
Smaller(a, b) == IF AtLeast(a, b) THEN b ELSE a
CeilDiv(a, b) == (a + b - 1) \div b

----------------------------------------------------------------------------
(* Books.  Venues do not promise an order of levels.                       *)

Level  == [price : 1..(Scale - 1), qty : Quantities]
Levels == {s \in UNION {[1..n -> Level] : n \in 1..MaxLevels} :
             \A i, j \in DOMAIN s : i /= j => s[i].price /= s[j].price}

\* A Kalshi NO bid at p is a YES ask at 1 - p.
YesAsks(levels) == [i \in DOMAIN levels |-> [levels[i] EXCEPT !.price = Scale - @]]

\* The levels by price: rising when sign is 1, falling when it is -1.
Place(levels, i, sign) ==
  1 + Cardinality({j \in DOMAIN levels : sign * levels[j].price < sign * levels[i].price})
Sorted(levels, sign) ==
  [k \in DOMAIN levels |-> levels[CHOOSE i \in DOMAIN levels : Place(levels, i, sign) = k]]

\* A plausible bug: the asks stay in the order of the NO bids.
AsksOfBids(d) == Sorted(IF d.kalshiBuys THEN YesAsks(d.asks) ELSE d.asks, -1)

Asks(d) == Sorted(IF d.kalshiBuys THEN YesAsks(d.asks) ELSE d.asks, 1)
Bids(d) == Sorted(d.bids, -1)

\* The contracts of the first i levels.
DepthTo(levels, i) == SumFunction([j \in 1..i |-> levels[j].qty])
Depth(levels) == DepthTo(levels, Len(levels))

\* What the walk takes at level i when n contracts are wanted.
FillAt(levels, i, n) == Min({levels[i].qty, Max({0, n - DepthTo(levels, i - 1)})})

Filled(levels, n) == Min({n, Depth(levels)})
Cost(levels, n) == SumFunction([i \in DOMAIN levels |-> FillAt(levels, i, n) * levels[i].price])
Vwap(levels, n) == Frac(Cost(levels, n), Filled(levels, n) * Scale)

----------------------------------------------------------------------------
(* The edge of a dislocation and the gates it has to pass.                 *)

Target(levels) == CeilDiv(PositionSize, levels[1].price)

FillRatioMet(levels) ==
  Filled(levels, Target(levels)) * Unit >= settings.minFill * Target(levels)

\* A plausible bug: the fee of the sold leg is forgotten.
NetEdgeOneFee(buy, sell) ==
  LET gross == sell.n * buy.d - buy.n * sell.d
      one   == buy.d * sell.d
  IN  Frac((gross * Unit - Fee * buy.n * sell.d) * PositionSize - Gas * Unit * one,
           one * Unit * PositionSize)

\* Gross edge less the fees of both legs and the share of gas.
NetEdge(buy, sell) ==
  LET gross == sell.n * buy.d - buy.n * sell.d
      fees  == Fee * (sell.n * buy.d + buy.n * sell.d)
      one   == buy.d * sell.d
  IN  Frac((gross * Unit - fees) * PositionSize - Gas * Unit * one,
           one * Unit * PositionSize)

\* minEdge * (1 + scaling / depth), never above the cap.
Threshold(depth) ==
  LET min  == Frac(settings.minEdge, Unit)
      base == Frac(settings.minEdge * (depth + settings.scaling), Unit * depth)
  IN  IF settings.scaling > 0 THEN Smaller(base, Frac(settings.cap, Unit)) ELSE min

AnnualReturn(edge, days) == Times(edge, Frac(365, days))

\* The reason for filtering a dislocation, or "actionable".
Reason(d) ==
  LET asks == Asks(d)
      bids == Bids(d)
      edge == NetEdge(Vwap(asks, Target(asks)), Vwap(bids, Target(bids)))
  IN  IF ~FillRatioMet(asks) \/ ~FillRatioMet(bids) THEN "insufficient_vwap_depth"
      ELSE IF ~AtLeast(edge, Threshold(Min({Depth(asks), Depth(bids)})))
           THEN IF edge.n < 0 THEN "negative_edge" ELSE "below_threshold"
      ELSE IF d.days = <<>> THEN "no_resolution_date"
      ELSE IF d.days[1] <= 0 THEN "resolution_date_passed"
      ELSE IF ~AtLeast(AnnualReturn(edge, d.days[1]), Frac(settings.minReturn, Unit))
           THEN "annualized_return"
      ELSE "actionable"

\* Detection only passes on books whose best prices leave a gross edge.
IsDislocation(d) == Bids(d)[1].price > Asks(d)[1].price

Dislocations ==
  {d \in [asks : Levels, bids : Levels, kalshiBuys : BOOLEAN, days : DaysLeft] :
     IsDislocation(d)}

EdgeInit ==
  /\ dislocation \in Dislocations
  /\ settings \in Settings
  /\ verdict = "none"

ProcessDislocation ==
  /\ verdict = "none"
  /\ verdict' = Reason(dislocation)
  /\ UNCHANGED <<dislocation, settings>>

\* Each setting is taken over on its own; a value out of range is ignored.
SettingAllowed(key, v) ==
  CASE key = "minEdge" -> v >= 0
    [] key = "scaling" -> v >= 0
    [] key \in {"minFill", "cap"} -> v > 0 /\ v <= Unit

ReloadConfig(key, v) ==
  /\ settings' = IF SettingAllowed(key, v) THEN [settings EXCEPT ![key] = v] ELSE settings
  /\ verdict' = "none"
  /\ UNCHANGED dislocation

EdgeNext ==
  \/ ProcessDislocation
  \/ \E key \in {"minEdge", "minFill", "scaling", "cap"}, v \in Reloads : ReloadConfig(key, v)

EdgeSpec == EdgeInit /\ [][EdgeNext]_edgeVars

----------------------------------------------------------------------------
(* Properties.                                                             *)

\* Walking a normalised side takes the best prices: no other way of taking as
\* many contracts from the book is cheaper to buy or dearer to sell.
Takings(levels, n) ==
  {t \in [DOMAIN levels -> 0..Max(Quantities)] :
     /\ \A i \in DOMAIN levels : t[i] <= levels[i].qty
     /\ SumFunction(t) = Filled(levels, n)}
Price(levels, t) == SumFunction([i \in DOMAIN levels |-> t[i] * levels[i].price])

WalkTakesBest ==
  LET asks == Asks(dislocation)
      bids == Bids(dislocation)
  IN  /\ \A t \in Takings(asks, Target(asks)) : Cost(asks, Target(asks)) <= Price(asks, t)
      /\ \A t \in Takings(bids, Target(bids)) : Cost(bids, Target(bids)) >= Price(bids, t)

\* An actionable opportunity earns at least the operator's minimum (or the cap
\* on thresholds, when that is lower) at every number of contracts that both
\* books can fill within the detection size, not only at the two different
\* sizes the legs were priced for.
ActionableIsProfitable ==
  verdict = "actionable" =>
    LET asks == Asks(dislocation)
        bids == Bids(dislocation)
        n    == Min({Filled(asks, Target(asks)), Filled(bids, Target(bids))})
        min  == Min({settings.minEdge, settings.cap})
    IN  \A k \in 1..n :
          LET earned == Cost(bids, k)
              paid   == Cost(asks, k)
          IN  ((earned - paid) * Unit - Fee * (earned + paid)) * PositionSize
                - Gas * Unit * k * Scale
              >= min * k * Scale * PositionSize

\* What reaches the queue is priced as it could be filled, and is worth it.
EdgeSound == WalkTakesBest /\ ActionableIsProfitable

=============================================================================

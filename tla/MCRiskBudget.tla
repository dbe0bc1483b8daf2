---------------------------- MODULE MCRiskBudget ----------------------------
(* Small instances of RiskBudget.  Amounts are in units of the smallest    *)
(* position; every limit is reached after one to three of them.            *)
EXTENDS RiskBudget, TLC

CONSTANTS r1, r2, r3, pA, pB, pC, t1, t2

Limits(bankroll, size, pairs, loss) ==
    [bankroll |-> [m \in Mode |-> bankroll], maxPosition |-> [m \in Mode |-> size],
     maxOpenPairs |-> pairs, dailyLossLimit |-> [m \in Mode |-> loss]]

OneConfig == {Limits(3, 2, 2, 2)}
TightConfig == {Limits(1, 1, 1, 1)}
SlotConfigs == {Limits(3, 2, 2, 2), Limits(2, 1, 1, 2)}

FreshRow == [openCount |-> 0, deployed |-> 0, dailyPnl |-> 0, haltReasons |-> {},
             lastReset |-> Never, reserved |-> {}]
OldRow == [FreshRow EXCEPT !.dailyPnl = -2, !.haltReasons = HaltReason]

LossOrGain == {-2, 1}
UnitLoss == {-1}

JustFresh == {FreshRow}
SomeRows == {FreshRow, OldRow}

Symmetry == Permutations(Request) \cup Permutations(Pair) \cup Permutations(Ticket)
=============================================================================

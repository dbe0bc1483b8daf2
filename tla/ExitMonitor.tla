---------------------------- MODULE ExitMonitor ----------------------------
(***************************************************************************)
(* The polling of open positions for an exit (ExitMonitorService), for the *)
(* positions of one pair, and the size it takes them to have.  Cycles that *)
(* overlap are left to module PositionExit.                                *)
(*                                                                         *)
(* A position that was partly exited has no size of its own in the         *)
(* database: getResidualSize subtracts from its entry fills the fills of   *)
(* every order of the PAIR that is not one of its two entry orders.        *)
(* Another position of the pair, open or long closed, thus counts as an    *)
(* exit of this one.                                                       *)
(*                                                                         *)
(* Abstractions: the legs are exited in step, so a position holds one      *)
(* number of contracts (module PositionExit has the legs, the chunks, and  *)
(* the operator); the verdict of the thresholds (module ExitCriteria) is   *)
(* any; paper and live are one mode.                                       *)
(***************************************************************************)
EXTENDS Integers, FiniteSets, Functions

CONSTANTS
    Monitored,      \* the positions of the pair
    EntryFill,      \* contracts each was entered with
    BreakAfter      \* CIRCUIT_BREAKER_THRESHOLD

ASSUME MonitorConstants ==
    /\ IsFiniteSet(Monitored)
    /\ EntryFill \in Nat \ {0} /\ BreakAfter \in Nat \ {0}

VARIABLES
    row,            \* by position: status; "none" before it is entered
    held,           \* by position: contracts held at the venues, on either leg
    exited,         \* by position: the fills of its exit orders
    round,          \* the cycle under way: positions to evaluate, as read
    failedRounds,   \* consecutiveFullFailures
    skipNextCycle

monitorVars == <<row, held, exited, round, failedRounds, skipNextCycle>>

Idle == [todo |-> {}, anySucceeded |-> FALSE, going |-> FALSE]
Status == {"none", "OPEN", "EXIT_PARTIAL", "CLOSED"}
Entered == {p \in Monitored : row[p] # "none"}

MonitorInit ==
    /\ row = [p \in Monitored |-> "none"]
    /\ held = [p \in Monitored |-> 0] /\ exited = [p \in Monitored |-> 0]
    /\ round = Idle /\ failedRounds = 0
    /\ skipNextCycle = FALSE

(* fault: the exits of this position are forgotten *)
ExitFillsOfOthers(p) == SumFunction([q \in Entered \ {p} |-> exited[q]])

(* What getResidualSize takes for exit fills of p: every order of the pair *)
(* but the entry orders of p.                                              *)
ExitFills(p) == SumFunction([q \in Entered |-> exited[q]])
EntryFillsOfOthers(p) == EntryFill * Cardinality(Entered \ {p})
Residual(p) ==
    LET left == EntryFill - ExitFills(p) - EntryFillsOfOthers(p) IN IF left > 0 THEN left ELSE 0

EffectiveSize(p, status) == IF status = "EXIT_PARTIAL" THEN Residual(p) ELSE EntryFill

-----------------------------------------------------------------------------
(* The execution queue enters a position of the pair. *)
Enter(p) ==
    /\ row[p] = "none"
    /\ row' = [row EXCEPT ![p] = "OPEN"] /\ held' = [held EXCEPT ![p] = EntryFill]
    /\ UNCHANGED <<exited, round, failedRounds, skipNextCycle>>

(* evaluatePositions: a cycle that is skipped, cannot read the positions,  *)
(* or finds none, ends at once.                                            *)
SkipCycle ==
    /\ ~round.going /\ skipNextCycle
    /\ skipNextCycle' = FALSE /\ failedRounds' = 0
    /\ UNCHANGED <<row, held, exited, round>>

BeginCycle ==
    /\ ~round.going /\ ~skipNextCycle
    /\ LET active == {p \in Monitored : row[p] \in {"OPEN", "EXIT_PARTIAL"}} IN
       /\ active # {}
       /\ round' = [todo |-> {<<p, row[p]>> : p \in active}, anySucceeded |-> FALSE, going |-> TRUE]
    /\ UNCHANGED <<row, held, exited, failedRounds, skipNextCycle>>

Evaluated(task) == round' = [round EXCEPT !.todo = @ \ {task}, !.anySucceeded = TRUE]

EvaluationThrows(task) ==
    /\ task \in round.todo
    /\ round' = [round EXCEPT !.todo = @ \ {task}]
    /\ UNCHANGED <<row, held, exited, failedRounds, skipNextCycle>>

(* A venue is disconnected, a price is missing, or no threshold is met.    *)
Hold(task) ==
    /\ task \in round.todo /\ Evaluated(task)
    /\ UNCHANGED <<row, held, exited, failedRounds, skipNextCycle>>

(* A residual of zero on both legs closes the row as it is.                *)
CloseSpent(task) ==
    /\ task \in round.todo /\ task[2] = "EXIT_PARTIAL" /\ Residual(task[1]) = 0
    /\ Evaluated(task)
    /\ row' = [row EXCEPT ![task[1]] = "CLOSED"]
    /\ UNCHANGED <<held, exited, failedRounds, skipNextCycle>>

(* executeExit, which reads the status again, sells n of the contracts.    *)
Exit(task, n) ==
    /\ task \in round.todo /\ row[task[1]] \in {"OPEN", "EXIT_PARTIAL"}
    /\ n \in 1 .. EffectiveSize(task[1], task[2])
    /\ LET p == task[1] IN
       /\ held' = [held EXCEPT ![p] = @ - n] /\ exited' = [exited EXCEPT ![p] = @ + n]
       /\ row' = [row EXCEPT ![p] = IF n = EffectiveSize(p, task[2]) THEN "CLOSED" ELSE "EXIT_PARTIAL"]
    /\ Evaluated(task)
    /\ UNCHANGED <<failedRounds, skipNextCycle>>

EndCycle ==
    /\ round.going /\ round.todo = {}
    /\ round' = Idle
    /\ failedRounds' = IF round.anySucceeded THEN 0 ELSE failedRounds + 1
    /\ skipNextCycle' = (~round.anySucceeded /\ failedRounds + 1 >= BreakAfter)
    /\ UNCHANGED <<row, held, exited>>

MonitorNext ==
    \/ \E p \in Monitored : Enter(p)
    \/ SkipCycle \/ BeginCycle \/ EndCycle
    \/ \E task \in round.todo :
         \/ EvaluationThrows(task) \/ Hold(task) \/ CloseSpent(task)
         \/ \E n \in 1 .. EntryFill : Exit(task, n)

MonitorSpec == MonitorInit /\ [][MonitorNext]_monitorVars

-----------------------------------------------------------------------------
MonitorTypeOK ==
    /\ row \in [Monitored -> Status]
    /\ held \in [Monitored -> Int] /\ exited \in [Monitored -> Nat]
    /\ round \in [todo : SUBSET (Monitored \X {"OPEN", "EXIT_PARTIAL"}),
                  anySucceeded : BOOLEAN, going : BOOLEAN]
    /\ failedRounds \in 0 .. BreakAfter /\ skipNextCycle \in BOOLEAN

(* A row is closed only when everything the position bought was sold, as   *)
(* long as it is the only position the pair ever had; and no sequence of   *)
(* partial exits sells more than the position holds, siblings or not.      *)
ResidualIsOwn ==
    /\ \A p \in Monitored : held[p] >= 0
    /\ Cardinality(Entered) <= 1 => \A p \in Monitored : row[p] = "CLOSED" => held[p] = 0

(* "For EXIT_PARTIAL positions, subtracts all exit order fills from entry  *)
(* sizes" (residual-size.ts): what a closed row leaves behind is nothing.  *)
ClosedMeansSold == \A p \in Monitored : row[p] = "CLOSED" => held[p] = 0

(* The rows are well formed, and a lone position is sold as a whole and no  *)
(* position more than once.                                                *)
MonitorSound == MonitorTypeOK /\ ResidualIsOwn
=============================================================================

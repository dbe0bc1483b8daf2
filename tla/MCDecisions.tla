---------------------------- MODULE MCDecisions ----------------------------
(* One run for the decisions of the engine and the order books it is       *)
(* given: the state says which module moves, the others rest in an initial *)
(* state.                                                                  *)
EXTENDS TradingCycle, EdgeCalculation, ExitCriteria, ExitMonitor, MarketFeeds, TLC

CONSTANTS p1, p2, k1, k2, m1

TwoPairs == <<p1, p2>>
OneCluster == (p1 :> "c") @@ (p2 :> "c")
SizeOfPair == (p1 :> 4) @@ (p2 :> 3)

EdgeSettings == [minEdge : {1}, minFill : {10}, scaling : {0, 2}, cap : {2}, minReturn : {3}]
EdgeDays == {<<>>, <<0>>, <<365>>}
ExitHours == {<<>>, <<40>>}

(* Each of two pairs has a contract of its own at Kalshi, and they share   *)
(* the one at Polymarket.                                                  *)
OwnAndShared == (p1 :> {k1, m1}) @@ (p2 :> {k2, m1})
(* A third level pushes the worst out of a side of two: then one of the two *)
(* goes and the worst grows; or the worst shrinks and the best goes.        *)
BooksOf ==
    (k1 :> <<<<1, 1, 0>>, <<1, 1, 1>>, <<1, 0, 1>>, <<2, 0, 1>>>>) @@
    (k2 :> <<<<2, 0, 1>>, <<2, 1, 1>>, <<1, 1, 1>>, <<1, 1, 0>>>>)
NumberedBooks == [t \in {k1, k2} |-> [n \in 0 .. 3 |-> BooksOf[t][n + 1]]]

VARIABLE decision

vars == <<decision, cycleVars, edgeVars, exitVars, monitorVars, feedVars>>

RestingDislocation == CHOOSE d \in Dislocations : TRUE
RestingSettings == CHOOSE s \in Settings : TRUE
RestingLeg(s) == [side |-> s, entry |-> 1, entryClose |-> 1, now |-> 1]
RestingHolding == [kalshi |-> RestingLeg("buy"), polymarket |-> RestingLeg("sell"),
                   edge |-> CHOOSE e \in InitialEdges : TRUE, closeKnown |-> TRUE]

Init ==
    /\ decision \in {"cycle", "edge", "exit", "monitor", "feeds"}
    /\ CycleInit /\ MonitorInit /\ FeedInit
    /\ decision # "feeds" => openPair = {}
    /\ IF decision = "edge" THEN EdgeInit
       ELSE dislocation = RestingDislocation /\ settings = RestingSettings /\ verdict = "none"
    /\ IF decision = "exit" THEN CriteriaInit
       ELSE /\ holding = RestingHolding /\ exitMode = "fixed"
            /\ lastVerdict = "none" /\ comparisons = <<>>

Next ==
    /\ UNCHANGED decision
    /\ \/ /\ decision = "cycle" /\ CycleNext
          /\ UNCHANGED <<edgeVars, exitVars, monitorVars, feedVars>>
       \/ /\ decision = "edge" /\ EdgeNext
          /\ UNCHANGED <<cycleVars, exitVars, monitorVars, feedVars>>
       \/ /\ decision = "exit" /\ CriteriaNext
          /\ UNCHANGED <<cycleVars, edgeVars, monitorVars, feedVars>>
       \/ /\ decision = "monitor" /\ MonitorNext
          /\ UNCHANGED <<cycleVars, edgeVars, exitVars, feedVars>>
       \/ /\ decision = "feeds" /\ FeedNext
          /\ UNCHANGED <<cycleVars, edgeVars, exitVars, monitorVars>>

Spec == Init /\ [][Next]_vars
=============================================================================

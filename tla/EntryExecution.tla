--------------------------- MODULE EntryExecution ---------------------------
(***************************************************************************)
(* How a ranked opportunity becomes a position: ExecutionQueueService      *)
(* reserves budget, ExecutionService passes the gates, sends the primary   *)
(* leg, records its fill, sends the secondary leg, records that, creates   *)
(* the position row, and the queue commits or releases the reservation.    *)
(* A leg that fails after the first is filled goes to LegSequencingService *)
(* .handleSingleLeg, which stores an exposed position and announces it;    *)
(* ExposureAlertScheduler announces live exposed positions again.          *)
(*                                                                         *)
(* The queue takes opportunities one at a time, and between two awaits     *)
(* nothing else of this pipeline runs, so each action below is the code    *)
(* from one await to the next.  The venues are external: an order may fill *)
(* at once, later or never, and its answer may be lost.                    *)
(***************************************************************************)
EXTENDS Naturals, FiniteSets

CONSTANTS
    Opportunity,      \* live opportunities handed to the queue
    NoOpportunity,    \* the queue is idle
    KalshiCost,       \* collateral of one contract on each platform
    PolymarketCost,
    MaxReserved,      \* bound: the capital of a reservation
    MinFillPercent,   \* EXECUTION_MIN_FILL_RATIO
    MaxLost,          \* bounds: answers lost on the way back, failed inserts, crashes
    MaxDbFailures,
    MaxCrashes

ASSUME EntryConstants ==
    /\ NoOpportunity \notin Opportunity
    /\ KalshiCost \in Nat \ {0} /\ PolymarketCost \in Nat \ {0}
    /\ MaxReserved \in Nat /\ MinFillPercent \in 1..100
    /\ MaxLost \in 0..3  \* NETWORK_ERROR.maxRetries
    /\ MaxDbFailures \in Nat /\ MaxCrashes \in Nat

Platform == {"kalshi", "polymarket"}
Other(p) == IF p = "kalshi" THEN "polymarket" ELSE "kalshi"

Stage ==
    {"queued", "gates", "primary", "recordPrimary", "secondary", "recordPending",
     "recordSecondary", "open", "expose", "announce", "adjust", "commit", "release", "over"}

VARIABLES
    working,    \* the opportunity processOneOpportunity is at
    stage,      \* where it is, for every opportunity
    primary,    \* sequencingDecision.primaryLeg
    size,       \* equalizedSize; 0 before the gates
    budget,     \* the reservation: status and reservedCapitalUsd
    told,       \* the OrderResult of each leg: status and filledQuantity
    order,      \* status of each leg's row in orders; FILLED stands for PARTIAL too
    position,   \* status of the row in open_positions
    announced,  \* opportunities whose exposure was emitted, as event or reminder
    venue,      \* external: contracts held and still resting, by leg
    linked,     \* neither connector is disconnected
    unheard,    \* history: opportunities with a lost answer
    spoiled,    \* history: opportunities hit by a failed insert or a crash
    lost, dbFailures, crashes

progress == <<working, stage, primary, size>>
rows == <<order, position>>
faults == <<lost, dbFailures, crashes>>
vars == <<progress, budget, told, rows, announced, venue, linked, unheard, spoiled, faults>>

Unanswered == [status |-> "none", quantity |-> 0]
Nothing == [held |-> 0, resting |-> 0]

Init ==
    /\ working = NoOpportunity
    /\ stage = [o \in Opportunity |-> "queued"]
    /\ primary \in [Opportunity -> Platform]
    /\ size = [o \in Opportunity |-> 0]
    /\ budget = [o \in Opportunity |-> [status |-> "none", capital |-> 0]]
    /\ told = [o \in Opportunity |-> [p \in Platform |-> Unanswered]]
    /\ order = [o \in Opportunity |-> [p \in Platform |-> "none"]]
    /\ position = [o \in Opportunity |-> "none"]
    /\ announced = {} /\ linked = TRUE
    /\ venue = [o \in Opportunity |-> [p \in Platform |-> Nothing]]
    /\ unheard = {} /\ spoiled = {}
    /\ lost = 0 /\ dbFailures = 0 /\ crashes = 0

Cost(p) == IF p = "kalshi" THEN KalshiCost ELSE PolymarketCost
UnitCost == KalshiCost + PolymarketCost      \* combinedDivisor

At(o, s) == working = o /\ stage[o] = s
Goto(o, s) == stage' = [stage EXCEPT ![o] = s] /\ UNCHANGED <<working, primary>>
Finish(o) == stage' = [stage EXCEPT ![o] = "over"] /\ working' = NoOpportunity /\ UNCHANGED primary
Leg(o) == IF stage[o] = "primary" THEN primary[o] ELSE Other(primary[o])
Filled(o, p) == told[o][p].status = "filled"

-----------------------------------------------------------------------------
(* Definitions marked "fault" are plausible mistakes in the definition     *)
(* that follows them; the model does not use them.                         *)

(* processOneOpportunity up to the answer of reserveBudget. *)
Reserve(o) ==
    /\ working = NoOpportunity /\ stage[o] = "queued"
    /\ \/ \E c \in 1..MaxReserved :
            /\ budget' = [budget EXCEPT ![o] = [status |-> "held", capital |-> c]]
            /\ working' = o
            /\ stage' = [stage EXCEPT ![o] = "gates"]
       \/ /\ stage' = [stage EXCEPT ![o] = "over"]
          /\ UNCHANGED <<working, budget>>
    /\ UNCHANGED <<primary, size, told, rows, announced, venue, linked, unheard, spoiled, faults>>

OneSidedCount(o) == budget[o].capital \div Cost(primary[o])  \* fault: the other leg needs no collateral

IdealCount(o) == budget[o].capital \div UnitCost

MinFillSize(n) == (n * MinFillPercent + 99) \div 100

(* The gates: compliance, sizing, the depth of both books read twice, and  *)
(* the edge again when depth cuts the size.  Any of them may refuse.       *)
Gates(o) ==
    /\ At(o, "gates")
    /\ \/ \E n \in MinFillSize(IdealCount(o))..IdealCount(o) :
            /\ IdealCount(o) > 0
            /\ size' = [size EXCEPT ![o] = n]
            /\ Goto(o, "primary")
       \/ Goto(o, "release") /\ UNCHANGED size
    /\ UNCHANGED <<budget, told, rows, announced, venue, linked, unheard, spoiled, faults>>

-----------------------------------------------------------------------------
(* Submitting a leg. *)

(* What submitOrder may return for an order of n contracts, and what the   *)
(* venue then holds: a fill of some of it; a refusal; "pending", from a    *)
(* resting order on Kalshi or a poll that times out on Polymarket; or an   *)
(* error, which says nothing of the order.                                 *)
Answers(n) ==
    [status : {"filled"}, quantity : 1..n, resting : {0}]
        \cup [status : {"rejected"}, quantity : {0}, resting : {0}]
        \cup [status : {"pending"}, quantity : {0}, resting : 1..n]
        \cup [status : {"error"}, quantity : {0}, resting : 0..n]

HeldBy(a, n) ==
    CASE a.status = "filled" -> {a.quantity}
      [] a.status = "rejected" -> {0}
      [] a.status = "pending" -> {n - a.resting}
      [] a.status = "error" -> {0, n - a.resting}

Reaches(o, held, resting) ==
    venue' = [venue EXCEPT ![o][Leg(o)] =
                [held |-> @.held + held, resting |-> @.resting + resting]]

NextUnrecorded(o, a) ==          \* fault: the primary's fill is stored with the secondary's
    IF stage[o] = "primary" THEN IF a.status = "filled" THEN "secondary" ELSE "release"
    ELSE IF a.status = "filled" THEN "recordSecondary" ELSE "expose"

NextPendingDropped(o, a) ==      \* fault: a pending secondary is treated as a refusal
    IF stage[o] = "primary" THEN IF a.status = "filled" THEN "recordPrimary" ELSE "release"
    ELSE IF a.status = "filled" THEN "recordSecondary" ELSE "expose"

(* Where submitOrderPair goes from an answer. *)
NextAfter(o, a) ==
    IF stage[o] = "primary" THEN IF a.status = "filled" THEN "recordPrimary" ELSE "release"
    ELSE CASE a.status = "filled" -> "recordSecondary"
           [] a.status = "pending" -> "recordPending"
           [] OTHER -> "expose"

Submit(o) ==
    /\ At(o, "primary") \/ At(o, "secondary")
    /\ \E a \in Answers(size[o]) : \E held \in HeldBy(a, size[o]) :
         LET silent == a.status = "error" /\ held + a.resting > 0 IN
         /\ silent => lost < MaxLost
         /\ lost' = IF silent THEN lost + 1 ELSE lost
         /\ unheard' = IF silent THEN unheard \cup {o} ELSE unheard
         /\ told' = [told EXCEPT ![o][Leg(o)] = [status |-> a.status, quantity |-> a.quantity]]
         /\ Reaches(o, held, a.resting)
         /\ Goto(o, NextAfter(o, a))
    /\ UNCHANGED <<size, budget, rows, announced, linked, spoiled, dbFailures, crashes>>

(* withRetry: Kalshi's createOrder is sent again when its answer is lost.  *)
Resubmit(o) ==
    /\ At(o, "primary") \/ At(o, "secondary")
    /\ Leg(o) = "kalshi" /\ lost < MaxLost
    /\ \E held \in 0..size[o] : Reaches(o, held, size[o] - held)
    /\ lost' = lost + 1 /\ unheard' = unheard \cup {o}
    /\ UNCHANGED <<progress, budget, told, rows, announced, linked, spoiled, dbFailures, crashes>>

-----------------------------------------------------------------------------
(* Rows.  A failed insert throws to the queue, which releases.             *)

InsertFails(o) ==
    /\ dbFailures < MaxDbFailures
    /\ dbFailures' = dbFailures + 1 /\ spoiled' = spoiled \cup {o}
    /\ Goto(o, "release")
    /\ UNCHANGED rows

Insert(o, row) == row /\ UNCHANGED <<dbFailures, spoiled>>

InsertOrder(o, p, status, next) ==
    \/ /\ Insert(o, order' = [order EXCEPT ![o][p] = status] /\ UNCHANGED position)
       /\ Goto(o, next)
    \/ InsertFails(o)

InsertPosition(o, status, next) ==
    \/ /\ Insert(o, position' = [position EXCEPT ![o] = status] /\ UNCHANGED order)
       /\ Goto(o, next)
    \/ InsertFails(o)

UsedCapital(o) == size[o] * UnitCost         \* actualCapitalUsed

Store(o) ==
    /\ \/ At(o, "recordPrimary") /\ InsertOrder(o, primary[o], "FILLED", "secondary")
       \/ At(o, "recordPending") /\ InsertOrder(o, Other(primary[o]), "PENDING", "expose")
       \/ At(o, "recordSecondary") /\ InsertOrder(o, Other(primary[o]), "FILLED", "open")
       \/ At(o, "open") /\ InsertPosition(o, "OPEN",
                               IF UsedCapital(o) < budget[o].capital THEN "adjust" ELSE "commit")
       \/ At(o, "expose") /\ InsertPosition(o, "SINGLE_LEG_EXPOSED", "announce")
    /\ UNCHANGED <<size, budget, told, announced, venue, linked, unheard, lost, crashes>>

(* The rest of handleSingleLeg, once both books came or two seconds passed; *)
(* its result is a partialFill, which commits the whole reservation.        *)
Announce(o) ==
    /\ At(o, "announce")
    /\ announced' = announced \cup {o}
    /\ Goto(o, "commit")
    /\ UNCHANGED <<size, budget, told, rows, venue, linked, unheard, spoiled, faults>>

-----------------------------------------------------------------------------
(* The queue settles the reservation. *)

AdjustReservation(o) ==
    /\ At(o, "adjust")
    /\ budget' = [budget EXCEPT ![o].capital = UsedCapital(o)]
    /\ Goto(o, "commit")
    /\ UNCHANGED <<size, told, rows, announced, venue, linked, unheard, spoiled, faults>>

SettledBySuccess(o) ==      \* fault: only success commits, a partialFill is released
    IF At(o, "commit") /\ position[o] = "OPEN" THEN "committed" ELSE "released"

Settled(o) == IF At(o, "commit") THEN "committed" ELSE "released"

Settle(o) ==
    /\ At(o, "commit") \/ At(o, "release")
    /\ budget' = [budget EXCEPT ![o].status = Settled(o)]
    /\ Finish(o)
    /\ UNCHANGED <<size, told, rows, announced, venue, linked, unheard, spoiled, faults>>

-----------------------------------------------------------------------------
(* The world around it. *)

(* External: a resting order fills. *)
VenueFills(o, p) ==
    /\ venue[o][p].resting > 0
    /\ venue' = [venue EXCEPT ![o][p] = [held |-> @.held + 1, resting |-> @.resting - 1]]
    /\ UNCHANGED <<progress, budget, told, rows, announced, linked, unheard, spoiled, faults>>

(* The process dies and restarts: the reservation is gone, an order on its *)
(* way may still arrive.                                                   *)
Crash(o) ==
    /\ working = o /\ crashes < MaxCrashes
    /\ IF stage[o] \in {"primary", "secondary"}
       THEN \E held, resting \in 0..size[o] : held + resting <= size[o] /\ Reaches(o, held, resting)
       ELSE UNCHANGED venue
    /\ budget' = [budget EXCEPT ![o].status = "gone"]
    /\ Finish(o)
    /\ crashes' = crashes + 1 /\ spoiled' = spoiled \cup {o}
    /\ UNCHANGED <<size, told, rows, announced, linked, unheard, lost, dbFailures>>

NothingExposed(o) == FALSE       \* fault: the scheduler asks for the wrong status

Exposed(o) == position[o] = "SINGLE_LEG_EXPOSED"

(* ExposureAlertScheduler.checkExposedPositions, for one position. *)
Remind(o) ==
    /\ Exposed(o) /\ linked
    /\ o \notin announced
    /\ announced' = announced \cup {o}
    /\ UNCHANGED <<progress, budget, told, rows, venue, linked, unheard, spoiled, faults>>

(* A connector drops or comes back. *)
Relink ==
    /\ linked' = ~linked
    /\ UNCHANGED <<progress, budget, told, rows, announced, venue, unheard, spoiled, faults>>

Step(o) ==
    \/ Reserve(o) \/ Gates(o) \/ Submit(o) \/ Resubmit(o) \/ Store(o)
    \/ Announce(o) \/ AdjustReservation(o) \/ Settle(o)
    \/ Crash(o) \/ Remind(o)
    \/ \E p \in Platform : VenueFills(o, p)

Next == Relink \/ \E o \in Opportunity : Step(o)

(* The scheduler runs every minute, and connectors that drop come back.    *)
(* Nothing obliges a venue to answer.                                      *)
Fairness ==
    /\ WF_vars(~linked /\ Relink)
    /\ \A o \in Opportunity : SF_vars(Remind(o))

Spec == Init /\ [][Next]_vars /\ Fairness

-----------------------------------------------------------------------------
(* Properties. *)

(* Past the gates an order is for at least one contract, no row or fill    *)
(* appears before its time, and at most one opportunity is in work.        *)
TypeOK ==
    /\ working \in Opportunity \cup {NoOpportunity}
    /\ stage \in [Opportunity -> Stage] /\ primary \in [Opportunity -> Platform]
    /\ size \in [Opportunity -> 0..MaxReserved]
    /\ budget \in [Opportunity -> [status : {"none", "held", "committed", "released", "gone"},
                                   capital : 0..MaxReserved]]
    /\ told \in [Opportunity -> [Platform ->
                   [status : {"none", "filled", "rejected", "pending", "error"}, quantity : Nat]]]
    /\ order \in [Opportunity -> [Platform -> {"none", "PENDING", "FILLED"}]]
    /\ position \in [Opportunity -> {"none", "OPEN", "SINGLE_LEG_EXPOSED"}]
    /\ venue \in [Opportunity -> [Platform -> [held : Nat, resting : Nat]]]
    /\ announced \subseteq Opportunity /\ unheard \subseteq Opportunity /\ spoiled \subseteq Opportunity
    /\ linked \in BOOLEAN
    /\ lost \in 0..MaxLost /\ dbFailures \in 0..MaxDbFailures /\ crashes \in 0..MaxCrashes
    /\ \A o \in Opportunity :
         /\ stage[o] \in Stage \ {"queued", "over"} <=> working = o
         /\ stage[o] \notin {"queued", "gates", "release", "over"} => size[o] > 0

FilledCost(o, p) == IF Filled(o, p) THEN told[o][p].quantity * Cost(p) ELSE 0

(* The capital a reservation counts is never less than what the fills it   *)
(* stands for cost, from the first fill on and after adjustReservation     *)
(* gave the excess back.                                                   *)
CommitmentCovers ==
    \A o \in Opportunity :
        budget[o].status \in {"held", "committed"} =>
            FilledCost(o, "kalshi") + FilledCost(o, "polymarket") <= budget[o].capital

(* Once an opportunity is over, unless an insert failed or the process     *)
(* died on it: two filled legs are an open position, one is an exposed     *)
(* position, none is no position, and capital is committed exactly when    *)
(* a leg is filled.                                                        *)
OutcomeBooked ==
    \A o \in Opportunity :
        LET filled == {p \in Platform : Filled(o, p)} IN
        stage[o] = "over" /\ o \notin spoiled =>
            /\ position[o] = CASE filled = Platform -> "OPEN"
                               [] filled = {primary[o]} -> "SINGLE_LEG_EXPOSED"
                               [] OTHER -> "none"
            /\ filled # {} <=> budget[o].status = "committed"

(* Whatever the secondary venue filled, at once or later, has an order row *)
(* that leads to it, unless its answer was lost, an insert failed or the   *)
(* process died.                                                           *)
SecondaryFillsTraced ==
    \A o \in Opportunity :
        stage[o] = "over" /\ o \notin spoiled \cup unheard /\ venue[o][Other(primary[o])].held > 0 =>
            order[o][Other(primary[o])] # "none"

(* What an opportunity comes to is in the books: positions and             *)
(* reservations after its outcome, order rows after what the second venue  *)
(* filled.                                                                 *)
OutcomeTraced == TypeOK /\ OutcomeBooked /\ SecondaryFillsTraced

(* Nothing reaches the secondary venue before the fill of the primary leg  *)
(* is in the database, so that after a crash the first leg is known.       *)
SecondLegAfterRecord ==
    [][\A o \in Opportunity :
         venue'[o][Other(primary[o])] # venue[o][Other(primary[o])] =>
             order[o][primary[o]] = "FILLED"]_vars

(* An exposed position is announced, even if the process dies between the  *)
(* insert and the event.                                                   *)
ExposureAnnounced ==
    \A o \in Opportunity : position[o] = "SINGLE_LEG_EXPOSED" ~> o \in announced

=============================================================================

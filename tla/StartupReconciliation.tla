------------------------ MODULE StartupReconciliation ------------------------
(***************************************************************************)
(* Reconciliation of the rows with the venues: at boot                     *)
(* (EngineLifecycleService), when an operator asks for it (POST run), and  *)
(* an operator's answer to what it found (resolveDiscrepancy).  Live       *)
(* positions only; the paper counters are recounted and nothing else.      *)
(*                                                                         *)
(* A task is one call.  Its steps are the code between two awaits; the     *)
(* query for the exposed positions of a pair and the write that links the  *)
(* order are one step, as are the checks of the two legs of a position,    *)
(* which read nothing but the snapshot.  The halt is that of RiskBudget,   *)
(* where its persistence is; here it outlives a crash.                     *)
(***************************************************************************)
EXTENDS Integers, FiniteSets, Functions

CONSTANTS
    Position,
    Manual,             \* calls of POST run
    Resolve,            \* calls of resolveDiscrepancy
    MaxRuns,            \* bound: reconciliations begun
    MaxResolves,        \* bound: resolutions begun
    MaxDbFailures, MaxCrashes   \* bounds

Task == {"boot"} \cup Manual \cup Resolve
Leg == {"kalshi", "polymarket"}

ASSUME ReconciliationConstants ==
    /\ "boot" \notin Manual \cup Resolve /\ Manual \cap Resolve = {}
    /\ IsFiniteSet(Position)
    /\ {MaxRuns, MaxResolves, MaxDbFailures, MaxCrashes} \subseteq Nat

VARIABLES
    status,         \* open_positions.status
    linked,         \* the legs whose order the position row links
    order,          \* orders.status of the entry order of each leg; "none" without a row
    recommended,    \* reconciliationContext.recommendedStatus
    halted,         \* the reconciliation halt
    openCount,      \* the risk manager's count of open positions
    task,           \* the local state of every call
    venue,          \* external: what the venue says of the order of each leg
    runs, resolves, dbFailures, crashes,
    overlap,        \* history: a call began while another was at work
    stale,          \* history: the last call did not get to its recount
    torn            \* history: positions whose order was stored FILLED and not linked

rows == <<status, linked, order, recommended>>
risk == <<halted, openCount>>
bounds == <<runs, resolves, dbFailures, crashes>>
history == <<overlap, stale, torn>>
vars == <<rows, risk, task, venue, bounds, history>>

Counted == {"OPEN", "SINGLE_LEG_EXPOSED", "EXIT_PARTIAL"}
Status == Counted \cup {"RECONCILIATION_REQUIRED", "CLOSED"}
OrderStatus == {"none", "PENDING", "FILLED", "PARTIAL", "CANCELLED", "REJECTED"}
Flagged == {p \in Position : status[p] = "RECONCILIATION_REQUIRED"}
CountedRows == {p \in Position : status[p] \in Counted}

(* What a call knows: the orders or positions still to be checked, the     *)
(* orders as its query read them, the reachable venues, what it has found  *)
(* (advice by position), whether a discrepancy has no position to flag,    *)
(* whether its minute is over.                                             *)
Idle == [at |-> "idle", todo |-> {}, seen |-> <<>>, up |-> {}, late |-> FALSE,
         advice |-> [p \in Position |-> "none"], loose |-> FALSE, count |-> 0]

(* What a crash or a clean stop can have left: hedged positions, entries   *)
(* that lack the second leg, whose order is pending or was never stored,   *)
(* exits cut short.                                                        *)
Kinds == {
    [status |-> "OPEN",               missing |-> "FILLED",  other |-> "FILLED"],
    [status |-> "EXIT_PARTIAL",       missing |-> "PARTIAL", other |-> "FILLED"],
    [status |-> "SINGLE_LEG_EXPOSED", missing |-> "PENDING", other |-> "FILLED"],
    [status |-> "SINGLE_LEG_EXPOSED", missing |-> "none",    other |-> "FILLED"]}

Init ==
    /\ \E kind \in [Position -> Kinds], gone \in [Position -> {{}, Leg}] :
         /\ status = [p \in Position |-> kind[p].status]
         /\ linked = [p \in Position |->
                        IF kind[p].status = "SINGLE_LEG_EXPOSED" THEN {"kalshi"} ELSE Leg]
         /\ order = [p \in Position |-> [l \in Leg |->
                        IF l = "polymarket" THEN kind[p].missing ELSE kind[p].other]]
         /\ venue = [p \in Position |-> [l \in Leg |->
                        IF l \in gone[p] THEN "not_found" ELSE order[p][l]]]
    /\ recommended = [p \in Position |-> "none"]
    /\ halted = FALSE /\ openCount = 0
    /\ task = [t \in Task |-> [Idle EXCEPT !.at = IF t = "boot" THEN "start" ELSE "idle"]]
    /\ runs = 0 /\ resolves = 0 /\ dbFailures = 0 /\ crashes = 0
    /\ overlap = FALSE /\ stale = FALSE /\ torn = {}

At(t, s) == task[t].at = s
Goto(t, s) == task' = [task EXCEPT ![t].at = s]
Busy(t) == ~At(t, "idle")
Begins(t) ==
    /\ overlap' = (overlap \/ \E other \in Task \ {t} : Busy(other))
    /\ UNCHANGED <<stale, torn>>

-----------------------------------------------------------------------------
(* The venues: getOrder under callWithTimeout is an answer, or an error.    *)
OrderAnswer(s) == {s, "error"}

VenueMoves(p, l) ==
    /\ venue[p][l] = "PENDING"
    /\ \E s \in {"FILLED", "CANCELLED"} : venue' = [venue EXCEPT ![p][l] = s]
    /\ UNCHANGED <<rows, risk, task, bounds, history>>

-----------------------------------------------------------------------------
(* reconcile *)

PendingOrders == {row \in Position \X Leg : order[row[1]][row[2]] = "PENDING"}

(* The loops take their rows in the order of the query. *)
Turn(t, row) == row = CHOOSE next \in task[t].todo : TRUE

(* The connectors' health, then the query for the pending orders. *)
Start(t) ==
    /\ runs < MaxRuns /\ runs' = runs + 1
    /\ \/ t = "boot" /\ At(t, "start")
       \/ t \in Manual /\ At(t, "idle") /\ At("boot", "idle")
    /\ \E up \in SUBSET Leg :
         task' = [task EXCEPT ![t] = [Idle EXCEPT !.at = "orders", !.up = up, !.todo = PendingOrders]]
    /\ Begins(t)
    /\ UNCHANGED <<rows, risk, venue, resolves, dbFailures, crashes>>

ExposedRow(p) == status[p] = "SINGLE_LEG_EXPOSED"

(* An order that the venue does not know flags the exposed position of its *)
(* pair; without one the discrepancy has nothing to flag.                  *)
Missing(t, p) ==
    IF ExposedRow(p) THEN [task[t] EXCEPT !.advice = [@ EXCEPT ![p] = "CLOSED"]]
                     ELSE [task[t] EXCEPT !.loose = TRUE]

AskOrder(t, p, l) ==
    /\ At(t, "orders") /\ task[t].todo # {} /\ Turn(t, <<p, l>>)
    /\ \E answer \in IF l \in task[t].up THEN OrderAnswer(venue[p][l]) ELSE {"error"} :
         task' = [task EXCEPT ![t] =
            CASE answer \in {"FILLED", "CANCELLED"} ->
                    [task[t] EXCEPT !.at = "store", !.seen = <<p, l, answer>>]
              [] answer = "not_found" -> [Missing(t, p) EXCEPT !.todo = @ \ {<<p, l>>}]
              [] OTHER                -> [task[t] EXCEPT !.todo = @ \ {<<p, l>>}]]
    /\ UNCHANGED <<rows, risk, venue, bounds, history>>

(* updateOrderStatus *)
Store(t) ==
    /\ At(t, "store")
    /\ LET p == task[t].seen[1]  l == task[t].seen[2]  s == task[t].seen[3] IN
       /\ order' = [order EXCEPT ![p][l] = s]
       /\ task' = [task EXCEPT ![t] = [task[t] EXCEPT !.at = IF s = "FILLED" THEN "link" ELSE "orders",
                                               !.todo = @ \ {<<p, l>>}]]
    /\ UNCHANGED <<status, linked, recommended, risk, venue, bounds, history>>

(* A definition marked "fault" is a plausible mistake in the definition    *)
(* below it; the model does not use it.                                    *)

(* fault: the leg of the order is not compared with the leg that is missing *)
CompletesOther(p, l) == ExposedRow(p) /\ l \in linked[p]

CompletesPosition(p, l) == ExposedRow(p) /\ l \notin linked[p]

(* resolvePendingFilledOrder *)
LinkOrder(t) ==
    /\ At(t, "link")
    /\ LET p == task[t].seen[1]  l == task[t].seen[2] IN
       IF CompletesPosition(p, l)
       THEN /\ status' = [status EXCEPT ![p] = "OPEN"]
            /\ linked' = [linked EXCEPT ![p] = @ \cup {l}]
       ELSE UNCHANGED <<status, linked>>
    /\ Goto(t, "orders")
    /\ UNCHANGED <<order, recommended, risk, venue, bounds, history>>

(* The try around each pending order: a failed write is logged and the     *)
(* loop goes on.                                                           *)
OrderWriteFails(t) ==
    /\ task[t].at \in {"store", "link"} /\ dbFailures < MaxDbFailures
    /\ dbFailures' = dbFailures + 1
    /\ LET row == <<task[t].seen[1], task[t].seen[2]>> IN
       task' = [task EXCEPT ![t] = [task[t] EXCEPT !.at = "orders", !.todo = @ \ {row}]]
    /\ torn' = IF At(t, "link") THEN torn \cup {task[t].seen[1]} ELSE torn
    /\ UNCHANGED <<rows, risk, venue, runs, resolves, crashes, overlap, stale>>

(* checkTimeout: the loops break, and nothing is done about the rest. *)
OverallTimeout(t) ==
    /\ task[t].at \in {"orders", "positions"} /\ ~task[t].late
    /\ task' = [task EXCEPT ![t] = [task[t] EXCEPT !.late = TRUE, !.todo = {}, !.seen = <<>>]]
    /\ UNCHANGED <<rows, risk, venue, bounds, history>>

(* Phase 3: the query reads every active position with its orders; those   *)
(* that an earlier run has flagged are skipped.                            *)
ReadPositions(t) ==
    /\ At(t, "orders") /\ task[t].todo = {} /\ ~task[t].late
    /\ task' = [task EXCEPT ![t] = [task[t] EXCEPT !.at = "positions", !.todo = CountedRows,
                    !.seen = [p \in CountedRows |-> Restrict(order[p], linked[p])]]]
    /\ UNCHANGED <<rows, risk, venue, bounds, history>>

(* checkOrderDiscrepancy, getRecommendedStatus: what to advise for a leg   *)
(* with this row and this answer.                                          *)
Advice(local, answer) ==
    IF answer \in {local, "error"} THEN "none"
    ELSE IF answer = "unavailable" \/ (local = "PENDING" /\ answer = "FILLED") THEN "OPEN"
    ELSE "CLOSED"

(* Both legs are asked; what is found at Polymarket is written last. *)
CheckPosition(t, p) ==
    /\ At(t, "positions") /\ task[t].todo # {} /\ Turn(t, p)
    /\ LET known == task[t].seen[p]
           Says(l) == IF l \notin DOMAIN known THEN {"error"}
                      ELSE IF l \in task[t].up THEN OrderAnswer(venue[p][l]) ELSE {"unavailable"}
           Found(l, answer) == IF l \in DOMAIN known THEN Advice(known[l], answer) ELSE "none"
           Last(k, q) == IF q # "none" THEN q ELSE IF k # "none" THEN k ELSE task[t].advice[p] IN
       \E k \in Says("kalshi"), q \in Says("polymarket") :
         task' = [task EXCEPT ![t] = [task[t] EXCEPT !.todo = @ \ {p},
                    !.advice = [task[t].advice EXCEPT ![p] = Last(Found("kalshi", k), Found("polymarket", q))]]]
    /\ UNCHANGED <<rows, risk, venue, bounds, history>>

Advised(t) == {p \in Position : task[t].advice[p] # "none"}
FoundAny(t) == Advised(t) # {} \/ task[t].loose

(* The phases end, with everything checked or with the minute over. *)
Judge(t) ==
    /\ \/ At(t, "positions") /\ task[t].todo = {}
       \/ At(t, "orders") /\ task[t].late
    /\ IF FoundAny(t)
       THEN /\ task' = [task EXCEPT ![t] = [task[t] EXCEPT !.at = "flag", !.todo = Advised(t), !.seen = <<>>]]
            /\ UNCHANGED risk
       ELSE /\ task' = [task EXCEPT ![t] = [Idle EXCEPT !.at = "recount"]]
            /\ halted' = FALSE /\ UNCHANGED openCount
    /\ UNCHANGED <<rows, venue, bounds, history>>

(* handleDiscrepancies: a row that cannot be written is logged and left. *)
Flag(t, p) ==
    /\ At(t, "flag") /\ task[t].todo # {} /\ Turn(t, p)
    /\ \/ /\ status' = [status EXCEPT ![p] = "RECONCILIATION_REQUIRED"]
          /\ recommended' = [recommended EXCEPT ![p] = task[t].advice[p]]
          /\ UNCHANGED dbFailures
       \/ /\ dbFailures < MaxDbFailures /\ dbFailures' = dbFailures + 1
          /\ UNCHANGED <<status, recommended>>
    /\ task' = [task EXCEPT ![t].todo = @ \ {p}]
    /\ UNCHANGED <<linked, order, risk, venue, runs, resolves, crashes, history>>

HaltTrading(t) ==
    /\ At(t, "flag") /\ task[t].todo = {}
    /\ halted' = TRUE
    /\ task' = [task EXCEPT ![t] = [Idle EXCEPT !.at = "recount", !.loose = TRUE]]
    /\ UNCHANGED <<rows, openCount, venue, bounds, history>>

-----------------------------------------------------------------------------
(* recalculateRiskBudget, and the end of a call *)

(* fault: flagged positions keep their slot *)
CountedWithFlagged == CountedRows \cup Flagged

RowsToCount == CountedRows

Recount(t) ==
    /\ At(t, "recount")
    /\ task' = [task EXCEPT ![t] = [task[t] EXCEPT !.at = "set", !.count = Cardinality(RowsToCount)]]
    /\ UNCHANGED <<rows, risk, venue, bounds, history>>

(* recalculateFromPositions; a boot that found nothing then lifts the halt *)
(* once more.                                                              *)
SetCount(t) ==
    /\ At(t, "set")
    /\ openCount' = task[t].count
    /\ halted' = (halted /\ (t = "boot" => FoundAny(t)))
    /\ task' = [task EXCEPT ![t] = Idle]
    /\ stale' = FALSE
    /\ UNCHANGED <<rows, venue, bounds, overlap, torn>>

(* A query outside the try of a single order throws out of the call.  The  *)
(* boot then halts if it counts a position; the other callers answer 500.  *)
QueryFails(t) ==
    /\ dbFailures < MaxDbFailures /\ dbFailures' = dbFailures + 1
    /\ \/ At(t, "orders") /\ task[t].todo = {}
       \/ task[t].at \in {"recount", "write", "remaining"}
    /\ halted' = (halted \/ (t = "boot" /\ CountedRows # {}))
    /\ task' = [task EXCEPT ![t] = Idle]
    /\ stale' = TRUE
    /\ UNCHANGED <<rows, openCount, venue, runs, resolves, crashes, overlap, torn>>

-----------------------------------------------------------------------------
(* resolveDiscrepancy *)

BeginResolve(t, p) ==
    /\ t \in Resolve /\ resolves < MaxResolves /\ resolves' = resolves + 1
    /\ At(t, "idle") /\ At("boot", "idle") /\ p \in Flagged
    /\ \E act \in {"acknowledge", "force_close"} :
         task' = [task EXCEPT ![t] = [Idle EXCEPT !.at = "write", !.todo = {p}, !.seen = <<act>>]]
    /\ Begins(t)
    /\ UNCHANGED <<rows, risk, venue, runs, dbFailures, crashes>>

OneLess == IF openCount = 0 THEN 0 ELSE openCount - 1

(* The row of the position; a forced close then gives its slot back.       *)
WriteResolution(t) ==
    /\ At(t, "write")
    /\ LET p == CHOOSE p \in task[t].todo : TRUE IN
       IF task[t].seen = <<"acknowledge">>
       THEN status' = [status EXCEPT ![p] = recommended[p]] /\ Goto(t, "remaining")
       ELSE status' = [status EXCEPT ![p] = "CLOSED"] /\ Goto(t, "release")
    /\ UNCHANGED <<linked, order, recommended, risk, venue, bounds, history>>

(* The risk manager's closePosition, before the recount. *)
ReleasePosition(t) ==
    /\ At(t, "release")
    /\ openCount' = OneLess
    /\ Goto(t, "remaining")
    /\ UNCHANGED <<rows, halted, venue, bounds, history>>

(* fault: lifts the halt for the one position that was resolved *)
NothingLeft(t) == task[t].todo \cap Flagged = {}

NoneFlagged(t) == Flagged = {}

ResumeWhenNoneRemain(t) ==
    /\ At(t, "remaining")
    /\ halted' = (halted /\ ~NoneFlagged(t))
    /\ task' = [task EXCEPT ![t] = [Idle EXCEPT !.at = "recount"]]
    /\ UNCHANGED <<rows, openCount, venue, bounds, history>>

-----------------------------------------------------------------------------
(* The process dies and boots again; rows and the persisted halt survive. *)
Crash ==
    /\ crashes < MaxCrashes /\ crashes' = crashes + 1
    /\ torn' = torn \cup {task[t].seen[1] : t \in {u \in Task : At(u, "link")}}
    /\ task' = [t \in Task |-> [Idle EXCEPT !.at = IF t = "boot" THEN "start" ELSE "idle"]]
    /\ openCount' = 0 /\ stale' = TRUE /\ overlap' = FALSE
    /\ UNCHANGED <<rows, halted, venue, runs, resolves, dbFailures>>

RunStep(t) ==
    \/ \E p \in Position, l \in Leg : AskOrder(t, p, l)
    \/ Store(t) \/ LinkOrder(t) \/ ReadPositions(t)
    \/ \E p \in Position : CheckPosition(t, p) \/ Flag(t, p)
    \/ Judge(t) \/ HaltTrading(t) \/ Recount(t) \/ SetCount(t)
    \/ WriteResolution(t) \/ ReleasePosition(t) \/ ResumeWhenNoneRemain(t)

Next ==
    \/ \E p \in Position, l \in Leg : VenueMoves(p, l)
    \/ \E t \in Task :
         \/ Start(t) \/ OverallTimeout(t) \/ OrderWriteFails(t) \/ QueryFails(t)
         \/ \E p \in Position : BeginResolve(t, p)
         \/ RunStep(t)
    \/ Crash

Spec == Init /\ [][Next]_vars

-----------------------------------------------------------------------------
(* Every call is at a known place, and what a row advises is a status.     *)
TypeOK ==
    /\ status \in [Position -> Status]
    /\ linked \in [Position -> SUBSET Leg]
    /\ order \in [Position -> [Leg -> OrderStatus]]
    /\ recommended \in [Position -> {"none", "OPEN", "CLOSED"}]
    /\ halted \in BOOLEAN /\ openCount \in 0..Cardinality(Position)
    /\ \A t \in Task :
         /\ task[t].at \in {"start", "idle", "orders", "store", "link", "positions",
                            "flag", "recount", "set", "write", "release", "remaining"}
         /\ task[t].count \in 0..Cardinality(Position)
    /\ torn \subseteq Position

Quiet == \A t \in Task : At(t, "idle")

(* When no call is at work and the last one got to its recount, the risk   *)
(* manager counts exactly the positions that take a slot: neither those    *)
(* flagged by this run, nor those it has just made OPEN or CLOSED, are     *)
(* counted as they were (recalculateRiskBudget).  Calls that overlapped    *)
(* are left out: their recounts land in any order.                         *)
CountMatchesRows ==
    Quiet /\ ~overlap /\ ~stale /\ runs > 0 => openCount = Cardinality(CountedRows)

(* An exposed position lacks a leg that is not filled as far as the orders *)
(* know: once no call is at work, the leg of an order found FILLED has     *)
(* been linked and its position is whole, unless the second write was lost *)
(* (resolvePendingFilledOrder).                                            *)
FilledLegsLinked ==
    Quiet => \A p \in Position \ torn, l \in Leg :
                ExposedRow(p) /\ order[p][l] = "FILLED" => l \in linked[p]

(* After a run, position rows agree with the order rows and with the slots *)
(* the risk manager counts.                                                *)
RowsAgree == TypeOK /\ CountMatchesRows /\ FilledLegsLinked

(* Until a second run, a position that was flagged and not resolved keeps  *)
(* trading halted: the flags are written before the halt, one resolution   *)
(* lifts it only when none remains (handleDiscrepancies,                   *)
(* resolveDiscrepancy).  A second run skips what is flagged and lifts the  *)
(* halt.                                                                   *)
UnresolvedKeepsHalt == Quiet /\ runs = 1 /\ crashes = 0 /\ Flagged # {} => halted

=============================================================================

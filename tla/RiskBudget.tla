----------------------------- MODULE RiskBudget -----------------------------
(***************************************************************************)
(* The risk budget of the engine: RiskStateManager (the per-mode counters, *)
(* the daily P&L and the halt reasons, mirrored in the risk_states table), *)
(* BudgetReservationService (reserve / adjust / commit / release, and the  *)
(* return of capital when a position closes) and TradingHaltService.       *)
(*                                                                         *)
(* The services run on one Node event loop.  Every handler mutates memory  *)
(* synchronously and then awaits one upsert of a snapshot of the state, so *)
(* an action below is one handler up to that await; the upsert stays in    *)
(* flight and lands, or fails, in an action of its own.  Upserts of        *)
(* different callers overlap and may land in any order.  closePosition and *)
(* releasePartialCapital also await updateDailyPnl, which has by then      *)
(* finished its work; the turn of the event loop that await costs is not   *)
(* an interleaving point here.                                             *)
(*                                                                         *)
(* The open_positions table and the callers that create and close rows are *)
(* kept only as far as the budget depends on them.                         *)
(***************************************************************************)
EXTENDS Integers, FiniteSets, Functions

CONSTANTS
    Request,      \* opportunities that may be in hand; also names the reservation and the position made from one
    Pair,         \* contract pairs
    Ticket,       \* callers other than the queue: closing paths, cron, halts, reconciliation
    RequestModes, \* the modes in which opportunities arrive
    Amounts,      \* recommended position sizes and capital actually used, in USD units
    Pnls,         \* realised P&L of one close or partial exit
    Configs,      \* risk configurations an operator may load
    InitialRows,  \* risk_states rows the very first boot may find
    Outcomes,     \* how a startup reconciliation may end
    OperatorCloses,       \* BOOLEAN: positions are also closed by paths that pass no isPaper
    SideErrors,           \* what those paths add to the entry capital by pricing a sold leg as a bought one
    RuntimeRecalculation, \* BOOLEAN: reconciliation also recalculates while trading
    UpsertsMayFail,       \* BOOLEAN: the database may reject an upsert
    MaxDay, MaxLoss, MaxProfit, MaxUpserts  \* bounds of the exploration

Mode == {"live", "paper"}
HaltReason == {"daily_loss_limit", "reconciliation_discrepancy"}
Saved == {"nothing", "loaded", "all"}
Never == -1                     \* a null last_reset_timestamp

Config == [bankroll: [Mode -> Nat], maxPosition: [Mode -> Nat],
           maxOpenPairs: Nat \ {0}, dailyLossLimit: [Mode -> Nat \ {0}]]
Row == [openCount: Nat, deployed: Nat, dailyPnl: Int,
        haltReasons: SUBSET HaltReason, lastReset: Nat \cup {Never},
        reserved: SUBSET (Request \X Nat)]
Reservation == [pair: Pair, mode: Mode, capital: Nat, used: Nat, filled: BOOLEAN]
Position == [pair: Pair, mode: Mode, entry: Amounts, capital: Nat,
             closed: BOOLEAN, flagged: BOOLEAN]
Caller == Request \cup Ticket
Upsert == [mode: Mode, row: Row, thenPaper: BOOLEAN]

NoReservation == [none |-> "reservation"]
NoPosition == [none |-> "position"]
NoUpsert == [none |-> "upsert"]
NoCaller == [none |-> "caller"]

ASSUME FiniteRequests == IsFiniteSet(Request)
ASSUME CallersDistinct == Request \cap Ticket = {} /\ NoCaller \notin Caller
ASSUME ParameterTypes ==
    /\ RequestModes \subseteq Mode
    /\ Amounts \subseteq Nat
    /\ Pnls \subseteq Int /\ SideErrors \subseteq Int
    /\ Configs \subseteq Config
    /\ InitialRows \subseteq Row
    /\ Outcomes \subseteq {"clean", "discrepancy", "failed"}
    /\ {OperatorCloses, RuntimeRecalculation, UpsertsMayFail} \subseteq BOOLEAN
    /\ {MaxDay, MaxLoss, MaxProfit, MaxUpserts} \subseteq Nat

VARIABLES
    config,         \* this.config of RiskStateManager
    openCount, deployed, dailyPnl, haltReasons, approachEmitted, lastReset,
                    \* the fields of ModeRiskState, one value per mode
    reservations,   \* the reservations Map
    paperActive,    \* paperActivePairIds
    position,       \* open_positions, one row per request that was executed
    riskRow,        \* risk_states, one row per mode
    upserts,        \* the upsert each caller is waiting for
    today, cronDue, \* the UTC day, and whether its midnight job has yet to run
    latest, synced, \* history: the caller with the newest snapshot in flight; was the newest snapshot the last to land
    profits         \* history: gains returned to the pool so far

memory == <<openCount, deployed, dailyPnl, haltReasons, approachEmitted, lastReset>>
budget == <<reservations, paperActive>>
clock == <<today, cronDue>>
storage == <<riskRow, upserts, latest, synced>>
vars == <<config, memory, budget, position, storage, clock, profits>>

-----------------------------------------------------------------------------
(* What the handlers read.  A definition marked "fault" is a plausible       *)
(* mistake in the code modelled by the definition below it; nothing uses it, *)
(* and putting it in that definition's place must break a property.          *)

Reserved(m) == {i \in Request : reservations[i] # NoReservation /\ reservations[i].mode = m}
ReservedSlots(m) == Cardinality(Reserved(m))
ReservedCapital(m) == SumFunction([i \in Reserved(m) |-> reservations[i].capital])

ActiveRows(m) == {i \in Request : /\ position[i] # NoPosition
                                  /\ position[i].mode = m
                                  /\ ~position[i].closed}
(* Rows flagged RECONCILIATION_REQUIRED are active, but reconciliation does *)
(* not count them as positions.                                            *)
CountedRows(m) == {i \in ActiveRows(m) : ~position[i].flagged}
Halted(m) == haltReasons[m] # {}

(* The row's reserved slots and reserved capital are the size and the sum  *)
(* of the field reserved.                                                  *)
RowOf(m) == [openCount |-> openCount[m], deployed |-> deployed[m],
             dailyPnl |-> dailyPnl[m], haltReasons |-> haltReasons[m],
             lastReset |-> lastReset[m],
             reserved |-> {<<i, reservations[i].capital>> : i \in Reserved(m)}]

UnclampedFloor(n) == n            \* fault: the Decimal.max(0) is forgotten
StrictBreach(pnl, limit) == -pnl > limit    \* fault: > for >=

Floor(n) == IF n < 0 THEN 0 ELSE n
Breach(pnl, limit) == -pnl >= limit
Approach(pnl, limit) == ~Breach(pnl, limit) /\ 10 * (-pnl) >= 8 * limit

-----------------------------------------------------------------------------
(* persistState: the snapshot is taken when the handler calls it. *)

InFlight(m) == {c \in Caller : upserts[c] # NoUpsert /\ (upserts[c].mode = m \/ upserts[c].thenPaper)}

CanPersist(c) ==
    /\ upserts[c] = NoUpsert
    /\ Cardinality({d \in Caller : upserts[d] # NoUpsert}) < MaxUpserts

PersistFirst(c, m, paperNext) ==  \* fault: the snapshot is taken before the change
    /\ upserts' = [upserts EXCEPT ![c] = [mode |-> m, row |-> RowOf(m), thenPaper |-> paperNext]]
    /\ latest' = [latest EXCEPT ![m] = c]
    /\ UNCHANGED <<riskRow, synced>>

PersistThen(c, m, paperNext) ==
    /\ upserts' = [upserts EXCEPT ![c] = [mode |-> m, row |-> RowOf(m)', thenPaper |-> paperNext]]
    /\ latest' = [latest EXCEPT ![m] = c]
    /\ UNCHANGED <<riskRow, synced>>

Persist(c, m) == CanPersist(c) /\ PersistThen(c, m, FALSE)

(* What becomes of c once its upsert is over: handleMidnightReset goes on  *)
(* to the paper row, every other caller returns.                           *)
Resume(c) ==
    IF upserts[c].thenPaper
    THEN /\ upserts' = [upserts EXCEPT ![c] =
                          [mode |-> "paper", row |-> RowOf("paper"), thenPaper |-> FALSE]]
         /\ latest' = [latest EXCEPT !["paper"] = c,
                                     !["live"] = IF @ = c THEN NoCaller ELSE @]
    ELSE /\ upserts' = [upserts EXCEPT ![c] = NoUpsert]
         /\ latest' = [latest EXCEPT ![upserts[c].mode] = IF @ = c THEN NoCaller ELSE @]

UpsertLands(c) ==
    /\ upserts[c] # NoUpsert
    /\ LET m == upserts[c].mode IN
       /\ riskRow' = [riskRow EXCEPT ![m] = upserts[c].row]
       /\ synced' = [synced EXCEPT ![m] =
                       CASE latest[m] = c -> TRUE
                         [] latest[m] = NoCaller -> FALSE
                         [] OTHER -> @]
    /\ Resume(c)
    /\ UNCHANGED <<config, memory, budget, position, clock, profits>>

(* The catch block of persistState logs and swallows the error. *)
UpsertFails(c) ==
    /\ UpsertsMayFail
    /\ upserts[c] # NoUpsert
    /\ LET m == upserts[c].mode IN
       synced' = [synced EXCEPT ![m] = IF latest[m] = c THEN FALSE ELSE @]
    /\ Resume(c)
    /\ UNCHANGED <<config, memory, budget, position, riskRow, clock, profits>>

-----------------------------------------------------------------------------
(* Budget reservations, called by the execution queue. *)

PositionSize(m, recommended) ==
    IF recommended <= config.maxPosition[m] THEN recommended ELSE config.maxPosition[m]

SlotFreeOfCommitted(m) ==         \* fault: reservations in flight do not count
    openCount[m] < config.maxOpenPairs
CapitalFreeOfCommitted(m, amount) ==
    config.bankroll[m] - deployed[m] >= amount

SlotFree(m) == openCount[m] + ReservedSlots(m) < config.maxOpenPairs
CapitalFree(m, amount) == config.bankroll[m] - deployed[m] - ReservedCapital(m) >= amount

ReserveBudget(i, p, m, recommended) ==
    LET amount == PositionSize(m, recommended)
    IN  /\ reservations[i] = NoReservation /\ position[i] = NoPosition
        /\ m = "live" => ~Halted("live")
        /\ m = "paper" => p \notin paperActive
        /\ SlotFree(m) /\ CapitalFree(m, amount)
        /\ reservations' = [reservations EXCEPT ![i] =
                              [pair |-> p, mode |-> m, capital |-> amount, used |-> amount, filled |-> FALSE]]
        /\ paperActive' = IF m = "paper" THEN paperActive \cup {p} ELSE paperActive
        /\ UNCHANGED <<config, memory, position, clock, profits>>
        /\ Persist(i, m)

(* The execution service inserts the position while the reservation is held. *)
(* The capital used is what two filled legs were sized to, or the whole      *)
(* reservation after a single leg, which reports none; what the fills cost   *)
(* is no more.  From here on the row is visible to the closing paths.        *)
PositionCreated(i, cost, used) ==
    /\ reservations[i] # NoReservation /\ ~reservations[i].filled
    /\ upserts[i] = NoUpsert
    /\ cost <= used /\ used <= reservations[i].capital
    /\ position' = [position EXCEPT ![i] =
                      [pair |-> reservations[i].pair, mode |-> reservations[i].mode,
                       entry |-> cost, capital |-> cost,
                       closed |-> FALSE, flagged |-> FALSE]]
    /\ reservations' = [reservations EXCEPT ![i].filled = TRUE, ![i].used = used]
    /\ UNCHANGED <<config, memory, paperActive, storage, clock, profits>>

AdjustReservation(i, m) ==
    /\ i \in Reserved(m) /\ reservations[i].filled
    /\ reservations[i].used < reservations[i].capital
    /\ reservations' = [reservations EXCEPT ![i].capital = reservations[i].used]
    /\ UNCHANGED <<config, memory, paperActive, position, clock, profits>>
    /\ Persist(i, m)

CommitReservation(i, m) ==
    /\ i \in Reserved(m) /\ reservations[i].filled
    /\ reservations[i].used = reservations[i].capital
    /\ openCount' = [openCount EXCEPT ![m] = @ + 1]
    /\ deployed' = [deployed EXCEPT ![m] = @ + reservations[i].capital]
    /\ reservations' = [reservations EXCEPT ![i] = NoReservation]
    /\ UNCHANGED <<config, dailyPnl, haltReasons, approachEmitted, lastReset,
                   paperActive, position, clock, profits>>
    /\ Persist(i, m)

ReleaseReservation(i, m) ==
    /\ i \in Reserved(m) /\ ~reservations[i].filled
    /\ paperActive' = IF m = "paper" THEN paperActive \ {reservations[i].pair} ELSE paperActive
    /\ reservations' = [reservations EXCEPT ![i] = NoReservation]
    /\ UNCHANGED <<config, memory, position, clock, profits>>
    /\ Persist(i, m)

-----------------------------------------------------------------------------
(* Closing positions. *)

(* updateDailyPnl with skipPersist, as both callers below use it. *)
UpdateDailyPnl(m, pnl) ==
    LET total == dailyPnl[m] + pnl
        limit == config.dailyLossLimit[m]
    IN  /\ dailyPnl' = [dailyPnl EXCEPT ![m] = total]
        /\ haltReasons' = [haltReasons EXCEPT ![m] =
                             IF Breach(total, limit) THEN @ \cup {"daily_loss_limit"} ELSE @]
        /\ approachEmitted' = [approachEmitted EXCEPT ![m] = @ \/ Approach(total, limit)]
        /\ -MaxLoss <= total /\ total <= MaxProfit          \* bound
        /\ profits' = [profits EXCEPT ![m] = @ + Floor(pnl)]
        /\ profits[m] + Floor(pnl) <= MaxProfit             \* bound

(* The exit monitor passes the mode of the position; the operator's close  *)
(* and close-leg paths leave isPaper out, which means live.                *)
ModesPassed(i) == {position[i].mode} \cup (IF OperatorCloses THEN {"live"} ELSE {})

(* The closing path has written status CLOSED and is about to call the     *)
(* risk manager.  Nothing makes it wait for the queue's commit.  A flagged *)
(* row is closed by the operator's force_close, which only resolution      *)
(* offers.                                                                 *)
PositionRowClosed(i) ==
    /\ position[i] # NoPosition /\ ~position[i].closed
    /\ position[i].flagged => RuntimeRecalculation
    /\ position' = [position EXCEPT ![i].closed = TRUE]
    /\ UNCHANGED <<config, memory, budget, storage, clock, profits>>

Misjudged == IF OperatorCloses THEN SideErrors \cup {0} ELSE {0}

(* Capital goes back to the pool with the P&L it earned; force_close        *)
(* returns none and leaves that to the recalculation that follows it.       *)
CapitalReturned(i, pnl, error) ==
    IF position[i].flagged THEN 0 ELSE position[i].capital + pnl + error

ClosePosition(i, m, pnl, error, t) ==
    /\ position[i] # NoPosition /\ position[i].closed
    /\ -pnl <= position[i].capital
    /\ position[i].flagged => RuntimeRecalculation /\ pnl = 0
    /\ paperActive' = IF m = "paper" THEN paperActive \ {position[i].pair} ELSE paperActive
    /\ openCount' = [openCount EXCEPT ![m] = Floor(@ - 1)]
    /\ deployed' = [deployed EXCEPT ![m] = Floor(@ - CapitalReturned(i, pnl, error))]
    /\ UpdateDailyPnl(m, pnl)
    /\ position' = [position EXCEPT ![i] = NoPosition]
    /\ UNCHANGED <<config, lastReset, reservations, clock>>
    /\ Persist(t, m)

ReleasePartialCapital(i, m, exited, pnl, error, t) ==
    /\ position[i] # NoPosition /\ ~position[i].closed /\ ~position[i].flagged
    /\ 0 < exited /\ exited <= position[i].capital /\ -pnl <= exited
    /\ deployed' = [deployed EXCEPT ![m] = Floor(@ - (exited + pnl + error))]
    /\ UpdateDailyPnl(m, pnl)
    /\ position' = [position EXCEPT ![i].capital = @ - exited]
    /\ UNCHANGED <<config, openCount, lastReset, budget, clock>>
    /\ Persist(t, m)

-----------------------------------------------------------------------------
(* Halts, midnight, configuration. *)

(* The only reason callers outside this module ever pass. *)
HaltTrading(t) ==
    /\ "reconciliation_discrepancy" \notin haltReasons["live"]
    /\ haltReasons' = [haltReasons EXCEPT !["live"] = @ \cup {"reconciliation_discrepancy"}]
    /\ UNCHANGED <<config, openCount, deployed, dailyPnl, approachEmitted, lastReset,
                   budget, position, clock, profits>>
    /\ Persist(t, "live")

ResumeTrading(t) ==
    /\ "reconciliation_discrepancy" \in haltReasons["live"]
    /\ haltReasons' = [haltReasons EXCEPT !["live"] = @ \ {"reconciliation_discrepancy"}]
    /\ UNCHANGED <<config, openCount, deployed, dailyPnl, approachEmitted, lastReset,
                   budget, position, clock, profits>>
    /\ Persist(t, "live")

(* The clock passes 00:00 UTC; the cron callback runs some time later. *)
DayPasses ==
    /\ ~cronDue /\ today < MaxDay
    /\ today' = today + 1 /\ cronDue' = TRUE
    /\ UNCHANGED <<config, memory, budget, position, storage, profits>>

HandleMidnightReset(t) ==
    /\ cronDue
    /\ dailyPnl' = [m \in Mode |-> 0]
    /\ lastReset' = [m \in Mode |-> today]
    /\ approachEmitted' = [m \in Mode |-> FALSE]
    /\ haltReasons' = [m \in Mode |-> haltReasons[m] \ {"daily_loss_limit"}]
    /\ cronDue' = FALSE
    /\ UNCHANGED <<config, openCount, deployed, budget, position, today, profits>>
    /\ CanPersist(t) /\ PersistThen(t, "live", TRUE)

(* reloadConfig and reloadBankroll install the new limits and nothing else: *)
(* no halt is re-evaluated.                                                 *)
ReloadConfig(c) ==
    /\ c # config
    /\ config' = c
    /\ UNCHANGED <<memory, budget, position, storage, clock, profits>>

(* resolveDiscrepancy with action acknowledge: the row takes the status     *)
(* recommended for it, OPEN or CLOSED, and the risk manager is not told;    *)
(* the recalculation that follows is RecalculateFromPositions.              *)
AcknowledgeDiscrepancy(i) ==
    /\ RuntimeRecalculation
    /\ position[i] # NoPosition /\ position[i].flagged /\ ~position[i].closed
    /\ \/ position' = [position EXCEPT ![i].flagged = FALSE]
       \/ position' = [position EXCEPT ![i] = NoPosition]
    /\ UNCHANGED <<config, memory, budget, storage, clock, profits>>

(* Reconciliation takes the capital of the active rows at entry size. *)
EntryCapital(m) == SumFunction([i \in ActiveRows(m) |-> position[i].entry])

RecalculateFromPositions(m, t) ==
    /\ RuntimeRecalculation
    /\ openCount' = [openCount EXCEPT ![m] = Cardinality(CountedRows(m))]
    /\ deployed' = [deployed EXCEPT ![m] = EntryCapital(m)]
    /\ UNCHANGED <<config, dailyPnl, haltReasons, approachEmitted, lastReset,
                   budget, position, clock, profits>>
    /\ Persist(t, m)

-----------------------------------------------------------------------------
(* Startup: initializeStateFromDb, then the clearing of stale reservations *)
(* and paper pairs, then the engine's startup reconciliation.              *)

IsStaleOrToday(row, day) ==       \* fault: <= for <
    row.lastReset # Never /\ row.lastReset <= day

IsStale(row, day) == row.lastReset # Never /\ row.lastReset < day
IsCorrupt(row) == row.lastReset = Never /\ row.dailyPnl # 0
ResetsOnLoad(row, day) == IsStale(row, day) \/ IsCorrupt(row)

LoadedPnl(row, day) == IF ResetsOnLoad(row, day) THEN 0 ELSE row.dailyPnl
LoadedReset(row, day) ==
    IF row.lastReset = Never \/ row.lastReset < day THEN day ELSE row.lastReset
LoadedHalts(row, day, limit) ==
    CASE ResetsOnLoad(row, day) -> row.haltReasons \ {"daily_loss_limit"}
      [] row.lastReset # Never /\ ~IsStale(row, day) /\ Breach(row.dailyPnl, limit)
            -> row.haltReasons \cup {"daily_loss_limit"}
      [] OTHER -> row.haltReasons

(* The row as onModuleInit leaves it: rewritten when it was reset, and      *)
(* always with the reservations of the previous process zeroed.             *)
LoadedRow(row, day) ==
    LET kept == [row EXCEPT !.reserved = {}]
    IN  IF ResetsOnLoad(row, day)
        THEN [kept EXCEPT !.dailyPnl = 0, !.haltReasons = @ \ {"daily_loss_limit"},
                          !.lastReset = day]
        ELSE kept

(* What reconciliation makes of the live halt reasons. *)
ReconciledHalts(outcome, halts) ==
    IF outcome = "clean" THEN halts \ {"reconciliation_discrepancy"}
    ELSE IF outcome = "discrepancy" \/ CountedRows("live") # {}
         THEN halts \cup {"reconciliation_discrepancy"}
         ELSE halts

(* Memory after loading rows; reconciliation then overwrites the counters  *)
(* unless it threw, leaving out the rows it has just flagged.              *)
Load(rows, day, outcome, flags) ==
    /\ dailyPnl' = [m \in Mode |-> LoadedPnl(rows[m], day)]
    /\ lastReset' = [m \in Mode |-> LoadedReset(rows[m], day)]
    /\ approachEmitted' = [m \in Mode |-> FALSE]
    /\ haltReasons' = [m \in Mode |->
          LET loaded == LoadedHalts(rows[m], day, config.dailyLossLimit[m])
          IN  IF m = "live" THEN ReconciledHalts(outcome, loaded) ELSE loaded]
    /\ openCount' = [m \in Mode |->
          IF outcome = "failed" THEN rows[m].openCount
          ELSE Cardinality(CountedRows(m) \ flags)]
    /\ deployed' = [m \in Mode |->
          IF outcome = "failed" THEN rows[m].deployed ELSE EntryCapital(m)]

NoPairs == {}                     \* fault: the set starts out empty
RestoredPairs == {position[i].pair : i \in ActiveRows("paper")}

(* The process dies and starts again.  A close whose row was written but   *)
(* whose risk update had not begun is lost.  The first writes of the       *)
(* startup and its last one may each fail: saved tells, per mode, the last *)
(* that reached the database.                                              *)
RowSaved(saved, m) ==
    CASE saved = "nothing" -> riskRow[m]
      [] saved = "loaded"  -> LoadedRow(riskRow[m], today)
      [] saved = "all"     -> RowOf(m)'

(* A discrepancy flags live positions; one found with a pending order may  *)
(* match no position, and then flags none.                                 *)
Restart(outcome, flags, saved) ==
    /\ flags \subseteq (IF outcome = "discrepancy" THEN CountedRows("live") ELSE {})
    /\ Load(riskRow, today, outcome, flags)
    /\ reservations' = [i \in Request |-> NoReservation]
    /\ position' = [i \in Request |->
          IF position[i] # NoPosition /\ position[i].closed THEN NoPosition
          ELSE IF i \in flags THEN [position[i] EXCEPT !.flagged = TRUE] ELSE position[i]]
    /\ paperActive' = RestoredPairs
    /\ \A m \in Mode : saved[m] = "all" =>
          outcome # "failed" \/ (m = "live" /\ CountedRows("live") # {})
    /\ riskRow' = [m \in Mode |-> RowSaved(saved[m], m)]
    /\ upserts' = [c \in Caller |-> NoUpsert]
    /\ latest' = [m \in Mode |-> NoCaller]
    /\ synced' = [m \in Mode |-> riskRow'[m] = RowOf(m)']
    /\ cronDue' = FALSE
    /\ UNCHANGED <<config, today, profits>>

(* The first boot finds rows left by an earlier version of the engine, and *)
(* no positions.                                                           *)
Init ==
    /\ config \in Configs
    /\ today = 0 /\ cronDue = FALSE
    /\ position = [i \in Request |-> NoPosition]
    /\ reservations = [i \in Request |-> NoReservation]
    /\ paperActive = {}
    /\ \E rows \in [Mode -> InitialRows] :
          /\ dailyPnl = [m \in Mode |-> LoadedPnl(rows[m], today)]
          /\ lastReset = [m \in Mode |-> LoadedReset(rows[m], today)]
          /\ haltReasons = [m \in Mode |->
                LoadedHalts(rows[m], today, config.dailyLossLimit[m]) \ {"reconciliation_discrepancy"}]
    /\ approachEmitted = [m \in Mode |-> FALSE]
    /\ openCount = [m \in Mode |-> 0]
    /\ deployed = [m \in Mode |-> 0]
    /\ riskRow = [m \in Mode |-> RowOf(m)]
    /\ upserts = [c \in Caller |-> NoUpsert]
    /\ latest = [m \in Mode |-> NoCaller]
    /\ synced = [m \in Mode |-> TRUE]
    /\ profits = [m \in Mode |-> 0]

UsedAmounts(i) ==
    Amounts \cup (IF reservations[i] = NoReservation THEN {} ELSE {reservations[i].capital})

QueueStep(i) ==
    \/ \E p \in Pair, m \in RequestModes, a \in Amounts : ReserveBudget(i, p, m, a)
    \/ \E cost \in Amounts, used \in UsedAmounts(i) : PositionCreated(i, cost, used)
    \/ \E m \in Mode : AdjustReservation(i, m)
    \/ \E m \in Mode : CommitReservation(i, m)
    \/ \E m \in Mode : ReleaseReservation(i, m)

ClosingStep(i, t) ==
    \/ PositionRowClosed(i)
    \/ position[i] # NoPosition /\ \E m \in ModesPassed(i), pnl \in Pnls, error \in Misjudged :
          \/ ClosePosition(i, m, pnl, error, t)
          \/ \E exited \in Amounts : ReleasePartialCapital(i, m, exited, pnl, error, t)

HaltStep(t) == HaltTrading(t) \/ ResumeTrading(t) \/ HandleMidnightReset(t)

Next ==
    \/ \E i \in Request : QueueStep(i)
    \/ \E i \in Request, t \in Ticket : ClosingStep(i, t)
    \/ \E t \in Ticket : HaltStep(t)
    \/ \E i \in Request : AcknowledgeDiscrepancy(i)
    \/ \E m \in Mode, t \in Ticket : RecalculateFromPositions(m, t)
    \/ \E c \in Caller : UpsertLands(c) \/ UpsertFails(c)
    \/ \E c \in Configs : ReloadConfig(c)
    \/ \E outcome \in Outcomes, flags \in SUBSET Request, saved \in [Mode -> Saved] :
          Restart(outcome, flags, saved)
    \/ DayPasses

Spec == Init /\ [][Next]_vars

-----------------------------------------------------------------------------
(* Properties. *)

MemoryTypeOK ==
    /\ openCount \in [Mode -> Nat] /\ deployed \in [Mode -> Nat]
    /\ dailyPnl \in [Mode -> Int]
    /\ haltReasons \in [Mode -> SUBSET HaltReason]
    /\ approachEmitted \in [Mode -> BOOLEAN]
    /\ lastReset \in [Mode -> Nat]
BudgetTypeOK ==
    /\ reservations \in [Request -> Reservation \cup {NoReservation}]
    /\ paperActive \subseteq Pair
    /\ position \in [Request -> Position \cup {NoPosition}]
StorageTypeOK ==
    /\ riskRow \in [Mode -> Row]
    /\ upserts \in [Caller -> Upsert \cup {NoUpsert}]
    /\ latest \in [Mode -> Caller \cup {NoCaller}]
    /\ synced \in [Mode -> BOOLEAN]

(* Every variable keeps its type; in particular no counter of the risk     *)
(* manager goes negative and no boot leaves a null reset time behind.      *)
TypeOK ==
    /\ config \in Configs
    /\ MemoryTypeOK /\ BudgetTypeOK /\ StorageTypeOK
    /\ today \in Nat /\ cronDue \in BOOLEAN
    /\ profits \in [Mode -> Nat]

(* What is really at stake in a mode: positions not yet closed towards the *)
(* risk manager, and reservations whose orders may still fill.             *)
AtStake(m) == {i \in Request :
    \/ position[i] # NoPosition /\ position[i].mode = m
    \/ i \in Reserved(m) /\ ~reservations[i].filled}
CapitalAtStake(m) == SumFunction([i \in AtStake(m) |->
    IF position[i] # NoPosition THEN position[i].capital ELSE reservations[i].capital])

(* The positions of a mode, counted from the positions themselves and not  *)
(* from the counters of the risk manager, never outnumber the largest      *)
(* max_open_pairs ever configured: reservations, commits, closes that      *)
(* overtake a commit and restarts never lose count of one.  A position     *)
(* under reconciliation takes no slot (startup-reconciliation says so).    *)
TakesSlot(m) == {i \in AtStake(m) : position[i] # NoPosition => ~position[i].flagged}
SlotsWithinLimit ==
    \A m \in Mode : \E c \in Configs : Cardinality(TakesSlot(m)) <= c.maxOpenPairs

(* The capital really at stake in a mode never exceeds its bankroll and    *)
(* the gains closing positions returned to the pool.                       *)
CapitalWithinBankroll ==
    \A m \in Mode : \E c \in Configs : CapitalAtStake(m) <= c.bankroll[m] + profits[m]

(* A mode whose loss of the day has reached the daily limit of whatever    *)
(* configuration is loaded is halted, however the loss built up, whatever  *)
(* other halts came and went and whatever was restarted since.             *)
LossLimitHalts ==
    \A m \in Mode : (\A c \in Configs : dailyPnl[m] + c.dailyLossLimit[m] <= 0)
                        => "daily_loss_limit" \in haltReasons[m]

(* A paper pair has at most one position or reservation at a time, across  *)
(* closes, releases and restarts.                                          *)
PairAtStake(i) == IF position[i] # NoPosition THEN position[i].pair ELSE reservations[i].pair
PaperPairExclusive ==
    \A i, j \in AtStake("paper") : PairAtStake(i) = PairAtStake(j) => i = j

(* Once every upsert of a mode is over and the newest snapshot was the     *)
(* last to land, the database row is the state in memory: no handler       *)
(* forgets to save what it changed.                                        *)
Settled(m) == synced[m] /\ InFlight(m) = {}
RowFollowsMemory == \A m \in Mode : Settled(m) => riskRow[m] = RowOf(m)

(* A daily-loss halt is lifted only by the midnight job or on a later day, *)
(* never by resuming another reason, and a restart of a process whose row  *)
(* was up to date does not lift it either.                                 *)
LossHaltLifted(m) == /\ "daily_loss_limit" \in haltReasons[m]
                     /\ "daily_loss_limit" \notin haltReasons'[m]
LossHaltLatched ==
    [][\A m \in Mode : LossHaltLifted(m) =>
            cronDue \/ lastReset'[m] > lastReset[m] \/ ~Settled(m)]_vars

(* Closing a paper position leaves the live ledger alone. *)
PaperCloseLeavesLive ==
    [][\A i \in Request :
         /\ position[i] # NoPosition /\ position'[i] = NoPosition
         /\ position[i].mode = "paper"
         => UNCHANGED <<openCount["live"], deployed["live"], dailyPnl["live"]>>]_vars
=============================================================================

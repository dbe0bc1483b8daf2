-------------------------- MODULE RiskBudget_proofs --------------------------
(* Proofs about the risk budget, for every configuration, every set of     *)
(* requests and pairs, and any number of crashes, upserts in flight and    *)
(* concurrent closes; and about the capital of a backtest, which is        *)
(* reserved and released in its simulated portfolio, for any pairs and     *)
(* quotes.                                                                 *)
EXTENDS RiskBudget, BacktestSimulation, SumTheorems, SequenceTheorems

USE DEF Mode, HaltReason, Never

-----------------------------------------------------------------------------
(* The type invariant. *)

(* A snapshot of well-typed memory is a well-typed row. *)
LEMMA RowTyped ==
    ASSUME MemoryTypeOK, BudgetTypeOK, NEW m \in Mode
    PROVE  RowOf(m) \in Row
BY DEF MemoryTypeOK, BudgetTypeOK, RowOf, Row, Reserved, Reservation, NoReservation

LEMMA NextRowTyped ==
    ASSUME MemoryTypeOK', BudgetTypeOK', NEW m \in Mode
    PROVE  RowOf(m)' \in Row
BY DEF MemoryTypeOK, BudgetTypeOK, RowOf, Row, Reserved, Reservation, NoReservation

(* Starting an upsert of a well-typed snapshot keeps the storage typed. *)
LEMMA PersistThenTyped ==
    ASSUME StorageTypeOK, MemoryTypeOK', BudgetTypeOK',
           NEW c \in Caller, NEW m \in Mode, NEW paperNext \in BOOLEAN,
           PersistThen(c, m, paperNext)
    PROVE  StorageTypeOK'
<1>1. RowOf(m)' \in Row
  BY NextRowTyped
<1>2. [mode |-> m, row |-> RowOf(m)', thenPaper |-> paperNext] \in Upsert
  BY <1>1 DEF Upsert
<1>3. upserts' \in [Caller -> Upsert \cup {NoUpsert}]
  BY <1>2 DEF PersistThen, StorageTypeOK
<1>4. latest' \in [Mode -> Caller \cup {NoCaller}]
  BY DEF PersistThen, StorageTypeOK
<1> QED
  BY <1>3, <1>4 DEF PersistThen, StorageTypeOK

LEMMA PersistTyped ==
    ASSUME StorageTypeOK, MemoryTypeOK', BudgetTypeOK',
           NEW c \in Caller, NEW m \in Mode, Persist(c, m)
    PROVE  StorageTypeOK'
BY PersistThenTyped DEF Persist

(* The end of an upsert leaves the caller idle or, at midnight, starts the *)
(* paper row's upsert.                                                     *)
LEMMA ResumeTyped ==
    ASSUME StorageTypeOK, MemoryTypeOK, BudgetTypeOK,
           NEW c \in Caller, upserts[c] # NoUpsert, Resume(c)
    PROVE  /\ upserts' \in [Caller -> Upsert \cup {NoUpsert}]
           /\ latest' \in [Mode -> Caller \cup {NoCaller}]
<1>1. RowOf("paper") \in Row
  BY RowTyped
<1>2. [mode |-> "paper", row |-> RowOf("paper"), thenPaper |-> FALSE] \in Upsert
  BY <1>1 DEF Upsert
<1>3. upserts[c] \in Upsert
  BY DEF StorageTypeOK
<1>4. CASE upserts[c].thenPaper
  BY <1>2, <1>4 DEF Resume, StorageTypeOK
<1>5. CASE ~upserts[c].thenPaper
  BY <1>3, <1>5 DEF Resume, StorageTypeOK, Upsert
<1> QED
  BY <1>4, <1>5

LEMMA UpsertEndsTyped ==
    ASSUME TypeOK, NEW c \in Caller, UpsertLands(c) \/ UpsertFails(c)
    PROVE  TypeOK'
<1>1. upserts[c] # NoUpsert /\ Resume(c)
  BY DEF UpsertLands, UpsertFails
<1>2. upserts[c] \in Upsert
  BY <1>1 DEF TypeOK, StorageTypeOK
<1>3. upserts' \in [Caller -> Upsert \cup {NoUpsert}] /\ latest' \in [Mode -> Caller \cup {NoCaller}]
  BY <1>1, ResumeTyped DEF TypeOK
<1>4. riskRow' \in [Mode -> Row] /\ synced' \in [Mode -> BOOLEAN]
  <2>1. CASE UpsertLands(c)
    <3>1. riskRow' \in [Mode -> Row]
      BY <2>1, <1>2 DEF UpsertLands, TypeOK, StorageTypeOK, Upsert
    <3>2. synced' \in [Mode -> BOOLEAN]
      BY <2>1, <1>2 DEF UpsertLands, TypeOK, StorageTypeOK, Upsert
    <3> QED BY <3>1, <3>2
  <2>2. CASE UpsertFails(c)
    BY <2>2, <1>2 DEF UpsertFails, TypeOK, StorageTypeOK, Upsert
  <2> QED BY <2>1, <2>2
<1> QED
  BY <1>3, <1>4 DEF UpsertLands, UpsertFails, TypeOK, MemoryTypeOK, BudgetTypeOK,
                    StorageTypeOK, memory, budget, clock

(* The handlers of the queue. *)
LEMMA QueueTyped ==
    ASSUME TypeOK, NEW i \in Request, QueueStep(i)
    PROVE  TypeOK'
<1> USE DEF TypeOK, MemoryTypeOK, BudgetTypeOK, memory, clock, Caller
<1>1. ASSUME NEW p \in Pair, NEW m \in RequestModes, NEW a \in Amounts, ReserveBudget(i, p, m, a)
      PROVE  TypeOK'
  <2>1. m \in Mode /\ a \in Nat /\ config \in Config
    BY ParameterTypes
  <2>2. PositionSize(m, a) \in Nat
    BY <2>1 DEF PositionSize, Config
  <2>3. BudgetTypeOK'
    BY <1>1, <2>1, <2>2 DEF ReserveBudget, Reservation
  <2>4. StorageTypeOK'
    BY <1>1, <2>1, <2>3, PersistTyped DEF ReserveBudget
  <2> QED BY <1>1, <2>3, <2>4 DEF ReserveBudget
<1>2. ASSUME NEW cost \in Amounts, NEW used \in UsedAmounts(i), PositionCreated(i, cost, used)
      PROVE  TypeOK'
  <2>1. cost \in Nat
    BY ParameterTypes
  <2>2. reservations[i] \in Reservation
    BY <1>2 DEF PositionCreated
  <2>3. used \in Nat
    BY <1>2, <2>2, ParameterTypes DEF UsedAmounts, Reservation
  <2>4. [[reservations[i] EXCEPT !.filled = TRUE] EXCEPT !.used = used] \in Reservation
    BY <2>2, <2>3 DEF Reservation
  <2>5. reservations' \in [Request -> Reservation \cup {NoReservation}]
    BY <1>2, <2>2, <2>4 DEF PositionCreated
  <2>6. position' \in [Request -> Position \cup {NoPosition}]
    BY <1>2, <2>1, <2>2 DEF PositionCreated, Reservation, Position
  <2>7. BudgetTypeOK'
    BY <1>2, <2>5, <2>6 DEF PositionCreated
  <2> QED BY <1>2, <2>7 DEF PositionCreated, storage, StorageTypeOK
<1>3. ASSUME NEW m \in Mode, AdjustReservation(i, m)
      PROVE  TypeOK'
  <2>1. reservations[i] \in Reservation
    BY <1>3 DEF AdjustReservation, Reserved
  <2>2. reservations[i].used \in Nat
    BY <2>1 DEF Reservation
  <2>3. BudgetTypeOK'
    BY <1>3, <2>1, <2>2 DEF AdjustReservation, Reservation
  <2>4. StorageTypeOK'
    BY <1>3, <2>3, PersistTyped DEF AdjustReservation
  <2> QED BY <1>3, <2>3, <2>4 DEF AdjustReservation
<1>4. ASSUME NEW m \in Mode, CommitReservation(i, m)
      PROVE  TypeOK'
  <2>1. reservations[i].capital \in Nat
    BY <1>4 DEF CommitReservation, Reserved, Reservation
  <2>2. MemoryTypeOK' /\ BudgetTypeOK'
    BY <1>4, <2>1 DEF CommitReservation
  <2>3. StorageTypeOK'
    BY <1>4, <2>2, PersistTyped DEF CommitReservation
  <2> QED BY <1>4, <2>2, <2>3 DEF CommitReservation
<1>5. ASSUME NEW m \in Mode, ReleaseReservation(i, m)
      PROVE  TypeOK'
  <2>1. BudgetTypeOK'
    BY <1>5 DEF ReleaseReservation
  <2>2. StorageTypeOK'
    BY <1>5, <2>1, PersistTyped DEF ReleaseReservation
  <2> QED BY <1>5, <2>1, <2>2 DEF ReleaseReservation
<1> QED
  BY <1>1, <1>2, <1>3, <1>4, <1>5 DEF QueueStep

(* The closing paths. *)
LEMMA ClosingTyped ==
    ASSUME TypeOK, NEW i \in Request, NEW t \in Ticket, ClosingStep(i, t)
    PROVE  TypeOK'
<1> USE DEF TypeOK, BudgetTypeOK, memory, clock, budget, Caller
<1>1. CASE PositionRowClosed(i)
  <2>1. position[i] \in Position
    BY <1>1 DEF PositionRowClosed
  <2>2. BudgetTypeOK'
    BY <1>1, <2>1 DEF PositionRowClosed, Position
  <2> QED BY <1>1, <2>2 DEF PositionRowClosed, storage, StorageTypeOK, MemoryTypeOK
<1>2. ASSUME position[i] # NoPosition, NEW m \in ModesPassed(i), NEW pnl \in Pnls, NEW error \in Misjudged
      PROVE  /\ position[i] \in Position /\ m \in Mode /\ pnl \in Int /\ error \in Int
             /\ CapitalReturned(i, pnl, error) \in Int /\ Floor(pnl) \in Nat
             /\ UpdateDailyPnl(m, pnl) => /\ dailyPnl' \in [Mode -> Int]
                                         /\ haltReasons' \in [Mode -> SUBSET HaltReason]
                                         /\ approachEmitted' \in [Mode -> BOOLEAN]
                                         /\ profits' \in [Mode -> Nat]
  <2>1. position[i] \in Position /\ m \in Mode /\ pnl \in Int
    BY <1>2, ParameterTypes DEF ModesPassed, Position
  <2>2. CapitalReturned(i, pnl, error) \in Int /\ Floor(pnl) \in Nat /\ error \in Int
    BY <2>1, ParameterTypes DEF Position, CapitalReturned, Floor, Misjudged
  <2>3. ASSUME UpdateDailyPnl(m, pnl)
        PROVE  /\ dailyPnl' \in [Mode -> Int] /\ haltReasons' \in [Mode -> SUBSET HaltReason]
               /\ approachEmitted' \in [Mode -> BOOLEAN] /\ profits' \in [Mode -> Nat]
    <3>1. dailyPnl' \in [Mode -> Int] /\ profits' \in [Mode -> Nat]
      BY <2>1, <2>2, <2>3 DEF UpdateDailyPnl, MemoryTypeOK
    <3>2. haltReasons' \in [Mode -> SUBSET HaltReason]
      BY <2>1, <2>3 DEF UpdateDailyPnl, MemoryTypeOK
    <3>3. approachEmitted' \in [Mode -> BOOLEAN]
      BY <2>1, <2>3, Zenon DEF UpdateDailyPnl, MemoryTypeOK
    <3> QED BY <3>1, <3>2, <3>3
  <2> QED BY <2>1, <2>2, <2>3
<1>3. ASSUME position[i] # NoPosition, NEW m \in ModesPassed(i), NEW pnl \in Pnls, NEW error \in Misjudged,
             ClosePosition(i, m, pnl, error, t)
      PROVE  TypeOK'
  <2>1. openCount' \in [Mode -> Nat] /\ deployed' \in [Mode -> Nat]
    BY <1>2, <1>3 DEF ClosePosition, MemoryTypeOK, Floor
  <2>2. MemoryTypeOK' /\ profits' \in [Mode -> Nat]
    BY <1>2, <1>3, <2>1 DEF ClosePosition, MemoryTypeOK
  <2>3. BudgetTypeOK'
    BY <1>3 DEF ClosePosition
  <2>4. StorageTypeOK'
    BY <1>2, <1>3, <2>2, <2>3, PersistTyped DEF ClosePosition
  <2> QED BY <1>3, <2>2, <2>3, <2>4 DEF ClosePosition
<1>4. ASSUME position[i] # NoPosition, NEW m \in ModesPassed(i), NEW pnl \in Pnls, NEW error \in Misjudged,
             NEW exited \in Amounts, ReleasePartialCapital(i, m, exited, pnl, error, t)
      PROVE  TypeOK'
  <2>1. exited \in Nat /\ deployed[m] - (exited + pnl + error) \in Int
    BY <1>2, <1>4, ParameterTypes DEF MemoryTypeOK
  <2>2. deployed' \in [Mode -> Nat]
    BY <1>2, <1>4, <2>1 DEF ReleasePartialCapital, MemoryTypeOK, Floor
  <2>3. MemoryTypeOK' /\ profits' \in [Mode -> Nat]
    BY <1>2, <1>4, <2>2 DEF ReleasePartialCapital, MemoryTypeOK
  <2>4. position[i].capital - exited \in Nat
    BY <1>2, <1>4, <2>1 DEF ReleasePartialCapital, Position
  <2>5. BudgetTypeOK'
    BY <1>2, <1>4, <2>4 DEF ReleasePartialCapital, Position
  <2>6. StorageTypeOK'
    BY <1>2, <1>4, <2>3, <2>5, PersistTyped DEF ReleasePartialCapital
  <2> QED BY <1>4, <2>3, <2>5, <2>6 DEF ReleasePartialCapital
<1> QED
  BY <1>1, <1>3, <1>4 DEF ClosingStep

(* Halts, the midnight job. *)
LEMMA HaltTyped ==
    ASSUME TypeOK, NEW t \in Ticket, HaltStep(t)
    PROVE  TypeOK'
<1> USE DEF TypeOK, BudgetTypeOK, MemoryTypeOK, clock, budget, Caller
<1>1. CASE HaltTrading(t)
  <2>1. MemoryTypeOK' /\ BudgetTypeOK'
    BY <1>1 DEF HaltTrading
  <2>2. StorageTypeOK'
    BY <1>1, <2>1, PersistTyped DEF HaltTrading
  <2> QED BY <1>1, <2>1, <2>2 DEF HaltTrading
<1>2. CASE ResumeTrading(t)
  <2>1. MemoryTypeOK' /\ BudgetTypeOK'
    BY <1>2 DEF ResumeTrading
  <2>2. StorageTypeOK'
    BY <1>2, <2>1, PersistTyped DEF ResumeTrading
  <2> QED BY <1>2, <2>1, <2>2 DEF ResumeTrading
<1>3. CASE HandleMidnightReset(t)
  <2>1. MemoryTypeOK' /\ BudgetTypeOK'
    BY <1>3 DEF HandleMidnightReset
  <2>2. StorageTypeOK'
    BY <1>3, <2>1, PersistThenTyped DEF HandleMidnightReset
  <2> QED BY <1>3, <2>1, <2>2 DEF HandleMidnightReset
<1> QED
  BY <1>1, <1>2, <1>3 DEF HaltStep

(* What recalculation counts: the active rows and their entry capital. *)
LEMMA RecalculationTyped ==
    ASSUME BudgetTypeOK, NEW m \in Mode
    PROVE  /\ \A S \in SUBSET CountedRows(m) : Cardinality(S) \in Nat
           /\ EntryCapital(m) \in Nat
<1>1. ActiveRows(m) \in SUBSET Request /\ CountedRows(m) \in SUBSET Request
  BY DEF ActiveRows, CountedRows
<1>2. \A S \in SUBSET CountedRows(m) : Cardinality(S) \in Nat
  BY <1>1, FiniteRequests, FS_Subset, FS_CardinalityType
<1>3. [i \in ActiveRows(m) |-> position[i].entry] \in [ActiveRows(m) -> Nat]
  BY ParameterTypes DEF ActiveRows, BudgetTypeOK, Position
<1>4. IsFiniteSet(ActiveRows(m))
  BY <1>1, FiniteRequests, FS_Subset
<1>5. EntryCapital(m) \in Nat
  <2> DEFINE f == [i \in ActiveRows(m) |-> position[i].entry]
  <2>1. f \in [ActiveRows(m) -> Nat] /\ EntryCapital(m) = SumFunction(f)
    BY <1>3 DEF EntryCapital
  <2> HIDE DEF f
  <2> QED BY <1>4, <2>1, SumNatural
<1> QED
  BY <1>2, <1>5

(* What a boot makes of the rows it finds. *)
LEMMA LoadedTyped ==
    ASSUME NEW row \in Row, NEW day \in Nat, NEW limit \in Nat
    PROVE  /\ LoadedPnl(row, day) \in Int
           /\ LoadedReset(row, day) \in Nat
           /\ LoadedHalts(row, day, limit) \in SUBSET HaltReason
           /\ LoadedRow(row, day) \in Row
<1>1. LoadedPnl(row, day) \in Int /\ LoadedReset(row, day) \in Nat
  BY DEF LoadedPnl, LoadedReset, Row
<1>2. LoadedHalts(row, day, limit) \in SUBSET HaltReason
  BY Zenon DEF LoadedHalts, Row
<1>3. LoadedRow(row, day) \in Row
  <2>1. row.haltReasons \ {"daily_loss_limit"} \in SUBSET HaltReason
    BY DEF Row
  <2>2. LoadedRow(row, day) =
           [openCount |-> row.openCount, deployed |-> row.deployed,
            dailyPnl |-> LoadedPnl(row, day),
            haltReasons |-> IF ResetsOnLoad(row, day)
                            THEN row.haltReasons \ {"daily_loss_limit"} ELSE row.haltReasons,
            lastReset |-> IF ResetsOnLoad(row, day) THEN day ELSE row.lastReset,
            reserved |-> {}]
    BY DEF LoadedRow, LoadedPnl, Row
  <2> QED BY <1>1, <2>1, <2>2 DEF Row
<1> QED
  BY <1>1, <1>2, <1>3

LEMMA LoadTyped ==
    ASSUME TypeOK, NEW outcome \in Outcomes, NEW flags, Load(riskRow, today, outcome, flags)
    PROVE  MemoryTypeOK'
<1>1. /\ \A m \in Mode : riskRow[m] \in Row /\ config.dailyLossLimit[m] \in Nat
      /\ today \in Nat /\ BudgetTypeOK
  BY ParameterTypes DEF TypeOK, StorageTypeOK, Config
<1>2. dailyPnl' \in [Mode -> Int] /\ lastReset' \in [Mode -> Nat]
  BY <1>1, LoadedTyped DEF Load
<1>3. haltReasons' \in [Mode -> SUBSET HaltReason]
  <2>1. \A m \in Mode : LoadedHalts(riskRow[m], today, config.dailyLossLimit[m]) \in SUBSET HaltReason
    BY <1>1, LoadedTyped
  <2>2. ASSUME NEW halts \in SUBSET HaltReason
        PROVE  ReconciledHalts(outcome, halts) \in SUBSET HaltReason
    BY DEF ReconciledHalts
  <2> QED BY <2>1, <2>2 DEF Load
<1>4. openCount' \in [Mode -> Nat] /\ deployed' \in [Mode -> Nat]
  <2>1. \A m \in Mode : Cardinality(CountedRows(m) \ flags) \in Nat
    BY <1>1, RecalculationTyped
  <2> QED BY <1>1, <2>1, RecalculationTyped DEF Load, Row
<1>5. approachEmitted' \in [Mode -> BOOLEAN]
  BY DEF Load
<1> QED
  BY <1>2, <1>3, <1>4, <1>5 DEF MemoryTypeOK

LEMMA RestartTyped ==
    ASSUME TypeOK, NEW outcome \in Outcomes, NEW flags, NEW saved \in [Mode -> Saved],
           Restart(outcome, flags, saved)
    PROVE  TypeOK'
<1>1. MemoryTypeOK'
  BY LoadTyped DEF Restart
<1>2. BudgetTypeOK'
  <2>1. RestoredPairs \subseteq Pair
    BY DEF RestoredPairs, ActiveRows, TypeOK, BudgetTypeOK, Position
  <2>2. \A i \in Request : position[i] # NoPosition =>
           [position[i] EXCEPT !.flagged = TRUE] \in Position
    BY DEF TypeOK, BudgetTypeOK, Position
  <2>3. \A i \in flags : i \in Request => position[i] # NoPosition
    BY DEF Restart, CountedRows, ActiveRows
  <2>4. position' \in [Request -> Position \cup {NoPosition}]
    BY <2>2, <2>3 DEF Restart, TypeOK, BudgetTypeOK
  <2>5. reservations' \in [Request -> Reservation \cup {NoReservation}] /\ paperActive' \subseteq Pair
    BY <2>1 DEF Restart
  <2> QED BY <2>4, <2>5 DEF BudgetTypeOK
<1>3. \A m \in Mode : RowOf(m)' \in Row /\ LoadedRow(riskRow[m], today) \in Row
  <2>1. \A m \in Mode : riskRow[m] \in Row
    BY DEF TypeOK, StorageTypeOK
  <2> QED BY <1>1, <1>2, <2>1, NextRowTyped, LoadedTyped DEF TypeOK
<1>4. riskRow' \in [Mode -> Row]
  <2>1. \A m \in Mode : RowSaved(saved[m], m) \in Row
    BY <1>3 DEF RowSaved, Saved, TypeOK, StorageTypeOK
  <2> QED BY <2>1 DEF Restart
<1>5. StorageTypeOK'
  BY <1>4 DEF Restart, StorageTypeOK
<1> QED
  BY <1>1, <1>2, <1>5 DEF Restart, TypeOK

LEMMA InitTyped == Init => TypeOK
<1> SUFFICES ASSUME Init PROVE TypeOK
  OBVIOUS
<1>1. /\ config \in Configs /\ today = 0 /\ today \in Nat
      /\ \A m \in Mode : config.dailyLossLimit[m] \in Nat
  BY ParameterTypes DEF Init, Config
<1>2. PICK rows \in [Mode -> InitialRows] :
          /\ dailyPnl = [m \in Mode |-> LoadedPnl(rows[m], today)]
          /\ lastReset = [m \in Mode |-> LoadedReset(rows[m], today)]
          /\ haltReasons = [m \in Mode |->
                LoadedHalts(rows[m], today, config.dailyLossLimit[m]) \ {"reconciliation_discrepancy"}]
  BY DEF Init
<1>3. \A m \in Mode : rows[m] \in Row
  BY ParameterTypes
<1>4. MemoryTypeOK
  BY <1>1, <1>2, <1>3, LoadedTyped DEF Init, MemoryTypeOK
<1>5. BudgetTypeOK
  BY DEF Init, BudgetTypeOK
<1>6. \A m \in Mode : RowOf(m) \in Row
  BY <1>4, <1>5, RowTyped
<1> QED
  BY <1>1, <1>4, <1>5, <1>6 DEF Init, TypeOK, StorageTypeOK

LEMMA StepTyped == TypeOK /\ [Next]_vars => TypeOK'
<1> SUFFICES ASSUME TypeOK, [Next]_vars PROVE TypeOK'
  OBVIOUS
<1>1. CASE UNCHANGED vars
  BY <1>1 DEF vars, memory, budget, storage, clock, TypeOK, MemoryTypeOK, BudgetTypeOK, StorageTypeOK
<1>2. ASSUME NEW m \in Mode, NEW t \in Ticket, RecalculateFromPositions(m, t)
      PROVE  TypeOK'
  <2>1. MemoryTypeOK' /\ BudgetTypeOK'
    BY <1>2, RecalculationTyped
       DEF RecalculateFromPositions, TypeOK, MemoryTypeOK, BudgetTypeOK, budget
  <2>2. StorageTypeOK'
    BY <1>2, <2>1, PersistTyped DEF RecalculateFromPositions, TypeOK, Caller
  <2> QED BY <1>2, <2>1, <2>2 DEF RecalculateFromPositions, TypeOK, clock
<1>3. ASSUME NEW c \in Configs, ReloadConfig(c)
      PROVE  TypeOK'
  BY <1>3 DEF ReloadConfig, memory, budget, storage, clock, TypeOK, MemoryTypeOK, BudgetTypeOK, StorageTypeOK
<1>4. CASE DayPasses
  BY <1>4 DEF DayPasses, memory, budget, storage, TypeOK, MemoryTypeOK, BudgetTypeOK, StorageTypeOK
<1>5. ASSUME NEW i \in Request, AcknowledgeDiscrepancy(i)
      PROVE  TypeOK'
  <2>1. position[i] \in Position
    BY <1>5 DEF AcknowledgeDiscrepancy, TypeOK, BudgetTypeOK
  <2>2. [position[i] EXCEPT !.flagged = FALSE] \in Position
    BY <2>1 DEF Position
  <2>3. position' \in [Request -> Position \cup {NoPosition}]
    BY <1>5, <2>2 DEF AcknowledgeDiscrepancy, TypeOK, BudgetTypeOK
  <2> QED BY <1>5, <2>3 DEF AcknowledgeDiscrepancy, memory, budget, storage, clock,
                            TypeOK, MemoryTypeOK, BudgetTypeOK, StorageTypeOK
<1> QED
  BY <1>1, <1>2, <1>3, <1>4, <1>5, QueueTyped, ClosingTyped, HaltTyped, UpsertEndsTyped, RestartTyped DEF Next

(* Every reachable state is well typed, whatever the sets of requests,     *)
(* pairs and callers: no counter of the risk manager goes negative.        *)
THEOREM TypeInvariant == Spec => []TypeOK
BY InitTyped, StepTyped, PTL DEF Spec

-----------------------------------------------------------------------------
(* The daily loss limit.  LossLimitHalts is inductive on its own.          *)

LEMMA UpdateHalts ==
    ASSUME TypeOK, LossLimitHalts, NEW m \in Mode, NEW pnl \in Int,
           UpdateDailyPnl(m, pnl), config' = config
    PROVE  LossLimitHalts'
<1> SUFFICES ASSUME NEW n \in Mode, \A c \in Configs : dailyPnl'[n] + c.dailyLossLimit[n] <= 0
             PROVE  "daily_loss_limit" \in haltReasons'[n]
  BY DEF LossLimitHalts
<1>1. CASE n # m
  BY <1>1 DEF UpdateDailyPnl, LossLimitHalts, TypeOK, MemoryTypeOK
<1>2. CASE n = m
  <2>1. /\ config \in Configs /\ config.dailyLossLimit[m] \in Nat
        /\ dailyPnl[m] \in Int /\ haltReasons[m] \in SUBSET HaltReason
    BY ParameterTypes DEF TypeOK, MemoryTypeOK, Config
  <2>2. dailyPnl'[m] = dailyPnl[m] + pnl
    BY DEF UpdateDailyPnl, TypeOK, MemoryTypeOK
  <2>3. Breach(dailyPnl[m] + pnl, config.dailyLossLimit[m])
    BY <1>2, <2>1, <2>2 DEF Breach
  <2>4. haltReasons'[m] = haltReasons[m] \cup {"daily_loss_limit"}
    BY <2>3 DEF UpdateDailyPnl, TypeOK, MemoryTypeOK
  <2> QED BY <1>2, <2>4
<1> QED BY <1>1, <1>2

(* A row that passes as today's and carries a loss at the limit makes the  *)
(* boot halt; any other row is loaded with no loss.                        *)
LEMMA LoadHalts ==
    ASSUME NEW row \in Row, NEW day \in Nat, NEW limit \in Nat \ {0},
           LoadedPnl(row, day) + limit <= 0
    PROVE  "daily_loss_limit" \in LoadedHalts(row, day, limit)
<1>1. ~ResetsOnLoad(row, day)
  BY DEF LoadedPnl
<1>2. row.dailyPnl \in Int /\ row.dailyPnl + limit <= 0 /\ row.dailyPnl # 0
  BY <1>1 DEF LoadedPnl, Row
<1>3. row.lastReset # Never /\ ~IsStale(row, day)
  BY <1>1, <1>2 DEF ResetsOnLoad, IsCorrupt
<1>4. Breach(row.dailyPnl, limit)
  BY <1>2 DEF Breach
<1> QED BY <1>1, <1>3, <1>4, Zenon DEF LoadedHalts

LEMMA RestartHalts ==
    ASSUME TypeOK, NEW outcome, NEW flags, NEW saved, Restart(outcome, flags, saved)
    PROVE  LossLimitHalts'
<1> SUFFICES ASSUME NEW m \in Mode, \A c \in Configs : dailyPnl'[m] + c.dailyLossLimit[m] <= 0
             PROVE  "daily_loss_limit" \in haltReasons'[m]
  BY DEF LossLimitHalts
<1>1. /\ config \in Configs /\ config.dailyLossLimit[m] \in Nat \ {0}
      /\ riskRow[m] \in Row /\ today \in Nat
  BY ParameterTypes DEF TypeOK, StorageTypeOK, Config
<1>2. LoadedPnl(riskRow[m], today) + config.dailyLossLimit[m] <= 0
  BY <1>1 DEF Restart, Load
<1>3. "daily_loss_limit" \in LoadedHalts(riskRow[m], today, config.dailyLossLimit[m])
  BY <1>1, <1>2, LoadHalts
<1>4. \A halts : "daily_loss_limit" \in halts => "daily_loss_limit" \in ReconciledHalts(outcome, halts)
  BY DEF ReconciledHalts
<1> QED BY <1>3, <1>4 DEF Restart, Load

LEMMA LossStep == TypeOK /\ LossLimitHalts /\ [Next]_vars => LossLimitHalts'
<1> SUFFICES ASSUME TypeOK, LossLimitHalts, [Next]_vars PROVE LossLimitHalts'
  OBVIOUS
<1>1. ASSUME UNCHANGED <<dailyPnl, haltReasons>>
      PROVE  LossLimitHalts'
  BY <1>1 DEF LossLimitHalts
<1>2. CASE UNCHANGED vars
  BY <1>1, <1>2 DEF vars, memory
<1>3. ASSUME NEW i \in Request, QueueStep(i)
      PROVE  LossLimitHalts'
  BY <1>1, <1>3 DEF QueueStep, ReserveBudget, PositionCreated, AdjustReservation,
                    CommitReservation, ReleaseReservation, memory
<1>4. ASSUME NEW i \in Request, NEW t \in Ticket, ClosingStep(i, t)
      PROVE  LossLimitHalts'
  <2>1. CASE PositionRowClosed(i)
    BY <1>1, <2>1 DEF PositionRowClosed, memory
  <2>2. ASSUME position[i] # NoPosition, NEW m \in ModesPassed(i), NEW pnl \in Pnls, NEW error \in Misjudged,
               \/ ClosePosition(i, m, pnl, error, t)
               \/ \E exited \in Amounts : ReleasePartialCapital(i, m, exited, pnl, error, t)
        PROVE  LossLimitHalts'
    <3>1. m \in Mode /\ pnl \in Int
      BY <2>2, ParameterTypes DEF ModesPassed, TypeOK, BudgetTypeOK, Position
    <3>2. UpdateDailyPnl(m, pnl) /\ config' = config
      BY <2>2 DEF ClosePosition, ReleasePartialCapital
    <3> QED BY <3>1, <3>2, UpdateHalts
  <2> QED BY <1>4, <2>1, <2>2 DEF ClosingStep
<1>5. ASSUME NEW t \in Ticket, HaltStep(t)
      PROVE  LossLimitHalts'
  <2>1. CASE HaltTrading(t) \/ ResumeTrading(t)
    BY <2>1 DEF HaltTrading, ResumeTrading, LossLimitHalts, TypeOK, MemoryTypeOK
  <2>2. CASE HandleMidnightReset(t)
    <3>1. ASSUME NEW m \in Mode
          PROVE  config \in Configs /\ config.dailyLossLimit[m] \in Nat \ {0} /\ dailyPnl'[m] = 0
      BY <2>2, ParameterTypes DEF HandleMidnightReset, TypeOK, Config
    <3> QED BY <2>2, <3>1 DEF HandleMidnightReset, LossLimitHalts
  <2> QED BY <1>5, <2>1, <2>2 DEF HaltStep
<1>6. ASSUME NEW m \in Mode, NEW t \in Ticket, RecalculateFromPositions(m, t)
      PROVE  LossLimitHalts'
  BY <1>1, <1>6 DEF RecalculateFromPositions
<1>7. ASSUME NEW c \in Caller, UpsertLands(c) \/ UpsertFails(c)
      PROVE  LossLimitHalts'
  BY <1>1, <1>7 DEF UpsertLands, UpsertFails, memory
<1>8. CASE \/ DayPasses \/ \E c \in Configs : ReloadConfig(c)
           \/ \E i \in Request : AcknowledgeDiscrepancy(i)
  BY <1>1, <1>8 DEF DayPasses, ReloadConfig, AcknowledgeDiscrepancy, memory
<1> QED
  BY <1>2, <1>3, <1>4, <1>5, <1>6, <1>7, <1>8, RestartHalts DEF Next

LEMMA LossInit == Init => LossLimitHalts
<1> SUFFICES ASSUME Init PROVE LossLimitHalts
  OBVIOUS
<1>1. PICK rows \in [Mode -> InitialRows] :
          /\ dailyPnl = [m \in Mode |-> LoadedPnl(rows[m], today)]
          /\ haltReasons = [m \in Mode |->
                LoadedHalts(rows[m], today, config.dailyLossLimit[m]) \ {"reconciliation_discrepancy"}]
  BY DEF Init
<1>2. ASSUME NEW m \in Mode, \A c \in Configs : dailyPnl[m] + c.dailyLossLimit[m] <= 0
      PROVE  "daily_loss_limit" \in haltReasons[m]
  <2>1. /\ config \in Configs /\ config.dailyLossLimit[m] \in Nat \ {0}
        /\ rows[m] \in Row /\ today \in Nat
    BY ParameterTypes DEF Init, Config
  <2>2. LoadedPnl(rows[m], today) + config.dailyLossLimit[m] <= 0
    BY <1>1, <1>2, <2>1
  <2> QED BY <1>1, <2>1, <2>2, LoadHalts
<1> QED BY <1>2 DEF LossLimitHalts

(* A mode whose loss of the day has reached the limit is halted, in every  *)
(* reachable state, across any sequence of closes, partial exits, halts,   *)
(* resumes, reloads, failed upserts and crashes.                           *)
THEOREM LossLimitAlwaysHalts == Spec => []LossLimitHalts
BY TypeInvariant, LossInit, LossStep, PTL DEF Spec

-----------------------------------------------------------------------------
(* One paper position or reservation per pair.                             *)

(* A reservation still to be filled has no position yet.                   *)
UnfilledHasNoRow == \A i \in Request :
    reservations[i] # NoReservation /\ ~reservations[i].filled => position[i] = NoPosition
(* Every pair at stake in paper mode is in the set that reserveBudget tests. *)
PairsActive == \A i \in AtStake("paper") : PairAtStake(i) \in paperActive

PairInv == UnfilledHasNoRow /\ PairsActive /\ PaperPairExclusive

(* What is at stake in paper mode is decided by the reservations and the   *)
(* positions alone.                                                        *)
LEMMA PairFrame ==
    ASSUME PairInv, UNCHANGED <<reservations, position, paperActive>>
    PROVE  PairInv'
BY DEF PairInv, UnfilledHasNoRow, PairsActive, PaperPairExclusive, PairAtStake, AtStake, Reserved

LEMMA PairQueue ==
    ASSUME TypeOK, PairInv, NEW i \in Request, QueueStep(i)
    PROVE  PairInv'
<1> USE DEF PairInv, UnfilledHasNoRow, PairsActive, PaperPairExclusive, PairAtStake,
            AtStake, Reserved, TypeOK, BudgetTypeOK
<1>1. ASSUME NEW p \in Pair, NEW m \in RequestModes, NEW a \in Amounts, ReserveBudget(i, p, m, a)
      PROVE  PairInv'
  <2>1. /\ reservations[i] = NoReservation /\ position[i] = NoPosition /\ position' = position
        /\ reservations' = [reservations EXCEPT ![i] = [pair |-> p, mode |-> m,
                                capital |-> PositionSize(m, a),
                                used |-> PositionSize(m, a), filled |-> FALSE]]
        /\ m = "paper" => p \notin paperActive /\ paperActive' = paperActive \cup {p}
        /\ m # "paper" => paperActive' = paperActive
    BY <1>1 DEF ReserveBudget
  <2>2. /\ reservations'[i] # NoReservation /\ ~reservations'[i].filled
        /\ reservations'[i].mode = m /\ reservations'[i].pair = p
        /\ \A j \in Request \ {i} : reservations'[j] = reservations[j]
    BY <2>1 DEF NoReservation
  <2>3. UnfilledHasNoRow'
    BY <2>1, <2>2
  <2>4. AtStake("paper")' = IF m = "paper" THEN AtStake("paper") \cup {i} ELSE AtStake("paper")
    BY <2>1, <2>2
  <2>5. \A j \in AtStake("paper") : j # i /\ PairAtStake(j)' = PairAtStake(j)
    BY <2>1, <2>2
  <2>6. PairAtStake(i)' = p
    BY <2>1, <2>2
  <2> QED BY <2>1, <2>3, <2>4, <2>5, <2>6
<1>2. ASSUME NEW cost \in Amounts, NEW used \in UsedAmounts(i), PositionCreated(i, cost, used)
      PROVE  PairInv'
  <2>1. reservations[i] \in Reservation /\ position[i] = NoPosition
    BY <1>2 DEF PositionCreated
  <2>2. /\ position' = [position EXCEPT ![i] = [pair |-> reservations[i].pair,
                mode |-> reservations[i].mode, entry |-> cost, capital |-> cost,
                closed |-> FALSE, flagged |-> FALSE]]
        /\ reservations' = [reservations EXCEPT ![i].filled = TRUE, ![i].used = used] /\ paperActive' = paperActive
    BY <1>2 DEF PositionCreated
  <2>3. /\ reservations'[i].filled /\ position'[i] # NoPosition
        /\ position'[i].pair = reservations[i].pair /\ position'[i].mode = reservations[i].mode
        /\ \A j \in Request \ {i} : reservations'[j] = reservations[j] /\ position'[j] = position[j]
    BY <2>1, <2>2 DEF Reservation, NoPosition
  <2>4. UnfilledHasNoRow'
    BY <2>3
  <2>5. i \in AtStake("paper") <=> reservations[i].mode = "paper"
    BY <1>2, <2>1 DEF PositionCreated
  <2>6. AtStake("paper")' = AtStake("paper")
    BY <2>3, <2>5
  <2>7. \A j \in AtStake("paper") : PairAtStake(j)' = PairAtStake(j)
    BY <2>1, <2>3
  <2> QED BY <2>2, <2>4, <2>6, <2>7
<1>3. ASSUME NEW m \in Mode, AdjustReservation(i, m)
      PROVE  PairInv'
  <2>1. /\ reservations[i] \in Reservation /\ reservations[i].filled
        /\ reservations' = [reservations EXCEPT ![i].capital = reservations[i].used]
        /\ position' = position /\ paperActive' = paperActive
    BY <1>3 DEF AdjustReservation
  <2>2. /\ reservations'[i].filled /\ reservations'[i].pair = reservations[i].pair
        /\ reservations'[i] # NoReservation /\ reservations'[i].mode = reservations[i].mode
        /\ \A j \in Request \ {i} : reservations'[j] = reservations[j]
    BY <2>1 DEF Reservation, NoReservation
  <2>3. AtStake("paper")' = AtStake("paper")
    BY <2>1, <2>2
  <2> QED BY <2>1, <2>2, <2>3
<1>4. ASSUME NEW m \in Mode, CommitReservation(i, m)
      PROVE  PairInv'
  <2>1. /\ reservations[i].filled /\ reservations' = [reservations EXCEPT ![i] = NoReservation]
        /\ position' = position /\ paperActive' = paperActive
    BY <1>4 DEF CommitReservation
  <2>2. AtStake("paper")' = AtStake("paper")
    BY <2>1
  <2>3. \A j \in AtStake("paper") : PairAtStake(j)' = PairAtStake(j)
    BY <2>1
  <2> QED BY <2>1, <2>2, <2>3
<1>5. ASSUME NEW m \in Mode, ReleaseReservation(i, m)
      PROVE  PairInv'
  <2>1. /\ reservations[i] # NoReservation /\ ~reservations[i].filled /\ reservations[i].mode = m
        /\ position[i] = NoPosition /\ position' = position
        /\ reservations' = [reservations EXCEPT ![i] = NoReservation]
        /\ paperActive' = IF m = "paper" THEN paperActive \ {reservations[i].pair} ELSE paperActive
    BY <1>5 DEF ReleaseReservation
  <2>2. AtStake("paper")' = AtStake("paper") \ {i}
    BY <2>1
  <2>3. \A j \in AtStake("paper")' : PairAtStake(j)' = PairAtStake(j)
    BY <2>1, <2>2
  <2>4. m = "paper" => i \in AtStake("paper") /\ PairAtStake(i) = reservations[i].pair
    BY <2>1
  <2>5. PairsActive'
    BY <2>1, <2>2, <2>3, <2>4
  <2> QED BY <2>1, <2>2, <2>3, <2>5
<1> QED
  BY <1>1, <1>2, <1>3, <1>4, <1>5 DEF QueueStep

LEMMA PairClosing ==
    ASSUME TypeOK, PairInv, NEW i \in Request, NEW t \in Ticket, ClosingStep(i, t)
    PROVE  PairInv'
<1> USE DEF PairInv, UnfilledHasNoRow, PairsActive, PaperPairExclusive, PairAtStake,
            AtStake, Reserved, TypeOK, BudgetTypeOK
<1>1. ASSUME position[i] # NoPosition, reservations' = reservations, paperActive' = paperActive,
             position'[i] # NoPosition, position'[i].mode = position[i].mode,
             position'[i].pair = position[i].pair,
             \A j \in Request \ {i} : position'[j] = position[j]
      PROVE  PairInv'
  <2>1. AtStake("paper")' = AtStake("paper")
    BY <1>1
  <2>2. \A j \in AtStake("paper") : PairAtStake(j)' = PairAtStake(j)
    BY <1>1
  <2> QED BY <1>1, <2>1, <2>2
<1>2. CASE PositionRowClosed(i)
  <2>1. position[i] \in Position
    BY <1>2 DEF PositionRowClosed
  <2> QED BY <1>1, <1>2, <2>1 DEF PositionRowClosed, budget, Position, NoPosition
<1>3. ASSUME NEW m \in ModesPassed(i), NEW pnl \in Pnls, NEW error \in Misjudged, NEW exited \in Amounts,
             ReleasePartialCapital(i, m, exited, pnl, error, t)
      PROVE  PairInv'
  <2>1. position[i] \in Position
    BY <1>3 DEF ReleasePartialCapital
  <2> QED BY <1>1, <1>3, <2>1 DEF ReleasePartialCapital, budget, Position, NoPosition
<1>4. ASSUME NEW m \in ModesPassed(i), NEW pnl \in Pnls, NEW error \in Misjudged, ClosePosition(i, m, pnl, error, t)
      PROVE  PairInv'
  <2>1. /\ position[i] # NoPosition /\ position' = [position EXCEPT ![i] = NoPosition]
        /\ reservations' = reservations
        /\ paperActive' = IF m = "paper" THEN paperActive \ {position[i].pair} ELSE paperActive
    BY <1>4 DEF ClosePosition
  <2>2. m = "paper" => i \in AtStake("paper") /\ PairAtStake(i) = position[i].pair
    BY <2>1 DEF ModesPassed
  <2>3. AtStake("paper")' = AtStake("paper") \ {i}
    BY <2>1
  <2>4. \A j \in AtStake("paper")' : PairAtStake(j)' = PairAtStake(j)
    BY <2>1, <2>3
  <2>5. PairsActive'
    BY <2>1, <2>2, <2>3, <2>4
  <2>6. UnfilledHasNoRow'
    BY <2>1
  <2> QED BY <2>3, <2>4, <2>5, <2>6
<1> QED
  BY <1>2, <1>3, <1>4 DEF ClosingStep

(* A restart drops the closed rows, and flags some of the others. *)
LEMMA RestartKeepsActive ==
    ASSUME TypeOK, NEW outcome, NEW flags, NEW saved, Restart(outcome, flags, saved),
           NEW i \in Request
    PROVE  /\ position'[i] = NoPosition <=> position[i] = NoPosition \/ position[i].closed
           /\ position'[i] # NoPosition =>
                /\ position'[i].mode = position[i].mode /\ position'[i].pair = position[i].pair
                /\ ~position'[i].closed
                /\ position'[i].flagged <=> position[i].flagged \/ i \in flags
<1>1. position'[i] = IF position[i] # NoPosition /\ position[i].closed THEN NoPosition
                     ELSE IF i \in flags THEN [position[i] EXCEPT !.flagged = TRUE] ELSE position[i]
  BY DEF Restart
<1>2. i \in flags => position[i] # NoPosition
  BY DEF Restart, CountedRows, ActiveRows
<1>3. position[i] \in Position \cup {NoPosition}
  BY DEF TypeOK, BudgetTypeOK
<1>4. position[i] # NoPosition => /\ position[i] \in Position
                                  /\ [position[i] EXCEPT !.flagged = TRUE] \in Position
  BY <1>3 DEF Position
<1>5. \A q \in Position : q # NoPosition
  BY DEF Position, NoPosition
<1>6. CASE position[i] = NoPosition
  BY <1>1, <1>2, <1>6
<1>7. CASE position[i] # NoPosition /\ position[i].closed
  BY <1>1, <1>7
<1>8. CASE position[i] # NoPosition /\ ~position[i].closed
  BY <1>1, <1>4, <1>5, <1>8 DEF Position
<1> QED BY <1>6, <1>7, <1>8

LEMMA PairStep == TypeOK /\ PairInv /\ [Next]_vars => PairInv'
<1> SUFFICES ASSUME TypeOK, PairInv, [Next]_vars PROVE PairInv'
  OBVIOUS
<1>1. CASE UNCHANGED vars
  BY <1>1, PairFrame DEF vars, budget
<1>2. ASSUME NEW t \in Ticket, HaltStep(t)
      PROVE  PairInv'
  BY <1>2, PairFrame DEF HaltStep, HaltTrading, ResumeTrading, HandleMidnightReset, budget
<1>3. ASSUME NEW m \in Mode, NEW t \in Ticket, RecalculateFromPositions(m, t)
      PROVE  PairInv'
  BY <1>3, PairFrame DEF RecalculateFromPositions, budget
<1>4. ASSUME NEW c \in Caller, UpsertLands(c) \/ UpsertFails(c)
      PROVE  PairInv'
  BY <1>4, PairFrame DEF UpsertLands, UpsertFails, budget
<1>5. CASE DayPasses \/ \E c \in Configs : ReloadConfig(c)
  BY <1>5, PairFrame DEF DayPasses, ReloadConfig, budget
<1>6. ASSUME NEW outcome \in Outcomes, NEW flags, NEW saved, Restart(outcome, flags, saved)
      PROVE  PairInv'
  <2>1. /\ reservations' = [i \in Request |-> NoReservation]
        /\ paperActive' = {position[i].pair : i \in ActiveRows("paper")}
    BY <1>6 DEF Restart, RestoredPairs
  <2>2. AtStake("paper")' = ActiveRows("paper")
    BY <1>6, <2>1, RestartKeepsActive DEF AtStake, ActiveRows, Reserved
  <2>3. \A i \in ActiveRows("paper") : i \in AtStake("paper") /\ PairAtStake(i)' = position[i].pair
                                       /\ PairAtStake(i) = position[i].pair
    BY <1>6, RestartKeepsActive DEF AtStake, ActiveRows, PairAtStake
  <2> QED BY <2>1, <2>2, <2>3 DEF PairInv, UnfilledHasNoRow, PairsActive, PaperPairExclusive
<1>7. ASSUME NEW i \in Request, AcknowledgeDiscrepancy(i)
      PROVE  PairInv'
  <2>1. position[i] \in Position /\ \A q \in Position : q # NoPosition
    BY <1>7 DEF AcknowledgeDiscrepancy, TypeOK, BudgetTypeOK, Position, NoPosition
  <2>2. /\ reservations' = reservations /\ paperActive' = paperActive
        /\ \A j \in Request \ {i} : position'[j] = position[j]
        /\ position'[i] # NoPosition => /\ position'[i].mode = position[i].mode
                                        /\ position'[i].pair = position[i].pair
    BY <1>7, <2>1 DEF AcknowledgeDiscrepancy, TypeOK, BudgetTypeOK, budget, Position
  <2>3. /\ AtStake("paper")' \subseteq AtStake("paper")
        /\ \A j \in AtStake("paper")' : PairAtStake(j)' = PairAtStake(j)
    BY <1>7, <2>2 DEF AcknowledgeDiscrepancy, AtStake, Reserved, PairAtStake, PairInv, UnfilledHasNoRow
  <2>4. UnfilledHasNoRow'
    BY <1>7, <2>2 DEF AcknowledgeDiscrepancy, PairInv, UnfilledHasNoRow
  <2> QED BY <2>2, <2>3, <2>4 DEF PairInv, PairsActive, PaperPairExclusive
<1> QED
  BY <1>1, <1>2, <1>3, <1>4, <1>5, <1>6, <1>7, PairQueue, PairClosing DEF Next

LEMMA PairInit == Init => PairInv
BY DEF Init, PairInv, UnfilledHasNoRow, PairsActive, PaperPairExclusive, AtStake, Reserved

(* Two paper positions or reservations never share a pair, though the      *)
(* guard is a set kept apart from both and rebuilt at every boot; this     *)
(* holds even when operators close paper positions as if they were live.   *)
THEOREM PaperPairsExclusive == Spec => []PaperPairExclusive
<1>1. PairInv => PaperPairExclusive
  BY DEF PairInv
<1> QED
  BY <1>1, TypeInvariant, PairInit, PairStep, PTL DEF Spec

-----------------------------------------------------------------------------
(* The row in the database.  Where the newest snapshot of a mode is in     *)
(* flight it is the memory of that mode; where none is, and the last to    *)
(* land was the newest, the row is.  Between the two upserts of the        *)
(* midnight job the paper row alone may lag behind.                        *)

MidnightPending == \E c \in Caller : upserts[c] # NoUpsert /\ upserts[c].thenPaper
UpToDate(m, row) == row = RowOf(m) \/ (m = "paper" /\ MidnightPending)

NewestInFlight(m) == latest[m] # NoCaller =>
    /\ upserts[latest[m]] # NoUpsert
    /\ upserts[latest[m]].mode = m
    /\ UpToDate(m, upserts[latest[m]].row)
NewestLanded(m) == latest[m] = NoCaller /\ synced[m] => UpToDate(m, riskRow[m])
MidnightIsLive == \A c \in Caller : upserts[c] # NoUpsert /\ upserts[c].thenPaper
                                        => upserts[c].mode = "live"

RowInv == MidnightIsLive /\ \A m \in Mode : NewestInFlight(m) /\ NewestLanded(m)

(* A handler that changes the memory of one mode takes a snapshot of that  *)
(* mode in the same step; the midnight job changes both and snapshots live.*)
LEMMA SnapshotFollows ==
    ASSUME TypeOK, RowInv, NEW c \in Caller, NEW m \in Mode, NEW paperNext \in BOOLEAN,
           upserts[c] = NoUpsert, PersistThen(c, m, paperNext), paperNext => m = "live",
           \A n \in Mode \ {m} : RowOf(n)' = RowOf(n) \/ (n = "paper" /\ paperNext)
    PROVE  RowInv'
<1>1. /\ upserts'[c] = [mode |-> m, row |-> RowOf(m)', thenPaper |-> paperNext]
      /\ upserts'[c] # NoUpsert
      /\ \A d \in Caller \ {c} : upserts'[d] = upserts[d]
      /\ latest'[m] = c /\ \A n \in Mode \ {m} : latest'[n] = latest[n]
      /\ riskRow' = riskRow /\ synced' = synced
  BY DEF PersistThen, TypeOK, StorageTypeOK, NoUpsert
<1>2. c # NoCaller
  BY CallersDistinct
<1>3. MidnightPending \/ paperNext => MidnightPending'
  BY <1>1 DEF MidnightPending
<1>4. MidnightIsLive'
  BY <1>1 DEF RowInv, MidnightIsLive
<1>5. NewestInFlight(m)' /\ NewestLanded(m)'
  BY <1>1, <1>2 DEF NewestInFlight, NewestLanded, UpToDate
<1>6. ASSUME NEW n \in Mode \ {m}
      PROVE  NewestInFlight(n)' /\ NewestLanded(n)'
  <2>1. \A row : UpToDate(n, row) => UpToDate(n, row)'
    BY <1>3 DEF UpToDate
  <2>2. latest[n] \in Caller \cup {NoCaller} /\ NewestInFlight(n) /\ NewestLanded(n)
    BY DEF RowInv, TypeOK, StorageTypeOK
  <2>3. latest[n] # NoCaller => upserts'[latest[n]] = upserts[latest[n]]
    BY <1>1, <2>2 DEF NewestInFlight
  <2> QED BY <1>1, <2>1, <2>2, <2>3 DEF NewestInFlight, NewestLanded
<1> QED BY <1>4, <1>5, <1>6 DEF RowInv

(* What the row of a mode is made of.                                      *)
LEMMA RowFrame ==
    ASSUME NEW m \in Mode,
           openCount'[m] = openCount[m], deployed'[m] = deployed[m], dailyPnl'[m] = dailyPnl[m],
           haltReasons'[m] = haltReasons[m], lastReset'[m] = lastReset[m],
           Reserved(m)' = Reserved(m),
           \A i \in Reserved(m) : reservations'[i].capital = reservations[i].capital
    PROVE  RowOf(m)' = RowOf(m)
BY DEF RowOf

LEMMA StorageFrame ==
    ASSUME RowInv, UNCHANGED storage, \A m \in Mode : RowOf(m)' = RowOf(m)
    PROVE  RowInv'
<1>1. upserts' = upserts /\ latest' = latest /\ synced' = synced /\ riskRow' = riskRow
  BY DEF storage
<1>2. ASSUME NEW m \in Mode PROVE NewestInFlight(m)' /\ NewestLanded(m)'
  BY <1>1 DEF RowInv, NewestInFlight, NewestLanded, UpToDate, MidnightPending
<1>3. MidnightIsLive'
  BY <1>1 DEF RowInv, MidnightIsLive
<1> QED BY <1>2, <1>3 DEF RowInv

LEMMA FilledReservation ==
    ASSUME TypeOK, NEW i \in Request, reservations[i] # NoReservation, NEW used,
           reservations' = [reservations EXCEPT ![i].filled = TRUE, ![i].used = used]
    PROVE  /\ reservations'[i].filled /\ reservations'[i].used = used
           /\ reservations'[i].mode = reservations[i].mode
           /\ reservations'[i].capital = reservations[i].capital
           /\ reservations[i] # NoReservation /\ reservations'[i] # NoReservation
           /\ \A j \in Request \ {i} : reservations'[j] = reservations[j]
<1>1. reservations[i] \in Reservation
  BY DEF TypeOK, BudgetTypeOK
<1>2. reservations'[i] = [reservations[i] EXCEPT !.filled = TRUE, !.used = used]
  BY DEF TypeOK, BudgetTypeOK
<1>3. /\ reservations'[i].filled /\ reservations'[i].used = used
      /\ reservations'[i].mode = reservations[i].mode
      /\ reservations'[i].capital = reservations[i].capital
  BY <1>1, <1>2, ZenonT(60) DEF Reservation
<1>4. reservations'[i] # NoReservation
  BY <1>1, <1>2 DEF Reservation, NoReservation
<1>5. \A j \in Request \ {i} : reservations'[j] = reservations[j]
  BY DEF TypeOK, BudgetTypeOK
<1> QED BY <1>3, <1>4, <1>5

LEMMA RowQueue ==
    ASSUME TypeOK, RowInv, NEW i \in Request, QueueStep(i)
    PROVE  RowInv'
<1> USE DEF TypeOK, BudgetTypeOK, Caller
<1>1. ASSUME NEW m \in Mode, Persist(i, m), dailyPnl' = dailyPnl, haltReasons' = haltReasons,
             lastReset' = lastReset, \A n \in Mode \ {m} : openCount'[n] = openCount[n] /\ deployed'[n] = deployed[n],
             \A j \in Request \ {i} : reservations'[j] = reservations[j],
             reservations[i] # NoReservation => reservations[i].mode = m,
             reservations'[i] # NoReservation => reservations'[i].mode = m
      PROVE  RowInv'
  <2>1. ASSUME NEW n \in Mode \ {m} PROVE RowOf(n)' = RowOf(n)
    <3>1. Reserved(n)' = Reserved(n) /\ i \notin Reserved(n)
      BY <1>1 DEF Reserved
    <3>2. \A j \in Reserved(n) : reservations'[j].capital = reservations[j].capital
      BY <1>1, <3>1 DEF Reserved
    <3> QED BY <1>1, <3>1, <3>2, RowFrame
  <2> QED BY <1>1, <2>1, SnapshotFollows DEF Persist, CanPersist
<1>2. ASSUME NEW p \in Pair, NEW m \in RequestModes, NEW a \in Amounts, ReserveBudget(i, p, m, a)
      PROVE  RowInv'
  <2>1. m \in Mode
    BY ParameterTypes
  <2>2. /\ Persist(i, m) /\ reservations[i] = NoReservation /\ reservations'[i].mode = m
        /\ \A j \in Request \ {i} : reservations'[j] = reservations[j]
    BY <1>2 DEF ReserveBudget
  <2> QED BY <1>1, <1>2, <2>1, <2>2 DEF ReserveBudget, memory
<1>3. ASSUME NEW cost \in Amounts, NEW used \in UsedAmounts(i), PositionCreated(i, cost, used)
      PROVE  RowInv'
  <2>1. /\ reservations[i] \in Reservation
        /\ reservations' = [reservations EXCEPT ![i].filled = TRUE, ![i].used = used]
        /\ UNCHANGED storage /\ UNCHANGED memory
    BY <1>3 DEF PositionCreated
  <2>2. /\ reservations'[i].capital = reservations[i].capital /\ reservations'[i].mode = reservations[i].mode
        /\ reservations[i] # NoReservation /\ reservations'[i] # NoReservation
        /\ \A j \in Request \ {i} : reservations'[j] = reservations[j]
    BY <1>3, <2>1, FilledReservation DEF PositionCreated
  <2>3. ASSUME NEW n \in Mode PROVE RowOf(n)' = RowOf(n)
    <3>1. Reserved(n)' = Reserved(n)
      BY <2>2 DEF Reserved
    <3>2. \A j \in Reserved(n) : reservations'[j].capital = reservations[j].capital
      BY <2>2 DEF Reserved
    <3> QED BY <2>1, <3>1, <3>2, RowFrame DEF memory
  <2> QED BY <2>1, <2>3, StorageFrame
<1>4. ASSUME NEW m \in Mode, AdjustReservation(i, m)
      PROVE  RowInv'
  <2>1. /\ reservations[i] \in Reservation /\ reservations[i].mode = m /\ Persist(i, m)
        /\ reservations' = [reservations EXCEPT ![i].capital = reservations[i].used]
    BY <1>4 DEF AdjustReservation, Reserved
  <2>2. reservations'[i].mode = m /\ \A j \in Request \ {i} : reservations'[j] = reservations[j]
    BY <2>1 DEF Reservation
  <2> QED BY <1>1, <1>4, <2>1, <2>2 DEF AdjustReservation, memory
<1>5. ASSUME NEW m \in Mode, CommitReservation(i, m)
      PROVE  RowInv'
  <2>1. /\ reservations[i].mode = m /\ Persist(i, m) /\ reservations' = [reservations EXCEPT ![i] = NoReservation]
    BY <1>5 DEF CommitReservation, Reserved
  <2>2. \A n \in Mode \ {m} : openCount'[n] = openCount[n] /\ deployed'[n] = deployed[n]
    BY <1>5 DEF CommitReservation, MemoryTypeOK
  <2> QED BY <1>1, <1>5, <2>1, <2>2 DEF CommitReservation
<1>6. ASSUME NEW m \in Mode, ReleaseReservation(i, m)
      PROVE  RowInv'
  <2>1. /\ reservations[i].mode = m /\ Persist(i, m) /\ reservations' = [reservations EXCEPT ![i] = NoReservation]
    BY <1>6 DEF ReleaseReservation, Reserved
  <2> QED BY <1>1, <1>6, <2>1 DEF ReleaseReservation, memory
<1> QED BY <1>2, <1>3, <1>4, <1>5, <1>6 DEF QueueStep

LEMMA RowClosing ==
    ASSUME TypeOK, RowInv, NEW i \in Request, NEW t \in Ticket, ClosingStep(i, t)
    PROVE  RowInv'
<1>1. CASE PositionRowClosed(i)
  <2>1. UNCHANGED storage /\ UNCHANGED memory /\ reservations' = reservations
    BY <1>1 DEF PositionRowClosed, budget
  <2>2. \A n \in Mode : RowOf(n)' = RowOf(n)
    BY <2>1 DEF RowOf, Reserved, memory
  <2> QED BY <2>1, <2>2, StorageFrame
<1>2. ASSUME position[i] # NoPosition, NEW m \in ModesPassed(i), NEW pnl \in Pnls, NEW error \in Misjudged,
             \/ ClosePosition(i, m, pnl, error, t)
             \/ \E exited \in Amounts : ReleasePartialCapital(i, m, exited, pnl, error, t)
      PROVE  RowInv'
  <2>1. m \in Mode
    BY <1>2 DEF ModesPassed, Position, TypeOK, BudgetTypeOK
  <2>2. /\ Persist(t, m) /\ reservations' = reservations /\ lastReset' = lastReset
        /\ UpdateDailyPnl(m, pnl)
    BY <1>2 DEF ClosePosition, ReleasePartialCapital, budget
  <2>3. \A n \in Mode \ {m} : dailyPnl'[n] = dailyPnl[n] /\ haltReasons'[n] = haltReasons[n]
    BY <2>2 DEF UpdateDailyPnl, TypeOK, MemoryTypeOK
  <2>4. \A n \in Mode \ {m} : openCount'[n] = openCount[n] /\ deployed'[n] = deployed[n]
    BY <1>2 DEF ClosePosition, ReleasePartialCapital, TypeOK, MemoryTypeOK
  <2>5. \A n \in Mode \ {m} : RowOf(n)' = RowOf(n)
    BY <2>2, <2>3, <2>4, ZenonT(60) DEF RowOf, Reserved
  <2> QED BY <2>1, <2>2, <2>5, SnapshotFollows DEF Persist, CanPersist, Caller
<1> QED BY <1>1, <1>2 DEF ClosingStep

LEMMA RowHalt ==
    ASSUME TypeOK, RowInv, NEW t \in Ticket, HaltStep(t)
    PROVE  RowInv'
<1>1. CASE HaltTrading(t) \/ ResumeTrading(t)
  <2>1. /\ Persist(t, "live") /\ reservations' = reservations /\ lastReset' = lastReset
        /\ openCount' = openCount /\ deployed' = deployed /\ dailyPnl' = dailyPnl
        /\ haltReasons'["paper"] = haltReasons["paper"]
    BY <1>1 DEF HaltTrading, ResumeTrading, budget, TypeOK, MemoryTypeOK
  <2>2. \A n \in Mode \ {"live"} : RowOf(n)' = RowOf(n)
    BY <2>1 DEF RowOf, Reserved
  <2> QED BY <2>1, <2>2, SnapshotFollows DEF Persist, CanPersist, Caller
<1>2. CASE HandleMidnightReset(t)
  BY <1>2, SnapshotFollows DEF HandleMidnightReset, CanPersist, Caller
<1> QED BY <1>1, <1>2 DEF HaltStep

(* An upsert that ends leaves every other caller's in flight.  The one of  *)
(* the midnight job goes on to a snapshot of the paper state as it is now. *)
LEMMA RowUpsert ==
    ASSUME TypeOK, RowInv, NEW c \in Caller, UpsertLands(c) \/ UpsertFails(c)
    PROVE  RowInv'
<1> DEFINE m == upserts[c].mode
<1>1. /\ upserts[c] \in Upsert /\ upserts[c] # NoUpsert /\ m \in Mode
      /\ Resume(c) /\ c # NoCaller
      /\ MidnightIsLive /\ \A n \in Mode : NewestInFlight(n) /\ NewestLanded(n)
  BY CallersDistinct DEF UpsertLands, UpsertFails, TypeOK, StorageTypeOK, Upsert, RowInv
<1>2. \A n \in Mode : RowOf(n)' = RowOf(n)
  <2>1. UNCHANGED memory /\ reservations' = reservations
    BY DEF UpsertLands, UpsertFails, budget
  <2> QED BY <2>1 DEF RowOf, Reserved, memory
<1>3. \A d \in Caller \ {c} : upserts'[d] = upserts[d]
  BY <1>1 DEF Resume, TypeOK, StorageTypeOK
<1>4. ASSUME NEW n \in Mode
      PROVE  /\ latest[n] # c /\ n # m => riskRow'[n] = riskRow[n] /\ synced'[n] = synced[n]
             /\ latest[n] = c => n = m /\ (synced'[n] => riskRow'[n] = upserts[c].row)
             /\ latest[n] = NoCaller /\ synced'[n] => riskRow'[n] = riskRow[n] /\ synced[n]
  <2>1. latest[n] = c => n = m
    BY <1>1 DEF NewestInFlight
  <2>2. CASE UpsertLands(c)
    BY <1>1, <2>1, <2>2 DEF UpsertLands, TypeOK, StorageTypeOK
  <2>3. CASE UpsertFails(c)
    BY <1>1, <2>1, <2>3 DEF UpsertFails, TypeOK, StorageTypeOK
  <2> QED BY <2>2, <2>3
<1>5. CASE upserts[c].thenPaper
  <2>1. m = "live"
    BY <1>1, <1>5 DEF MidnightIsLive
  <2>2. /\ upserts'[c] = [mode |-> "paper", row |-> RowOf("paper"), thenPaper |-> FALSE]
        /\ upserts'[c] # NoUpsert
        /\ latest'["paper"] = c
        /\ latest'["live"] = IF latest["live"] = c THEN NoCaller ELSE latest["live"]
    BY <1>1, <1>5 DEF Resume, TypeOK, StorageTypeOK, NoUpsert
  <2>3. MidnightIsLive'
    BY <1>1, <1>3, <2>2 DEF MidnightIsLive
  <2>4. NewestInFlight("paper")' /\ NewestLanded("paper")'
    BY <1>1, <1>2, <2>2 DEF NewestInFlight, NewestLanded, UpToDate
  <2>5. NewestInFlight("live")'
    <3>1. ASSUME latest["live"] \notin {c, NoCaller}
          PROVE  latest["live"] \in Caller /\ upserts'[latest["live"]] = upserts[latest["live"]]
      BY <1>3, <3>1 DEF TypeOK, StorageTypeOK
    <3> QED BY <1>1, <1>2, <2>2, <3>1 DEF NewestInFlight, UpToDate
  <2>6. NewestLanded("live")'
    BY <1>1, <1>2, <1>4, <2>1, <2>2 DEF NewestInFlight, NewestLanded, UpToDate
  <2> QED BY <2>3, <2>4, <2>5, <2>6 DEF RowInv
<1>6. CASE ~upserts[c].thenPaper
  <2>1. /\ upserts'[c] = NoUpsert
        /\ latest'[m] = IF latest[m] = c THEN NoCaller ELSE latest[m]
        /\ \A n \in Mode \ {m} : latest'[n] = latest[n]
    BY <1>1, <1>6 DEF Resume, TypeOK, StorageTypeOK
  <2>2. MidnightPending' <=> MidnightPending
    BY <1>3, <1>6, <2>1 DEF MidnightPending
  <2>3. MidnightIsLive'
    BY <1>1, <1>3, <2>1 DEF MidnightIsLive
  <2>4. ASSUME NEW n \in Mode
        PROVE  NewestInFlight(n)' /\ NewestLanded(n)'
    <3>1. \A row : UpToDate(n, row)' <=> UpToDate(n, row)
      BY <1>2, <2>2 DEF UpToDate
    <3>2. latest[n] # c => latest'[n] = latest[n]
      BY <2>1
    <3>3. latest[n] = c => latest'[n] = NoCaller
      BY <1>4, <2>1
    <3>4. NewestInFlight(n)'
      <4>1. ASSUME latest[n] \notin {c, NoCaller}
            PROVE  latest[n] \in Caller /\ upserts'[latest[n]] = upserts[latest[n]]
        BY <1>3, <4>1 DEF TypeOK, StorageTypeOK
      <4> QED BY <1>1, <3>1, <3>2, <3>3, <4>1 DEF NewestInFlight
    <3>5. NewestLanded(n)'
      BY <1>1, <1>4, <3>1, <3>2, <3>3 DEF NewestInFlight, NewestLanded
    <3> QED BY <3>4, <3>5
  <2> QED BY <2>3, <2>4 DEF RowInv
<1> QED BY <1>5, <1>6, <1>1 DEF Upsert

LEMMA RowStep == TypeOK /\ RowInv /\ [Next]_vars => RowInv'
<1> SUFFICES ASSUME TypeOK, RowInv, [Next]_vars PROVE RowInv'
  OBVIOUS
<1>1. CASE UNCHANGED vars
  BY <1>1, StorageFrame DEF vars, memory, budget, RowOf, Reserved
<1>2. ASSUME NEW m \in Mode, NEW t \in Ticket, RecalculateFromPositions(m, t)
      PROVE  RowInv'
  <2>1. /\ Persist(t, m) /\ reservations' = reservations /\ lastReset' = lastReset
        /\ dailyPnl' = dailyPnl /\ haltReasons' = haltReasons
        /\ \A n \in Mode \ {m} : openCount'[n] = openCount[n] /\ deployed'[n] = deployed[n]
    BY <1>2 DEF RecalculateFromPositions, budget, TypeOK, MemoryTypeOK
  <2>2. \A n \in Mode \ {m} : RowOf(n)' = RowOf(n)
    BY <2>1 DEF RowOf, Reserved
  <2> QED BY <2>1, <2>2, SnapshotFollows DEF Persist, CanPersist, Caller
<1>3. CASE \/ DayPasses \/ \E c \in Configs : ReloadConfig(c)
           \/ \E i \in Request : AcknowledgeDiscrepancy(i)
  <2>1. UNCHANGED storage /\ UNCHANGED memory /\ reservations' = reservations
    BY <1>3 DEF DayPasses, ReloadConfig, AcknowledgeDiscrepancy, budget
  <2>2. \A n \in Mode : RowOf(n)' = RowOf(n)
    BY <2>1 DEF RowOf, Reserved, memory
  <2> QED BY <2>1, <2>2, StorageFrame
<1>4. ASSUME NEW outcome, NEW flags, NEW saved, Restart(outcome, flags, saved)
      PROVE  RowInv'
  <2>1. /\ upserts' = [c \in Caller |-> NoUpsert] /\ latest' = [n \in Mode |-> NoCaller]
        /\ synced' = [n \in Mode |-> riskRow'[n] = RowOf(n)']
    BY <1>4 DEF Restart
  <2>2. \A n \in Mode : NewestInFlight(n)' /\ NewestLanded(n)'
    BY <2>1 DEF NewestInFlight, NewestLanded, UpToDate
  <2>3. MidnightIsLive'
    BY <2>1 DEF MidnightIsLive
  <2> QED BY <2>2, <2>3 DEF RowInv
<1> QED
  BY <1>1, <1>2, <1>3, <1>4, RowQueue, RowClosing, RowHalt, RowUpsert DEF Next

LEMMA RowInit == Init => RowInv
BY DEF Init, RowInv, NewestInFlight, NewestLanded, MidnightIsLive, UpToDate

LEMMA RowHolds == TypeOK /\ RowInv => RowFollowsMemory
<1> SUFFICES ASSUME TypeOK, RowInv, NEW m \in Mode, Settled(m) PROVE riskRow[m] = RowOf(m)
  BY DEF RowFollowsMemory
<1>1. \A c \in Caller : upserts[c] # NoUpsert => upserts[c].mode # m /\ ~upserts[c].thenPaper
  BY DEF Settled, InFlight
<1>2. ~MidnightPending
  BY <1>1 DEF MidnightPending
<1>3. latest[m] = NoCaller
  BY <1>1 DEF RowInv, NewestInFlight, TypeOK, StorageTypeOK
<1> QED BY <1>2, <1>3 DEF Settled, RowInv, NewestLanded, UpToDate

(* No handler forgets to save what it changed: once the upserts of a mode  *)
(* are over and the newest was the last to land, the row is the memory.    *)
THEOREM RowAlwaysFollowsMemory == Spec => []RowFollowsMemory
BY TypeInvariant, RowInit, RowStep, RowHolds, PTL DEF Spec

(* What a step may do to a daily-loss halt.                                *)
LEMMA HaltLatched ==
    TypeOK /\ RowFollowsMemory /\ [Next]_vars =>
        \A m \in Mode : LossHaltLifted(m) =>
            cronDue \/ lastReset'[m] > lastReset[m] \/ ~Settled(m)
<1> SUFFICES ASSUME TypeOK, RowFollowsMemory, [Next]_vars, NEW m \in Mode, LossHaltLifted(m),
                    ~cronDue, Settled(m)
             PROVE  lastReset'[m] > lastReset[m]
  OBVIOUS
<1>1. "daily_loss_limit" \in haltReasons[m] /\ "daily_loss_limit" \notin haltReasons'[m]
  BY DEF LossHaltLifted
<1>2. ~UNCHANGED haltReasons
  BY <1>1
<1>3. ASSUME NEW i \in Request, QueueStep(i) PROVE FALSE
  BY <1>2, <1>3 DEF QueueStep, ReserveBudget, PositionCreated, AdjustReservation,
                    CommitReservation, ReleaseReservation, memory
<1>4. ASSUME NEW i \in Request, NEW t \in Ticket, ClosingStep(i, t) PROVE FALSE
  <2>1. CASE PositionRowClosed(i)
    BY <1>2, <2>1 DEF PositionRowClosed, memory
  <2>2. ASSUME NEW n \in ModesPassed(i), NEW pnl, UpdateDailyPnl(n, pnl) PROVE FALSE
    BY <1>1, <2>2 DEF UpdateDailyPnl, TypeOK, MemoryTypeOK
  <2> QED BY <1>4, <2>1, <2>2 DEF ClosingStep, ClosePosition, ReleasePartialCapital
<1>5. ASSUME NEW t \in Ticket, HaltStep(t) PROVE FALSE
  BY <1>1, <1>5, ZenonT(60) DEF HaltStep, HaltTrading, ResumeTrading, HandleMidnightReset, TypeOK, MemoryTypeOK
<1>6. ASSUME NEW n \in Mode, NEW t \in Ticket, RecalculateFromPositions(n, t) PROVE FALSE
  BY <1>2, <1>6 DEF RecalculateFromPositions
<1>7. ASSUME NEW c \in Caller, UpsertLands(c) \/ UpsertFails(c) PROVE FALSE
  BY <1>2, <1>7 DEF UpsertLands, UpsertFails, memory
<1>8. ASSUME \/ UNCHANGED vars \/ DayPasses \/ \E c \in Configs : ReloadConfig(c)
             \/ \E i \in Request : AcknowledgeDiscrepancy(i)
      PROVE  FALSE
  BY <1>2, <1>8 DEF vars, DayPasses, ReloadConfig, AcknowledgeDiscrepancy, memory
<1>9. ASSUME NEW outcome, NEW flags, NEW saved, Restart(outcome, flags, saved)
      PROVE  lastReset'[m] > lastReset[m]
  <2>1. riskRow[m] = RowOf(m)
    BY DEF RowFollowsMemory
  <2>2. /\ riskRow[m].haltReasons = haltReasons[m] /\ riskRow[m].lastReset = lastReset[m]
        /\ lastReset[m] \in Nat /\ today \in Nat
    BY <2>1 DEF RowOf, TypeOK, MemoryTypeOK
  <2>3. "daily_loss_limit" \notin LoadedHalts(riskRow[m], today, config.dailyLossLimit[m])
    BY <1>1, <1>9 DEF Restart, Load, ReconciledHalts
  <2>4. ResetsOnLoad(riskRow[m], today)
    <3>1. ASSUME ~ResetsOnLoad(riskRow[m], today)
          PROVE  "daily_loss_limit" \in LoadedHalts(riskRow[m], today, config.dailyLossLimit[m])
      BY <1>1, <2>2, <3>1, Zenon DEF LoadedHalts
    <3> QED BY <2>3, <3>1
  <2>5. lastReset[m] < today
    BY <2>2, <2>4 DEF ResetsOnLoad, IsStale, IsCorrupt
  <2>6. lastReset'[m] = today
    BY <1>9, <2>2, <2>5 DEF Restart, Load, LoadedReset
  <2> QED BY <2>2, <2>5, <2>6
<1> QED
  BY <1>3, <1>4, <1>5, <1>6, <1>7, <1>8, <1>9 DEF Next

(* Only midnight and a later day lift a daily-loss halt; a restart of a    *)
(* process whose row was up to date does not, and no resume ever does.     *)
THEOREM LossHaltStaysLatched == Spec => LossHaltLatched
BY TypeInvariant, RowAlwaysFollowsMemory, HaltLatched, PTL DEF Spec, LossHaltLatched

-----------------------------------------------------------------------------
(* The two limits on what a mode may have at stake: how many positions and *)
(* how much capital.  The counters of the risk manager are compared with   *)
(* the positions and reservations themselves, so the proofs count finite   *)
(* sets of requests and add up what they hold.                             *)

HIDE DEF Mode, HaltReason, Never

SlotsTaken(m) == openCount[m] + ReservedSlots(m)

(* The counters never fall behind what is at stake, and never pass every   *)
(* limit there has been.                                                   *)
StakeCovered == \A m \in Mode : Cardinality(TakesSlot(m)) <= SlotsTaken(m)
TakenWithinLimit == \A m \in Mode : \E c \in Configs : SlotsTaken(m) <= c.maxOpenPairs
SlotInv == UnfilledHasNoRow /\ StakeCovered /\ TakenWithinLimit

-----------------------------------------------------------------------------
(* Counting sets of requests. *)

LEMMA Counting ==
    ASSUME NEW S \in SUBSET Request
    PROVE  /\ IsFiniteSet(S) /\ Cardinality(S) \in Nat
           /\ \A i \in Request \ S : Cardinality(S \cup {i}) = Cardinality(S) + 1
           /\ \A i \in S : Cardinality(S \ {i}) = Cardinality(S) - 1
           /\ \A T \in SUBSET S : Cardinality(T) <= Cardinality(S)
<1>1. IsFiniteSet(S) /\ Cardinality(S) \in Nat
  BY FiniteRequests, FS_Subset, FS_CardinalityType
<1>2. ASSUME NEW i \in Request \ S PROVE Cardinality(S \cup {i}) = Cardinality(S) + 1
  BY <1>1, FS_AddElement
<1>3. ASSUME NEW i \in S PROVE Cardinality(S \ {i}) = Cardinality(S) - 1
  BY <1>1, FS_RemoveElement
<1>4. ASSUME NEW T \in SUBSET S PROVE Cardinality(T) <= Cardinality(S)
  BY <1>1, FS_Subset
<1> QED BY <1>1, <1>2, <1>3, <1>4

LEMMA SlotTypes ==
    ASSUME TypeOK, NEW m \in Mode
    PROVE  /\ TakesSlot(m) \in SUBSET Request /\ Reserved(m) \in SUBSET Request
           /\ Cardinality(TakesSlot(m)) \in Nat /\ ReservedSlots(m) \in Nat /\ openCount[m] \in Nat
           /\ \A c \in Configs : c.maxOpenPairs \in Nat
<1>1. TakesSlot(m) \in SUBSET Request /\ Reserved(m) \in SUBSET Request
  BY DEF TakesSlot, AtStake, Reserved
<1>2. Cardinality(TakesSlot(m)) \in Nat /\ ReservedSlots(m) \in Nat
  BY <1>1, Counting DEF ReservedSlots
<1>3. openCount[m] \in Nat
  BY DEF TypeOK, MemoryTypeOK
<1>4. \A c \in Configs : c.maxOpenPairs \in Nat
  BY ParameterTypes DEF Config
<1> QED BY <1>1, <1>2, <1>3, <1>4

(* A step keeps the invariant when, in each mode, the slots taken shrink   *)
(* by no more than what is at stake, and do not grow.                      *)
LEMMA SlotFrame ==
    ASSUME TypeOK, SlotInv, UnfilledHasNoRow',
           \A m \in Mode : /\ SlotsTaken(m)' = SlotsTaken(m)
                           /\ TakesSlot(m)' \in SUBSET TakesSlot(m)
    PROVE  SlotInv'
<1>1. \A m \in Mode : Cardinality(TakesSlot(m)') <= Cardinality(TakesSlot(m))
  BY SlotTypes, Counting
<1>2. StakeCovered'
  <2> SUFFICES ASSUME NEW m \in Mode PROVE Cardinality(TakesSlot(m)') <= SlotsTaken(m)'
    BY DEF StakeCovered
  <2>1. TakesSlot(m)' \in SUBSET Request
    BY SlotTypes
  <2>2. Cardinality(TakesSlot(m)') \in Nat /\ Cardinality(TakesSlot(m)) \in Nat /\ SlotsTaken(m) \in Nat
    BY <2>1, SlotTypes, Counting DEF SlotsTaken
  <2> QED BY <1>1, <2>2 DEF SlotInv, StakeCovered
<1>3. TakenWithinLimit'
  BY DEF SlotInv, TakenWithinLimit
<1> QED BY <1>2, <1>3 DEF SlotInv

-----------------------------------------------------------------------------
(* The queue. *)

LEMMA ReserveSlots ==
    ASSUME TypeOK, SlotInv, NEW i \in Request, NEW p \in Pair, NEW m \in RequestModes,
           NEW a \in Amounts, ReserveBudget(i, p, m, a)
    PROVE  SlotInv'
<1> USE DEF TypeOK, BudgetTypeOK
<1>1. /\ reservations[i] = NoReservation /\ position[i] = NoPosition /\ position' = position
      /\ reservations' = [reservations EXCEPT ![i] = [pair |-> p, mode |-> m,
                              capital |-> PositionSize(m, a),
                              used |-> PositionSize(m, a), filled |-> FALSE]]
      /\ openCount' = openCount /\ SlotFree(m) /\ m \in Mode
  BY ParameterTypes DEF ReserveBudget, memory
<1>2. /\ reservations'[i] # NoReservation /\ ~reservations'[i].filled /\ reservations'[i].mode = m
      /\ \A j \in Request \ {i} : reservations'[j] = reservations[j]
  BY <1>1 DEF NoReservation
<1>3. /\ Reserved(m)' = Reserved(m) \cup {i} /\ i \notin Reserved(m)
      /\ TakesSlot(m)' = TakesSlot(m) \cup {i} /\ i \notin TakesSlot(m)
  BY <1>1, <1>2 DEF TakesSlot, AtStake, Reserved
<1>4. ReservedSlots(m)' = ReservedSlots(m) + 1 /\ Cardinality(TakesSlot(m)') = Cardinality(TakesSlot(m)) + 1
  <2>1. TakesSlot(m) \in SUBSET Request /\ Reserved(m) \in SUBSET Request
    BY <1>1, SlotTypes
  <2>2. Cardinality(Reserved(m)') = Cardinality(Reserved(m)) + 1
    BY <2>1, <1>3, Counting
  <2>3. Cardinality(TakesSlot(m)') = Cardinality(TakesSlot(m)) + 1
    BY <2>1, <1>3, Counting
  <2> QED BY <2>2, <2>3 DEF ReservedSlots
<1>5. \A n \in Mode \ {m} : Reserved(n)' = Reserved(n) /\ TakesSlot(n)' = TakesSlot(n)
  BY <1>1, <1>2 DEF TakesSlot, AtStake, Reserved
<1>6. \A n \in Mode \ {m} : SlotsTaken(n)' = SlotsTaken(n)
  BY <1>1, <1>5 DEF SlotsTaken, ReservedSlots
<1>7. SlotsTaken(m)' = SlotsTaken(m) + 1 /\ SlotsTaken(m) \in Nat /\ Cardinality(TakesSlot(m)) \in Nat
  BY <1>1, <1>4, SlotTypes DEF SlotsTaken
<1>8. UnfilledHasNoRow'
  BY <1>1, <1>2 DEF SlotInv, UnfilledHasNoRow
<1>9. StakeCovered'
  BY <1>4, <1>5, <1>6, <1>7 DEF SlotInv, StakeCovered
<1>10. config \in Configs /\ config.maxOpenPairs \in Nat /\ SlotsTaken(m)' <= config.maxOpenPairs
  BY <1>1, <1>7, SlotTypes DEF SlotFree, SlotsTaken
<1>11. TakenWithinLimit'
  BY <1>6, <1>10 DEF SlotInv, TakenWithinLimit
<1> QED BY <1>8, <1>9, <1>11 DEF SlotInv

LEMMA QueueSlots ==
    ASSUME TypeOK, SlotInv, NEW i \in Request, QueueStep(i)
    PROVE  SlotInv'
<1> USE DEF TypeOK, BudgetTypeOK
<1>1. ASSUME NEW cost \in Amounts, NEW used \in UsedAmounts(i), PositionCreated(i, cost, used)
      PROVE  SlotInv'
  <2>1. /\ reservations[i] \in Reservation /\ position[i] = NoPosition /\ openCount' = openCount
        /\ position' = [position EXCEPT ![i] = [pair |-> reservations[i].pair,
                mode |-> reservations[i].mode, entry |-> cost, capital |-> cost,
                closed |-> FALSE, flagged |-> FALSE]]
        /\ reservations' = [reservations EXCEPT ![i].filled = TRUE, ![i].used = used]
    BY <1>1 DEF PositionCreated, SlotInv, UnfilledHasNoRow, memory
  <2>2. /\ reservations'[i].filled /\ reservations'[i] # NoReservation
        /\ reservations'[i].mode = reservations[i].mode
        /\ position'[i] # NoPosition /\ position'[i].mode = reservations[i].mode
        /\ \A j \in Request \ {i} : reservations'[j] = reservations[j] /\ position'[j] = position[j]
    BY <2>1 DEF Reservation, NoPosition, NoReservation
  <2>3. \A n \in Mode : Reserved(n)' = Reserved(n)
    <3>1. reservations[i] # NoReservation
      BY <1>1 DEF PositionCreated
    <3>2. \A j \in Request : /\ reservations'[j] = NoReservation <=> reservations[j] = NoReservation
                             /\ reservations[j] # NoReservation =>
                                   reservations'[j].mode = reservations[j].mode
      BY <2>2, <3>1
    <3> QED BY <3>2 DEF Reserved
  <2>4. \A n \in Mode : TakesSlot(n)' = TakesSlot(n)
    BY <1>1, <2>1, <2>2 DEF PositionCreated, TakesSlot, AtStake, Reserved
  <2>5. UnfilledHasNoRow'
    BY <2>2 DEF SlotInv, UnfilledHasNoRow
  <2> QED BY <2>1, <2>3, <2>4, <2>5, SlotFrame DEF SlotsTaken, ReservedSlots
<1>2. ASSUME NEW m \in Mode, AdjustReservation(i, m)
      PROVE  SlotInv'
  <2>1. /\ reservations[i] \in Reservation /\ reservations[i].filled /\ openCount' = openCount
        /\ reservations' = [reservations EXCEPT ![i].capital = reservations[i].used] /\ position' = position
    BY <1>2 DEF AdjustReservation, Reserved, memory
  <2>2. /\ reservations'[i].filled /\ reservations'[i] # NoReservation
        /\ reservations'[i].mode = reservations[i].mode
        /\ \A j \in Request \ {i} : reservations'[j] = reservations[j]
    BY <2>1 DEF Reservation, NoReservation
  <2>3. \A n \in Mode : Reserved(n)' = Reserved(n) /\ TakesSlot(n)' = TakesSlot(n)
    BY <1>2, <2>1, <2>2 DEF AdjustReservation, TakesSlot, AtStake, Reserved
  <2>4. UnfilledHasNoRow'
    BY <2>1, <2>2 DEF SlotInv, UnfilledHasNoRow
  <2> QED BY <2>1, <2>3, <2>4, SlotFrame DEF SlotsTaken, ReservedSlots
<1>3. ASSUME NEW m \in Mode, CommitReservation(i, m)
      PROVE  SlotInv'
  <2>1. /\ i \in Reserved(m) /\ reservations[i].filled /\ position' = position
        /\ reservations' = [reservations EXCEPT ![i] = NoReservation]
        /\ openCount' = [openCount EXCEPT ![m] = @ + 1]
    BY <1>3 DEF CommitReservation
  <2>2. /\ Reserved(m)' = Reserved(m) \ {i}
        /\ \A n \in Mode \ {m} : Reserved(n)' = Reserved(n)
        /\ \A n \in Mode : TakesSlot(n)' = TakesSlot(n)
    BY <2>1 DEF TakesSlot, AtStake, Reserved
  <2>3. ReservedSlots(m)' = ReservedSlots(m) - 1 /\ openCount'[m] = openCount[m] + 1
    BY <2>1, <2>2, Counting, SlotTypes DEF ReservedSlots, MemoryTypeOK
  <2>4. \A n \in Mode \ {m} : openCount'[n] = openCount[n]
    BY <2>1 DEF MemoryTypeOK
  <2>5. \A n \in Mode : SlotsTaken(n)' = SlotsTaken(n)
    <3>1. SlotsTaken(m)' = SlotsTaken(m)
      BY <2>3, SlotTypes DEF SlotsTaken
    <3>2. \A n \in Mode \ {m} : SlotsTaken(n)' = SlotsTaken(n)
      BY <2>2, <2>4 DEF SlotsTaken, ReservedSlots
    <3> QED BY <3>1, <3>2
  <2>6. UnfilledHasNoRow'
    BY <2>1 DEF SlotInv, UnfilledHasNoRow
  <2> QED BY <2>2, <2>5, <2>6, SlotFrame
<1>4. ASSUME NEW m \in Mode, ReleaseReservation(i, m)
      PROVE  SlotInv'
  <2>1. /\ i \in Reserved(m) /\ ~reservations[i].filled /\ position' = position
        /\ position[i] = NoPosition /\ openCount' = openCount
        /\ reservations' = [reservations EXCEPT ![i] = NoReservation]
    BY <1>4 DEF ReleaseReservation, SlotInv, UnfilledHasNoRow, Reserved, memory
  <2>2. /\ Reserved(m)' = Reserved(m) \ {i} /\ TakesSlot(m)' = TakesSlot(m) \ {i} /\ i \in TakesSlot(m)
        /\ \A n \in Mode \ {m} : Reserved(n)' = Reserved(n) /\ TakesSlot(n)' = TakesSlot(n)
    BY <2>1 DEF TakesSlot, AtStake, Reserved
  <2>3. /\ ReservedSlots(m)' = ReservedSlots(m) - 1
        /\ Cardinality(TakesSlot(m)') = Cardinality(TakesSlot(m)) - 1
    BY <2>1, <2>2, Counting, SlotTypes DEF ReservedSlots
  <2>4. /\ SlotsTaken(m)' = SlotsTaken(m) - 1
        /\ \A n \in Mode \ {m} : SlotsTaken(n)' = SlotsTaken(n)
    BY <2>1, <2>2, <2>3, SlotTypes DEF SlotsTaken, ReservedSlots
  <2>5. SlotsTaken(m) \in Nat /\ Cardinality(TakesSlot(m)) \in Nat
    BY SlotTypes DEF SlotsTaken
  <2>6. StakeCovered'
    <3>1. Cardinality(TakesSlot(m)') <= SlotsTaken(m)'
      BY <2>3, <2>4, <2>5 DEF SlotInv, StakeCovered
    <3>2. \A n \in Mode \ {m} : Cardinality(TakesSlot(n)') <= SlotsTaken(n)'
      BY <2>2, <2>4 DEF SlotInv, StakeCovered
    <3> QED BY <3>1, <3>2 DEF StakeCovered
  <2>7. TakenWithinLimit'
    BY <2>4, <2>5, SlotTypes DEF SlotInv, TakenWithinLimit
  <2>8. UnfilledHasNoRow'
    BY <2>1 DEF SlotInv, UnfilledHasNoRow
  <2> QED BY <2>6, <2>7, <2>8 DEF SlotInv
<1> QED
  BY <1>1, <1>2, <1>3, <1>4, ReserveSlots DEF QueueStep

-----------------------------------------------------------------------------
(* Closes.  A close may overtake the commit of the position it closes: the *)
(* counter is then clamped at zero, and the commit counts a position that  *)
(* no longer exists.  That wastes a slot until the next recalculation and  *)
(* never frees one too many.                                               *)

LEMMA CloseSlots ==
    ASSUME TypeOK, SlotInv, OperatorCloses = FALSE, RuntimeRecalculation = FALSE,
           NEW i \in Request, NEW t \in Ticket,
           NEW m \in ModesPassed(i), NEW pnl \in Pnls, NEW error \in Misjudged, position[i] # NoPosition,
           ClosePosition(i, m, pnl, error, t)
    PROVE  SlotInv'
<1> USE DEF TypeOK, BudgetTypeOK
<1>1. /\ position' = [position EXCEPT ![i] = NoPosition] /\ reservations' = reservations
      /\ openCount' = [openCount EXCEPT ![m] = Floor(@ - 1)] /\ m = position[i].mode
      /\ m \in Mode /\ ~position[i].flagged
  BY DEF ClosePosition, ModesPassed, Position
<1>2. /\ TakesSlot(m)' = TakesSlot(m) \ {i} /\ i \in TakesSlot(m)
      /\ \A n \in Mode \ {m} : TakesSlot(n)' = TakesSlot(n)
      /\ \A n \in Mode : Reserved(n)' = Reserved(n)
  BY <1>1 DEF TakesSlot, AtStake, Reserved, SlotInv, UnfilledHasNoRow
<1>3. Cardinality(TakesSlot(m)') = Cardinality(TakesSlot(m)) - 1
  BY <1>1, <1>2, Counting, SlotTypes
<1>4. openCount'[m] = Floor(openCount[m] - 1) /\ \A n \in Mode \ {m} : openCount'[n] = openCount[n]
  BY <1>1 DEF MemoryTypeOK
<1>5. /\ SlotsTaken(m)' = Floor(openCount[m] - 1) + ReservedSlots(m)
      /\ \A n \in Mode \ {m} : SlotsTaken(n)' = SlotsTaken(n)
  BY <1>1, <1>2, <1>4 DEF SlotsTaken, ReservedSlots
<1>6. /\ SlotsTaken(m) - 1 <= SlotsTaken(m)' /\ SlotsTaken(m)' <= SlotsTaken(m)
      /\ SlotsTaken(m) \in Nat /\ SlotsTaken(m)' \in Nat /\ Cardinality(TakesSlot(m)) \in Nat
  BY <1>1, <1>5, SlotTypes DEF SlotsTaken, Floor
<1>7. StakeCovered'
  <2>1. Cardinality(TakesSlot(m)') <= SlotsTaken(m)'
    BY <1>1, <1>3, <1>6 DEF SlotInv, StakeCovered
  <2>2. \A n \in Mode \ {m} : Cardinality(TakesSlot(n)') <= SlotsTaken(n)'
    BY <1>2, <1>5 DEF SlotInv, StakeCovered
  <2> QED BY <2>1, <2>2 DEF StakeCovered
<1>8. TakenWithinLimit'
  <2>1. \A n \in Mode : SlotsTaken(n)' <= SlotsTaken(n)
    BY <1>5, <1>6, SlotTypes DEF SlotsTaken
  <2>2. \A n \in Mode : SlotsTaken(n) \in Nat /\ SlotsTaken(n)' \in Nat
    BY <1>5, <1>6, SlotTypes DEF SlotsTaken
  <2> QED BY <2>1, <2>2, SlotTypes DEF SlotInv, TakenWithinLimit
<1>9. UnfilledHasNoRow'
  BY <1>1 DEF SlotInv, UnfilledHasNoRow
<1> QED BY <1>7, <1>8, <1>9 DEF SlotInv

LEMMA ClosingSlots ==
    ASSUME TypeOK, SlotInv, OperatorCloses = FALSE, RuntimeRecalculation = FALSE,
           NEW i \in Request, NEW t \in Ticket,
           ClosingStep(i, t)
    PROVE  SlotInv'
<1> USE DEF TypeOK, BudgetTypeOK
<1>1. ASSUME position[i] # NoPosition, reservations' = reservations, openCount' = openCount,
             position'[i] # NoPosition, position'[i].mode = position[i].mode,
             position'[i].flagged = position[i].flagged,
             \A j \in Request \ {i} : position'[j] = position[j]
      PROVE  SlotInv'
  <2>1. \A n \in Mode : Reserved(n)' = Reserved(n) /\ TakesSlot(n)' = TakesSlot(n)
    BY <1>1 DEF TakesSlot, AtStake, Reserved
  <2>2. UnfilledHasNoRow'
    BY <1>1 DEF SlotInv, UnfilledHasNoRow
  <2> QED BY <1>1, <2>1, <2>2, SlotFrame DEF SlotsTaken, ReservedSlots
<1>2. CASE PositionRowClosed(i)
  <2>1. position[i] \in Position
    BY <1>2 DEF PositionRowClosed
  <2> QED BY <1>1, <1>2, <2>1 DEF PositionRowClosed, memory, budget, Position, NoPosition
<1>3. ASSUME NEW m \in ModesPassed(i), NEW pnl \in Pnls, NEW error \in Misjudged, NEW exited \in Amounts,
             ReleasePartialCapital(i, m, exited, pnl, error, t)
      PROVE  SlotInv'
  <2>1. position[i] \in Position
    BY <1>3 DEF ReleasePartialCapital
  <2> QED BY <1>1, <1>3, <2>1 DEF ReleasePartialCapital, budget, Position, NoPosition
<1> QED
  BY <1>2, <1>3, CloseSlots DEF ClosingStep

-----------------------------------------------------------------------------
(* Restarts count the active rows afresh. *)

LEMMA RestartSlots ==
    ASSUME TypeOK, SlotInv, NEW outcome, outcome # "failed", NEW flags, NEW saved,
           Restart(outcome, flags, saved)
    PROVE  SlotInv'
<1> DEFINE Kept(m) == CountedRows(m) \ flags
<1>1. /\ reservations' = [i \in Request |-> NoReservation]
      /\ openCount' = [m \in Mode |-> Cardinality(Kept(m))]
  BY DEF Restart, Load
<1>2. \A m \in Mode : Reserved(m)' = {} /\ TakesSlot(m)' = Kept(m) /\ Kept(m) \subseteq TakesSlot(m)
  BY <1>1, RestartKeepsActive DEF TakesSlot, AtStake, Reserved, CountedRows, ActiveRows
<1> HIDE DEF Kept
<1>3. \A m \in Mode : ReservedSlots(m)' = 0
  BY <1>2, FS_EmptySet DEF ReservedSlots
<1>4. \A m \in Mode : /\ Cardinality(Kept(m)) <= Cardinality(TakesSlot(m))
                       /\ Cardinality(Kept(m)) \in Nat
  <2> SUFFICES ASSUME NEW m \in Mode
               PROVE  /\ Cardinality(Kept(m)) <= Cardinality(TakesSlot(m))
                      /\ Cardinality(Kept(m)) \in Nat
    OBVIOUS
  <2>1. TakesSlot(m) \in SUBSET Request /\ Kept(m) \in SUBSET Request
    BY <1>2, SlotTypes
  <2> QED BY <1>2, <2>1, Counting
<1>5. \A m \in Mode : SlotsTaken(m)' = Cardinality(Kept(m))
  BY <1>1, <1>3, <1>4 DEF SlotsTaken
<1>6. StakeCovered'
  BY <1>2, <1>4, <1>5 DEF StakeCovered
<1>7. TakenWithinLimit'
  <2>1. \A m \in Mode : /\ SlotsTaken(m)' <= SlotsTaken(m)
                         /\ SlotsTaken(m)' \in Nat /\ SlotsTaken(m) \in Nat
    BY <1>4, <1>5, SlotTypes DEF SlotInv, StakeCovered, SlotsTaken
  <2> QED BY <2>1, SlotTypes DEF SlotInv, TakenWithinLimit
<1>8. UnfilledHasNoRow'
  BY <1>1 DEF UnfilledHasNoRow
<1> QED BY <1>6, <1>7, <1>8 DEF SlotInv

-----------------------------------------------------------------------------

LEMMA SlotStep ==
    ASSUME OperatorCloses = FALSE, RuntimeRecalculation = FALSE, "failed" \notin Outcomes
    PROVE  TypeOK /\ SlotInv /\ [Next]_vars => SlotInv'
<1> SUFFICES ASSUME TypeOK, SlotInv, [Next]_vars PROVE SlotInv'
  OBVIOUS
<1>1. ASSUME UNCHANGED <<reservations, position, openCount>>
      PROVE  SlotInv'
  <2>1. \A m \in Mode : Reserved(m)' = Reserved(m) /\ TakesSlot(m)' = TakesSlot(m)
    BY <1>1 DEF Reserved, TakesSlot, AtStake
  <2>2. UnfilledHasNoRow'
    BY <1>1 DEF SlotInv, UnfilledHasNoRow
  <2> QED BY <1>1, <2>1, <2>2, SlotFrame DEF SlotsTaken, ReservedSlots
<1>2. CASE UNCHANGED vars
  BY <1>1, <1>2 DEF vars, budget, memory
<1>3. ASSUME NEW t \in Ticket, HaltStep(t)
      PROVE  SlotInv'
  BY <1>1, <1>3 DEF HaltStep, HaltTrading, ResumeTrading, HandleMidnightReset, budget
<1>4. ASSUME NEW m \in Mode, NEW t \in Ticket, RecalculateFromPositions(m, t)
      PROVE  SlotInv'
  BY <1>4 DEF RecalculateFromPositions
<1>5. ASSUME NEW c \in Caller, UpsertLands(c) \/ UpsertFails(c)
      PROVE  SlotInv'
  BY <1>1, <1>5 DEF UpsertLands, UpsertFails, budget, memory
<1>6. CASE DayPasses \/ \E c \in Configs : ReloadConfig(c)
  BY <1>1, <1>6 DEF DayPasses, ReloadConfig, budget, memory
<1>7. ASSUME NEW i \in Request, AcknowledgeDiscrepancy(i)
      PROVE  SlotInv'
  BY <1>7 DEF AcknowledgeDiscrepancy
<1> QED
  BY <1>2, <1>3, <1>4, <1>5, <1>6, <1>7, QueueSlots, ClosingSlots, RestartSlots DEF Next

LEMMA SlotInit == Init => SlotInv
<1> SUFFICES ASSUME Init PROVE SlotInv
  OBVIOUS
<1>1. \A m \in Mode : TakesSlot(m) = {} /\ Reserved(m) = {} /\ openCount[m] = 0
  BY DEF Init, TakesSlot, AtStake, Reserved
<1>2. \A m \in Mode : Cardinality(TakesSlot(m)) = 0 /\ SlotsTaken(m) = 0
  BY <1>1, FS_EmptySet DEF SlotsTaken, ReservedSlots
<1>3. config \in Configs /\ config.maxOpenPairs \in Nat
  BY ParameterTypes DEF Init, Config
<1> QED
  BY <1>2, <1>3 DEF Init, SlotInv, UnfilledHasNoRow, StakeCovered, TakenWithinLimit

(* With closes that pass the mode of the position, no recalculation while  *)
(* trading and startups that complete, the positions and live reservations *)
(* of a mode never outnumber the largest max_open_pairs there has been.    *)
THEOREM SlotsAlwaysWithinLimit ==
    ASSUME OperatorCloses = FALSE, RuntimeRecalculation = FALSE, "failed" \notin Outcomes
    PROVE  Spec => []SlotsWithinLimit
<1>1. TypeOK /\ SlotInv => SlotsWithinLimit
  <2> SUFFICES ASSUME TypeOK, SlotInv, NEW m \in Mode
               PROVE  \E c \in Configs : Cardinality(TakesSlot(m)) <= c.maxOpenPairs
    BY DEF SlotsWithinLimit
  <2>1. PICK c \in Configs : SlotsTaken(m) <= c.maxOpenPairs
    BY DEF SlotInv, TakenWithinLimit
  <2>2. Cardinality(TakesSlot(m)) <= SlotsTaken(m) /\ SlotsTaken(m) \in Nat
    BY SlotTypes DEF SlotInv, StakeCovered, SlotsTaken
  <2> QED BY <2>1, <2>2, SlotTypes
<1> QED
  BY <1>1, TypeInvariant, SlotInit, SlotStep, PTL DEF Spec

-----------------------------------------------------------------------------
(* Capital.  Every request contributes what it has at stake, and claims    *)
(* what its reservation will turn into once it is adjusted and committed.  *)
(* The capital at stake is backed by the deployed counter, the claims and  *)
(* the gains returned so far: losses, clamping at zero, closes that        *)
(* overtake their commit and entry sizes restored at a boot all leave the  *)
(* counters too high, never too low.                                       *)

Stake(m) == [i \in Request |->
    IF i \notin AtStake(m) THEN 0
    ELSE IF position[i] # NoPosition THEN position[i].capital ELSE reservations[i].capital]
Claim(m) == [i \in Request |->
    IF i \notin Reserved(m) THEN 0
    ELSE IF reservations[i].filled THEN reservations[i].used ELSE reservations[i].capital]

CapitalBacked == \A m \in Mode :
    SumFunction(Stake(m)) <= deployed[m] + SumFunction(Claim(m)) + profits[m]
StakeWithinBankroll == \A m \in Mode : \E c \in Configs :
    SumFunction(Stake(m)) <= c.bankroll[m] + profits[m]
ClaimsReserved == \A i \in Request :
    reservations[i] # NoReservation => reservations[i].used <= reservations[i].capital
EntryCoversCapital == \A i \in Request :
    position[i] # NoPosition => position[i].capital <= position[i].entry

CapitalInv == UnfilledHasNoRow /\ ClaimsReserved /\ EntryCoversCapital
              /\ CapitalBacked /\ StakeWithinBankroll

LEMMA CapitalTypes ==
    ASSUME TypeOK, NEW m \in Mode
    PROVE  /\ Stake(m) \in [Request -> Int] /\ Claim(m) \in [Request -> Int]
           /\ \A i \in Request : 0 <= Stake(m)[i] /\ 0 <= Claim(m)[i]
           /\ SumFunction(Stake(m)) \in Int /\ SumFunction(Claim(m)) \in Int
           /\ deployed[m] \in Nat /\ profits[m] \in Nat
           /\ \A c \in Configs : c.bankroll[m] \in Nat
<1>1. \A i \in Request : Stake(m)[i] \in Nat
  BY DEF TypeOK, BudgetTypeOK, Stake, AtStake, Reserved, Position, Reservation
<1>2. \A i \in Request : Claim(m)[i] \in Nat
  BY DEF TypeOK, BudgetTypeOK, Claim, Reserved, Reservation
<1>3. Stake(m) \in [Request -> Int] /\ Claim(m) \in [Request -> Int]
  <2>1. Stake(m) = [i \in Request |-> Stake(m)[i]] /\ Claim(m) = [i \in Request |-> Claim(m)[i]]
    BY DEF Stake, Claim
  <2> QED BY <1>1, <1>2, <2>1
<1>4. SumFunction(Stake(m)) \in Int /\ SumFunction(Claim(m)) \in Int
  BY <1>3, FiniteRequests, SumInteger
<1>5. deployed[m] \in Nat /\ profits[m] \in Nat
  BY DEF TypeOK, MemoryTypeOK
<1>6. \A c \in Configs : c.bankroll[m] \in Nat
  BY ParameterTypes DEF Config
<1> QED BY <1>1, <1>2, <1>3, <1>4, <1>5, <1>6

LEMMA NextCapitalTypes ==
    ASSUME TypeOK', NEW m \in Mode
    PROVE  /\ Stake(m)' \in [Request -> Int] /\ Claim(m)' \in [Request -> Int]
           /\ \A i \in Request : 0 <= Stake(m)'[i] /\ 0 <= Claim(m)'[i]
           /\ SumFunction(Stake(m)') \in Int /\ SumFunction(Claim(m)') \in Int
           /\ deployed'[m] \in Nat /\ profits'[m] \in Nat
           /\ \A c \in Configs : c.bankroll[m] \in Nat
<1>1. \A i \in Request : Stake(m)'[i] \in Nat
  BY DEF TypeOK, BudgetTypeOK, Stake, AtStake, Reserved, Position, Reservation
<1>2. \A i \in Request : Claim(m)'[i] \in Nat
  BY DEF TypeOK, BudgetTypeOK, Claim, Reserved, Reservation
<1>3. Stake(m)' \in [Request -> Int] /\ Claim(m)' \in [Request -> Int]
  <2>1. Stake(m)' = [i \in Request |-> Stake(m)'[i]] /\ Claim(m)' = [i \in Request |-> Claim(m)'[i]]
    BY DEF Stake, Claim
  <2> QED BY <1>1, <1>2, <2>1
<1>4. SumFunction(Stake(m)') \in Int /\ SumFunction(Claim(m)') \in Int
  BY <1>3, FiniteRequests, SumInteger
<1>5. deployed'[m] \in Nat /\ profits'[m] \in Nat
  BY DEF TypeOK, MemoryTypeOK
<1>6. \A c \in Configs : c.bankroll[m] \in Nat
  BY ParameterTypes DEF Config
<1> QED BY <1>1, <1>2, <1>3, <1>4, <1>5, <1>6

(* The property speaks of those at stake alone.                            *)
LEMMA StakeAddsUp ==
    ASSUME TypeOK, NEW m \in Mode
    PROVE  CapitalAtStake(m) = SumFunction(Stake(m))
<1>1. AtStake(m) \in SUBSET Request /\ \A i \in Request \ AtStake(m) : Stake(m)[i] = 0
  BY DEF AtStake, Stake
<1>2. [i \in AtStake(m) |-> Stake(m)[i]] =
      [i \in AtStake(m) |-> IF position[i] # NoPosition THEN position[i].capital
                                                        ELSE reservations[i].capital]
  BY <1>1 DEF Stake
<1>3. SumFunction([i \in AtStake(m) |-> Stake(m)[i]]) = SumFunction(Stake(m))
  BY <1>1, CapitalTypes, FiniteRequests, SumSupport
<1> QED BY <1>2, <1>3 DEF CapitalAtStake

(* What reserveBudget has in its sum covers the claims.                    *)
LEMMA ClaimsWithinReserved ==
    ASSUME TypeOK, ClaimsReserved, NEW m \in Mode
    PROVE  SumFunction(Claim(m)) <= ReservedCapital(m) /\ ReservedCapital(m) \in Int
<1> DEFINE part == [i \in Reserved(m) |-> Claim(m)[i]]
           whole == [i \in Reserved(m) |-> reservations[i].capital]
<1>1. Reserved(m) \in SUBSET Request /\ \A i \in Request \ Reserved(m) : Claim(m)[i] = 0
  BY DEF Reserved, Claim
<1>2. IsFiniteSet(Reserved(m))
  BY <1>1, FiniteRequests, FS_Subset
<1>3. SumFunction(part) = SumFunction(Claim(m))
  BY <1>1, CapitalTypes, FiniteRequests, SumSupport
<1>4. part \in [Reserved(m) -> Int] /\ whole \in [Reserved(m) -> Int]
  BY <1>1, CapitalTypes DEF Reserved, TypeOK, BudgetTypeOK, Reservation
<1>5. \A i \in Reserved(m) : part[i] <= whole[i]
  BY <1>1 DEF ClaimsReserved, Claim, Reserved, TypeOK, BudgetTypeOK, Reservation
<1>6. ReservedCapital(m) = SumFunction(whole)
  BY DEF ReservedCapital
<1> HIDE DEF part, whole
<1>7. SumFunction(part) <= SumFunction(whole)
  BY <1>2, <1>4, <1>5, SumMonotone
<1>8. SumFunction(whole) \in Int
  BY <1>2, <1>4, SumInteger
<1> QED BY <1>3, <1>6, <1>7, <1>8

(* A step that changes the stake and the claim of one request in one mode  *)
(* keeps the capital backed when the counters make up for what the claim   *)
(* no longer covers.                                                       *)
LEMMA CapitalFrame ==
    ASSUME TypeOK, TypeOK', CapitalInv, NEW i \in Request,
           \A n \in Mode : \A j \in Request \ {i} :
               Stake(n)'[j] = Stake(n)[j] /\ Claim(n)'[j] = Claim(n)[j],
           \A n \in Mode :
               /\ Stake(n)'[i] - Stake(n)[i] <=
                    (deployed'[n] - deployed[n]) + (Claim(n)'[i] - Claim(n)[i]) + (profits'[n] - profits[n])
               /\ profits[n] <= profits'[n]
    PROVE  /\ CapitalBacked'
           /\ (\A n \in Mode : Stake(n)'[i] <= Stake(n)[i]) => StakeWithinBankroll'
<1>1. ASSUME NEW n \in Mode
      PROVE  /\ SumFunction(Stake(n)') = SumFunction(Stake(n)) + Stake(n)'[i] - Stake(n)[i]
             /\ SumFunction(Claim(n)') = SumFunction(Claim(n)) + Claim(n)'[i] - Claim(n)[i]
  <2>1. /\ Stake(n) \in [Request -> Int] /\ Stake(n)' \in [Request -> Int]
        /\ Claim(n) \in [Request -> Int] /\ Claim(n)' \in [Request -> Int]
    BY CapitalTypes, NextCapitalTypes
  <2>2. SumFunction(Stake(n)') = SumFunction(Stake(n)) + Stake(n)'[i] - Stake(n)[i]
    BY <2>1, FiniteRequests, SumUpdate
  <2>3. SumFunction(Claim(n)') = SumFunction(Claim(n)) + Claim(n)'[i] - Claim(n)[i]
    BY <2>1, FiniteRequests, SumUpdate
  <2> QED BY <2>2, <2>3
<1>2. ASSUME NEW n \in Mode
      PROVE  /\ SumFunction(Stake(n)) \in Int /\ SumFunction(Claim(n)) \in Int
             /\ Stake(n)[i] \in Int /\ Stake(n)'[i] \in Int
             /\ Claim(n)[i] \in Int /\ Claim(n)'[i] \in Int
             /\ deployed[n] \in Nat /\ deployed'[n] \in Nat
             /\ profits[n] \in Nat /\ profits'[n] \in Nat
             /\ \A c \in Configs : c.bankroll[n] \in Nat
  BY CapitalTypes, NextCapitalTypes
<1>3. CapitalBacked'
  <2> SUFFICES ASSUME NEW n \in Mode
               PROVE  SumFunction(Stake(n)') <= deployed'[n] + SumFunction(Claim(n)') + profits'[n]
    BY DEF CapitalBacked
  <2>1. SumFunction(Stake(n)) <= deployed[n] + SumFunction(Claim(n)) + profits[n]
    BY DEF CapitalInv, CapitalBacked
  <2> QED BY <1>1, <1>2, <2>1
<1>4. ASSUME \A n \in Mode : Stake(n)'[i] <= Stake(n)[i] PROVE StakeWithinBankroll'
  <2> SUFFICES ASSUME NEW n \in Mode
               PROVE  \E c \in Configs : SumFunction(Stake(n)') <= c.bankroll[n] + profits'[n]
    BY DEF StakeWithinBankroll
  <2>1. PICK c \in Configs : SumFunction(Stake(n)) <= c.bankroll[n] + profits[n]
    BY DEF CapitalInv, StakeWithinBankroll
  <2>2. SumFunction(Stake(n)') <= c.bankroll[n] + profits'[n]
    BY <1>1, <1>2, <1>4, <2>1
  <2> QED BY <2>2
<1> QED BY <1>3, <1>4

(* One request's stake and claim depend on its own row and reservation.    *)
LEMMA OthersUntouched ==
    ASSUME NEW i \in Request,
           \A j \in Request \ {i} : reservations'[j] = reservations[j] /\ position'[j] = position[j]
    PROVE  \A n \in Mode : \A j \in Request \ {i} :
               Stake(n)'[j] = Stake(n)[j] /\ Claim(n)'[j] = Claim(n)[j]
BY DEF Stake, Claim, AtStake, Reserved

LEMMA OwnStake ==
    ASSUME NEW i \in Request, NEW n \in Mode, UnfilledHasNoRow
    PROVE  /\ Stake(n)[i] = IF position[i] # NoPosition
                            THEN IF position[i].mode = n THEN position[i].capital ELSE 0
                            ELSE IF reservations[i] # NoReservation /\ ~reservations[i].filled
                                    /\ reservations[i].mode = n
                                 THEN reservations[i].capital ELSE 0
           /\ Claim(n)[i] = IF reservations[i] # NoReservation /\ reservations[i].mode = n
                            THEN IF reservations[i].filled THEN reservations[i].used
                                                           ELSE reservations[i].capital
                            ELSE 0
BY DEF Stake, Claim, AtStake, Reserved, UnfilledHasNoRow

LEMMA NextOwnStake ==
    ASSUME NEW i \in Request, NEW n \in Mode, UnfilledHasNoRow'
    PROVE  /\ Stake(n)'[i] = IF position'[i] # NoPosition
                            THEN IF position'[i].mode = n THEN position'[i].capital ELSE 0
                            ELSE IF reservations'[i] # NoReservation /\ ~reservations'[i].filled
                                    /\ reservations'[i].mode = n
                                 THEN reservations'[i].capital ELSE 0
           /\ Claim(n)'[i] = IF reservations'[i] # NoReservation /\ reservations'[i].mode = n
                            THEN IF reservations'[i].filled THEN reservations'[i].used
                                                            ELSE reservations'[i].capital
                            ELSE 0
BY DEF Stake, Claim, AtStake, Reserved, UnfilledHasNoRow

(* The test of reserveBudget: what it adds to the stake fits what is left. *)
LEMMA ReserveCapital ==
    ASSUME TypeOK, TypeOK', CapitalInv, NEW i \in Request, NEW p \in Pair, NEW m \in RequestModes,
           NEW a \in Amounts, ReserveBudget(i, p, m, a)
    PROVE  CapitalInv'
<1> DEFINE amount == PositionSize(m, a)
<1>1. m \in Mode /\ config \in Configs /\ config.bankroll[m] \in Nat /\ amount \in Nat
  BY ParameterTypes DEF TypeOK, Config, PositionSize
<1>2. /\ reservations[i] = NoReservation /\ position[i] = NoPosition
      /\ reservations' = [reservations EXCEPT ![i] =
            [pair |-> p, mode |-> m, capital |-> amount, used |-> amount, filled |-> FALSE]]
      /\ position' = position /\ deployed' = deployed /\ profits' = profits
      /\ config.bankroll[m] - deployed[m] - ReservedCapital(m) >= amount
  BY DEF ReserveBudget, memory, CapitalFree
<1> HIDE DEF amount
<1>3. /\ reservations'[i].capital = amount /\ reservations'[i].mode = m /\ ~reservations'[i].filled
      /\ reservations'[i].used = amount /\ reservations'[i] # NoReservation
      /\ \A j \in Request \ {i} : reservations'[j] = reservations[j]
  BY <1>2 DEF TypeOK, BudgetTypeOK, NoReservation
<1>4. UnfilledHasNoRow' /\ ClaimsReserved' /\ EntryCoversCapital'
  BY <1>1, <1>2, <1>3 DEF CapitalInv, UnfilledHasNoRow, ClaimsReserved, EntryCoversCapital
<1>5. \A n \in Mode : /\ Stake(n)[i] = 0 /\ Stake(n)'[i] = IF n = m THEN amount ELSE 0
                      /\ Claim(n)[i] = 0 /\ Claim(n)'[i] = IF n = m THEN amount ELSE 0
  BY <1>2, <1>3, <1>4, OwnStake, NextOwnStake DEF CapitalInv
<1>6. \A n \in Mode : \A j \in Request \ {i} : Stake(n)'[j] = Stake(n)[j] /\ Claim(n)'[j] = Claim(n)[j]
  BY <1>2, <1>3, OthersUntouched
<1>7. CapitalBacked'
  <2>1. \A n \in Mode : deployed[n] \in Nat /\ profits[n] \in Nat
    BY CapitalTypes
  <2> QED BY <1>1, <1>2, <1>5, <1>6, <2>1, CapitalFrame
<1>8. ASSUME NEW n \in Mode
      PROVE  SumFunction(Stake(n)') = SumFunction(Stake(n)) + (IF n = m THEN amount ELSE 0)
  <2>1. Stake(n) \in [Request -> Int] /\ Stake(n)' \in [Request -> Int] /\ SumFunction(Stake(n)) \in Int
    BY CapitalTypes, NextCapitalTypes
  <2>2. SumFunction(Stake(n)') = SumFunction(Stake(n)) + Stake(n)'[i] - Stake(n)[i]
    BY <1>6, <2>1, FiniteRequests, SumUpdate
  <2> QED BY <1>1, <1>5, <2>1, <2>2
<1>9. StakeWithinBankroll'
  <2>1. SumFunction(Stake(m)) + amount <= config.bankroll[m] + profits[m]
    <3>1. SumFunction(Stake(m)) <= deployed[m] + SumFunction(Claim(m)) + profits[m]
      BY <1>1 DEF CapitalInv, CapitalBacked
    <3>2. SumFunction(Claim(m)) <= ReservedCapital(m) /\ ReservedCapital(m) \in Int
      BY <1>1, ClaimsWithinReserved DEF CapitalInv
    <3>3. /\ SumFunction(Stake(m)) \in Int /\ SumFunction(Claim(m)) \in Int
          /\ deployed[m] \in Nat /\ profits[m] \in Nat
      BY <1>1, CapitalTypes
    <3> QED BY <1>1, <1>2, <3>1, <3>2, <3>3
  <2>2. ASSUME NEW n \in Mode, n # m
        PROVE  \E c \in Configs : SumFunction(Stake(n)') <= c.bankroll[n] + profits'[n]
    <3>1. PICK c \in Configs : SumFunction(Stake(n)) <= c.bankroll[n] + profits[n]
      BY DEF CapitalInv, StakeWithinBankroll
    <3>2. SumFunction(Stake(n)') = SumFunction(Stake(n))
      BY <1>8, <2>2, CapitalTypes
    <3> QED BY <1>2, <3>1, <3>2
  <2>3. SumFunction(Stake(m)') <= config.bankroll[m] + profits'[m]
    BY <1>1, <1>2, <1>8, <2>1
  <2> QED BY <1>1, <2>2, <2>3 DEF StakeWithinBankroll
<1> QED BY <1>4, <1>7, <1>9 DEF CapitalInv

LEMMA QueueCapital ==
    ASSUME TypeOK, TypeOK', CapitalInv, NEW i \in Request, QueueStep(i)
    PROVE  CapitalInv'
<1>1. ASSUME /\ UnfilledHasNoRow' /\ ClaimsReserved' /\ EntryCoversCapital'
             /\ \A j \in Request \ {i} : reservations'[j] = reservations[j] /\ position'[j] = position[j]
             /\ \A n \in Mode :
                  /\ Stake(n)'[i] <= Stake(n)[i]
                  /\ Stake(n)'[i] - Stake(n)[i] <=
                       (deployed'[n] - deployed[n]) + (Claim(n)'[i] - Claim(n)[i]) + (profits'[n] - profits[n])
                  /\ profits'[n] = profits[n]
      PROVE  CapitalInv'
  <2>1. \A n \in Mode : profits[n] <= profits'[n]
    BY <1>1, CapitalTypes
  <2>2. CapitalBacked' /\ StakeWithinBankroll'
    BY <1>1, <2>1, OthersUntouched, CapitalFrame
  <2> QED BY <1>1, <2>2 DEF CapitalInv
<1>2. \A n \in Mode : deployed[n] \in Nat /\ profits[n] \in Nat
  BY CapitalTypes
<1>3. UnfilledHasNoRow /\ ClaimsReserved /\ EntryCoversCapital
  BY DEF CapitalInv
<1>4. ASSUME NEW cost \in Amounts, NEW used \in UsedAmounts(i), PositionCreated(i, cost, used)
      PROVE  CapitalInv'
  <2>1. /\ reservations[i] # NoReservation /\ ~reservations[i].filled /\ reservations[i] \in Reservation
        /\ cost <= used /\ used <= reservations[i].capital
        /\ position' = [position EXCEPT ![i] = [pair |-> reservations[i].pair,
              mode |-> reservations[i].mode, entry |-> cost, capital |-> cost,
              closed |-> FALSE, flagged |-> FALSE]]
        /\ reservations' = [reservations EXCEPT ![i].filled = TRUE, ![i].used = used]
        /\ deployed' = deployed /\ profits' = profits
    BY <1>4 DEF PositionCreated, TypeOK, BudgetTypeOK, memory
  <2>2. cost \in Nat /\ used \in Nat /\ reservations[i].capital \in Nat
    BY <2>1, ParameterTypes DEF UsedAmounts, Reservation
  <2>3. /\ reservations'[i] = [reservations[i] EXCEPT !.filled = TRUE, !.used = used]
        /\ \A j \in Request \ {i} : reservations'[j] = reservations[j]
    BY <2>1 DEF TypeOK, BudgetTypeOK
  <2>4. /\ reservations'[i].filled /\ reservations'[i].used = used
        /\ reservations'[i].mode = reservations[i].mode
        /\ reservations'[i].capital = reservations[i].capital
        /\ reservations'[i] # NoReservation
    BY <2>1, FilledReservation
  <2>5. /\ position'[i] # NoPosition /\ position'[i].mode = reservations[i].mode
        /\ position'[i].capital = cost /\ position'[i].entry = cost
        /\ \A j \in Request \ {i} : position'[j] = position[j]
    BY <2>1 DEF TypeOK, BudgetTypeOK, NoPosition
  <2>6. UnfilledHasNoRow' /\ position[i] = NoPosition
    BY <1>3, <2>1, <2>3, <2>4, <2>5 DEF UnfilledHasNoRow
  <2>7. ClaimsReserved'
    BY <1>3, <2>1, <2>3, <2>4 DEF ClaimsReserved
  <2>8. EntryCoversCapital'
    BY <1>3, <2>2, <2>5 DEF EntryCoversCapital
  <2>9. ASSUME NEW n \in Mode
        PROVE  /\ Stake(n)[i] = IF reservations[i].mode = n THEN reservations[i].capital ELSE 0
               /\ Stake(n)'[i] = IF reservations[i].mode = n THEN cost ELSE 0
               /\ Claim(n)[i] = IF reservations[i].mode = n THEN reservations[i].capital ELSE 0
               /\ Claim(n)'[i] = IF reservations[i].mode = n THEN used ELSE 0
    <3>1. /\ Stake(n)[i] = IF reservations[i].mode = n THEN reservations[i].capital ELSE 0
          /\ Claim(n)[i] = IF reservations[i].mode = n THEN reservations[i].capital ELSE 0
      BY <1>3, <2>1, <2>6, OwnStake
    <3>2. /\ Stake(n)'[i] = IF reservations[i].mode = n THEN cost ELSE 0
          /\ Claim(n)'[i] = IF reservations[i].mode = n THEN used ELSE 0
      BY <2>4, <2>5, <2>6, NextOwnStake
    <3> QED BY <3>1, <3>2
  <2>10. \A n \in Mode : /\ Stake(n)'[i] <= Stake(n)[i]
                         /\ Stake(n)'[i] - Stake(n)[i] <=
                             (deployed'[n] - deployed[n]) + (Claim(n)'[i] - Claim(n)[i]) + (profits'[n] - profits[n])
    BY <1>2, <2>1, <2>2, <2>9
  <2> QED BY <1>1, <2>1, <2>3, <2>5, <2>6, <2>7, <2>8, <2>10
<1>5. ASSUME NEW m \in Mode, AdjustReservation(i, m)
      PROVE  CapitalInv'
  <2>1. /\ reservations[i] # NoReservation /\ reservations[i].filled /\ reservations[i] \in Reservation
        /\ reservations' = [reservations EXCEPT ![i].capital = reservations[i].used]
        /\ position' = position /\ deployed' = deployed /\ profits' = profits
    BY <1>5 DEF AdjustReservation, Reserved, TypeOK, BudgetTypeOK, memory
  <2>2. /\ reservations'[i] = [reservations[i] EXCEPT !.capital = reservations[i].used]
        /\ \A j \in Request \ {i} : reservations'[j] = reservations[j]
    BY <2>1 DEF TypeOK, BudgetTypeOK
  <2>3. /\ reservations'[i].filled /\ reservations'[i].used = reservations[i].used
        /\ reservations'[i].mode = reservations[i].mode
        /\ reservations'[i].capital = reservations[i].used /\ reservations[i].used \in Nat
        /\ reservations'[i] # NoReservation
    BY <2>1, <2>2 DEF Reservation, NoReservation
  <2>4. UnfilledHasNoRow' /\ ClaimsReserved' /\ EntryCoversCapital'
    BY <1>3, <2>1, <2>2, <2>3 DEF UnfilledHasNoRow, ClaimsReserved, EntryCoversCapital
  <2>5. ASSUME NEW n \in Mode PROVE Stake(n)'[i] = Stake(n)[i] /\ Claim(n)'[i] = Claim(n)[i]
    BY <1>3, <2>1, <2>3, <2>4, OwnStake, NextOwnStake
  <2>6. \A n \in Mode : Stake(n)[i] \in Int /\ Claim(n)[i] \in Int
    BY CapitalTypes
  <2> QED BY <1>1, <1>2, <2>1, <2>2, <2>4, <2>5, <2>6
<1>6. ASSUME NEW m \in Mode, CommitReservation(i, m)
      PROVE  CapitalInv'
  <2>1. /\ reservations[i] # NoReservation /\ reservations[i].filled /\ reservations[i].mode = m
        /\ reservations[i].used = reservations[i].capital /\ reservations[i].capital \in Nat
        /\ reservations' = [reservations EXCEPT ![i] = NoReservation]
        /\ deployed' = [deployed EXCEPT ![m] = @ + reservations[i].capital]
        /\ position' = position /\ profits' = profits
    BY <1>6 DEF CommitReservation, Reserved, TypeOK, BudgetTypeOK, Reservation
  <2>2. /\ reservations'[i] = NoReservation
        /\ \A j \in Request \ {i} : reservations'[j] = reservations[j]
    BY <2>1 DEF TypeOK, BudgetTypeOK
  <2>3. UnfilledHasNoRow' /\ ClaimsReserved' /\ EntryCoversCapital'
    BY <1>3, <2>1, <2>2 DEF UnfilledHasNoRow, ClaimsReserved, EntryCoversCapital
  <2>4. ASSUME NEW n \in Mode
        PROVE  /\ Stake(n)'[i] = Stake(n)[i] /\ Claim(n)'[i] = 0
               /\ Claim(n)[i] = IF n = m THEN reservations[i].capital ELSE 0
    BY <1>3, <2>1, <2>2, <2>3, OwnStake, NextOwnStake
  <2>5. \A n \in Mode : deployed'[n] = deployed[n] + (IF n = m THEN reservations[i].capital ELSE 0)
    BY <1>2, <2>1 DEF TypeOK, MemoryTypeOK
  <2>6. \A n \in Mode : Stake(n)[i] \in Int
    BY CapitalTypes
  <2>7. \A n \in Mode : /\ Stake(n)'[i] <= Stake(n)[i]
                        /\ Stake(n)'[i] - Stake(n)[i] <=
                             (deployed'[n] - deployed[n]) + (Claim(n)'[i] - Claim(n)[i]) + (profits'[n] - profits[n])
    BY <1>2, <2>1, <2>4, <2>5, <2>6
  <2> QED BY <1>1, <2>1, <2>2, <2>3, <2>7
<1>7. ASSUME NEW m \in Mode, ReleaseReservation(i, m)
      PROVE  CapitalInv'
  <2>1. /\ reservations[i] # NoReservation /\ ~reservations[i].filled /\ reservations[i].mode = m
        /\ reservations[i].capital \in Nat
        /\ reservations' = [reservations EXCEPT ![i] = NoReservation]
        /\ position' = position /\ deployed' = deployed /\ profits' = profits
    BY <1>7 DEF ReleaseReservation, Reserved, TypeOK, BudgetTypeOK, Reservation, memory
  <2>2. /\ reservations'[i] = NoReservation /\ position[i] = NoPosition
        /\ \A j \in Request \ {i} : reservations'[j] = reservations[j]
    BY <1>3, <2>1 DEF TypeOK, BudgetTypeOK, UnfilledHasNoRow
  <2>3. UnfilledHasNoRow' /\ ClaimsReserved' /\ EntryCoversCapital'
    BY <1>3, <2>1, <2>2 DEF UnfilledHasNoRow, ClaimsReserved, EntryCoversCapital
  <2>4. ASSUME NEW n \in Mode
        PROVE  /\ Stake(n)'[i] = 0 /\ Claim(n)'[i] = 0
               /\ Stake(n)[i] = IF n = m THEN reservations[i].capital ELSE 0
               /\ Claim(n)[i] = IF n = m THEN reservations[i].capital ELSE 0
    BY <1>3, <2>1, <2>2, <2>3, OwnStake, NextOwnStake
  <2> QED BY <1>1, <1>2, <2>1, <2>2, <2>3, <2>4
<1> QED
  BY <1>4, <1>5, <1>6, <1>7, ReserveCapital DEF QueueStep

(* A close, or a partial exit, gives back no more than the position held   *)
(* and the gain it made.                                                   *)
LEMMA ClosingCapital ==
    ASSUME TypeOK, TypeOK', CapitalInv, OperatorCloses = FALSE, RuntimeRecalculation = FALSE,
           NEW i \in Request, NEW t \in Ticket, ClosingStep(i, t)
    PROVE  CapitalInv'
<1>1. /\ UnfilledHasNoRow /\ ClaimsReserved /\ EntryCoversCapital
      /\ \A n \in Mode : deployed[n] \in Nat /\ profits[n] \in Nat
  BY CapitalTypes DEF CapitalInv
<1>2. ASSUME /\ UnfilledHasNoRow' /\ EntryCoversCapital' /\ reservations' = reservations
             /\ \A j \in Request \ {i} : position'[j] = position[j]
             /\ \A n \in Mode :
                  /\ Stake(n)'[i] <= Stake(n)[i] /\ Claim(n)'[i] = Claim(n)[i]
                  /\ Stake(n)'[i] - Stake(n)[i] <= (deployed'[n] - deployed[n]) + (profits'[n] - profits[n])
                  /\ profits[n] <= profits'[n]
      PROVE  CapitalInv'
  <2>1. ClaimsReserved'
    BY <1>1, <1>2 DEF ClaimsReserved
  <2>2. ASSUME NEW n \in Mode
        PROVE  Stake(n)'[i] - Stake(n)[i] <=
                 (deployed'[n] - deployed[n]) + (Claim(n)'[i] - Claim(n)[i]) + (profits'[n] - profits[n])
    <3>1. /\ Stake(n)[i] \in Int /\ Stake(n)'[i] \in Int /\ Claim(n)[i] \in Int
          /\ deployed'[n] \in Int /\ profits'[n] \in Int /\ deployed[n] \in Int /\ profits[n] \in Int
      BY CapitalTypes, NextCapitalTypes
    <3>2. Stake(n)'[i] - Stake(n)[i] <= (deployed'[n] - deployed[n]) + (profits'[n] - profits[n])
          /\ Claim(n)'[i] = Claim(n)[i]
      BY <1>2
    <3> QED BY <3>1, <3>2
  <2>3. CapitalBacked' /\ StakeWithinBankroll'
    BY <1>2, <2>2, OthersUntouched, CapitalFrame
  <2> QED BY <1>2, <2>1, <2>3 DEF CapitalInv
<1>3. CASE PositionRowClosed(i)
  <2>1. /\ position[i] \in Position /\ position[i] # NoPosition /\ reservations' = reservations
        /\ position' = [position EXCEPT ![i].closed = TRUE] /\ deployed' = deployed /\ profits' = profits
    BY <1>3 DEF PositionRowClosed, TypeOK, BudgetTypeOK, memory, budget
  <2>2. /\ position'[i] # NoPosition /\ position'[i].mode = position[i].mode
        /\ position'[i].capital = position[i].capital /\ position'[i].entry = position[i].entry
        /\ \A j \in Request \ {i} : position'[j] = position[j]
    <3>1. position'[i] = [position[i] EXCEPT !.closed = TRUE]
      BY <2>1 DEF TypeOK, BudgetTypeOK
    <3>2. /\ position'[i].mode = position[i].mode
          /\ position'[i].capital = position[i].capital /\ position'[i].entry = position[i].entry
      BY <2>1, <3>1 DEF Position
    <3>3. position'[i] # NoPosition
      BY <2>1, <3>1 DEF Position, NoPosition
    <3> QED BY <2>1, <3>2, <3>3 DEF TypeOK, BudgetTypeOK
  <2>3. UnfilledHasNoRow' /\ EntryCoversCapital'
    BY <1>1, <2>1, <2>2 DEF UnfilledHasNoRow, EntryCoversCapital
  <2>4. ASSUME NEW n \in Mode
        PROVE  Stake(n)'[i] = Stake(n)[i] /\ Claim(n)'[i] = Claim(n)[i] /\ Stake(n)[i] \in Int
    BY <1>1, <2>1, <2>2, <2>3, OwnStake, NextOwnStake, CapitalTypes
  <2> QED BY <1>1, <1>2, <2>1, <2>2, <2>3, <2>4
<1>4. ASSUME position[i] # NoPosition, NEW m \in ModesPassed(i), NEW pnl \in Pnls, NEW error \in Misjudged,
             NEW released \in Nat, NEW left \in Nat, left + released = position[i].capital,
             deployed' = [deployed EXCEPT ![m] = Floor(@ - (released + pnl + error))],
             UpdateDailyPnl(m, pnl), reservations' = reservations,
             \A j \in Request \ {i} : position'[j] = position[j],
             \/ position'[i] = NoPosition /\ left = 0
             \/ /\ position'[i] # NoPosition /\ position'[i].mode = position[i].mode
                /\ position'[i].capital = left /\ position'[i].entry = position[i].entry
      PROVE  CapitalInv'
  <2>1. /\ position[i] \in Position /\ m = position[i].mode /\ m \in Mode /\ pnl \in Int /\ error = 0
        /\ position[i].capital \in Nat /\ position[i].entry \in Nat
    BY <1>4, ParameterTypes DEF TypeOK, BudgetTypeOK, ModesPassed, Misjudged, Position
  <2>2. UnfilledHasNoRow'
    BY <1>1, <1>4 DEF UnfilledHasNoRow
  <2>3. EntryCoversCapital'
    <3>1. position[i].capital <= position[i].entry
      BY <1>1, <1>4 DEF EntryCoversCapital
    <3>2. left <= position[i].entry
      BY <1>4, <2>1, <3>1
    <3> QED BY <1>1, <1>4, <3>2 DEF EntryCoversCapital
  <2>4. ASSUME NEW n \in Mode
        PROVE  /\ Stake(n)[i] = IF n = m THEN position[i].capital ELSE 0
               /\ Stake(n)'[i] = IF n = m THEN left ELSE 0
               /\ Claim(n)'[i] = Claim(n)[i]
    <3>1. Stake(n)[i] = IF n = m THEN position[i].capital ELSE 0
      BY <1>1, <1>4, <2>1, OwnStake
    <3>2. Stake(n)'[i] = IF n = m THEN left ELSE 0
      <4>1. position'[i] = NoPosition => ~(reservations'[i] # NoReservation /\ ~reservations'[i].filled)
        BY <1>1, <1>4 DEF UnfilledHasNoRow
      <4> QED BY <1>4, <2>1, <2>2, <4>1, NextOwnStake
    <3>3. Claim(n)'[i] = Claim(n)[i]
      BY <1>1, <1>4, <2>2, OwnStake, NextOwnStake
    <3> QED BY <3>1, <3>2, <3>3
  <2>5. ASSUME NEW n \in Mode
        PROVE  /\ n # m => deployed'[n] = deployed[n] /\ profits'[n] = profits[n]
               /\ n = m => /\ deployed'[n] = Floor(deployed[n] - (released + pnl))
                           /\ profits'[n] = profits[n] + Floor(pnl)
    <3>1. n = m => deployed'[n] = Floor(deployed[n] - (released + pnl + error))
      BY <1>4, <2>1 DEF TypeOK, MemoryTypeOK
    <3>2. released + pnl + error = released + pnl
      BY <2>1
    <3>3. n # m => deployed'[n] = deployed[n] /\ profits'[n] = profits[n]
      BY <1>4, <2>1 DEF UpdateDailyPnl, TypeOK, MemoryTypeOK
    <3>4. n = m => profits'[n] = profits[n] + Floor(pnl)
      BY <1>4, <2>1 DEF UpdateDailyPnl, TypeOK
    <3> QED BY <3>1, <3>2, <3>3, <3>4
  <2>6. \A n \in Mode :
          /\ Stake(n)'[i] <= Stake(n)[i]
          /\ Stake(n)'[i] - Stake(n)[i] <= (deployed'[n] - deployed[n]) + (profits'[n] - profits[n])
          /\ profits[n] <= profits'[n]
    <3>1. \A d \in Nat, p \in Nat, x \in Int, r \in Nat :
             /\ p <= p + Floor(x)
             /\ 0 - r <= (Floor(d - (r + x)) - d) + ((p + Floor(x)) - p)
      BY DEF Floor
    <3> SUFFICES ASSUME NEW n \in Mode
                 PROVE  /\ Stake(n)'[i] <= Stake(n)[i]
                        /\ Stake(n)'[i] - Stake(n)[i] <= (deployed'[n] - deployed[n]) + (profits'[n] - profits[n])
                        /\ profits[n] <= profits'[n]
      OBVIOUS
    <3>2. deployed[n] \in Nat /\ profits[n] \in Nat
      BY <1>1 DEF TypeOK, MemoryTypeOK
    <3>3. CASE n = m
      <4>1. Stake(n)[i] = position[i].capital /\ Stake(n)'[i] = left
        BY <2>4, <3>3
      <4>2. left - position[i].capital = 0 - released
        BY <1>4, <2>1
      <4>3. left <= position[i].capital
        BY <1>4, <2>1
      <4>4. /\ profits[n] <= profits[n] + Floor(pnl)
            /\ 0 - released <= (Floor(deployed[n] - (released + pnl)) - deployed[n])
                                 + ((profits[n] + Floor(pnl)) - profits[n])
        BY <1>4, <2>1, <3>1, <3>2
      <4>5. deployed'[n] = Floor(deployed[n] - (released + pnl)) /\ profits'[n] = profits[n] + Floor(pnl)
        BY <2>5, <3>3
      <4> QED BY <4>1, <4>2, <4>3, <4>4, <4>5
    <3>4. CASE n # m
      <4>1. Stake(n)[i] = 0 /\ Stake(n)'[i] = 0
        BY <2>4, <3>4
      <4> QED BY <2>5, <3>2, <3>4, <4>1
    <3> QED BY <3>3, <3>4
  <2> QED BY <1>2, <1>4, <2>2, <2>3, <2>4, <2>6
<1>5. ASSUME NEW m \in ModesPassed(i), NEW pnl \in Pnls, NEW error \in Misjudged,
             ClosePosition(i, m, pnl, error, t)
      PROVE  CapitalInv'
  <2>1. /\ position[i] # NoPosition /\ ~position[i].flagged /\ position[i] \in Position
        /\ position' = [position EXCEPT ![i] = NoPosition] /\ reservations' = reservations
        /\ deployed' = [deployed EXCEPT ![m] = Floor(@ - CapitalReturned(i, pnl, error))]
        /\ UpdateDailyPnl(m, pnl)
    BY <1>5 DEF ClosePosition, TypeOK, BudgetTypeOK
  <2>2. /\ position[i].capital \in Nat /\ position'[i] = NoPosition
        /\ \A j \in Request \ {i} : position'[j] = position[j]
        /\ CapitalReturned(i, pnl, error) = position[i].capital + pnl + error
    BY <2>1 DEF TypeOK, BudgetTypeOK, Position, CapitalReturned
  <2>3. 0 \in Nat /\ 0 + position[i].capital = position[i].capital
    BY <2>2
  <2> QED BY <1>4, <1>5, <2>1, <2>2, <2>3
<1>6. ASSUME NEW m \in ModesPassed(i), NEW pnl \in Pnls, NEW error \in Misjudged, NEW exited \in Amounts,
             ReleasePartialCapital(i, m, exited, pnl, error, t)
      PROVE  CapitalInv'
  <2>1. /\ position[i] # NoPosition /\ position[i] \in Position /\ exited \in Nat
        /\ exited <= position[i].capital
        /\ position' = [position EXCEPT ![i].capital = @ - exited] /\ reservations' = reservations
        /\ deployed' = [deployed EXCEPT ![m] = Floor(@ - (exited + pnl + error))]
        /\ UpdateDailyPnl(m, pnl)
    BY <1>6, ParameterTypes DEF ReleasePartialCapital, budget, TypeOK, BudgetTypeOK
  <2>2. /\ position'[i] # NoPosition /\ position'[i].mode = position[i].mode
        /\ position'[i].capital = position[i].capital - exited
        /\ position'[i].entry = position[i].entry
        /\ \A j \in Request \ {i} : position'[j] = position[j]
    <3>1. position'[i] = [position[i] EXCEPT !.capital = position[i].capital - exited]
      BY <2>1 DEF TypeOK, BudgetTypeOK
    <3>2. /\ position'[i].mode = position[i].mode /\ position'[i].entry = position[i].entry
          /\ position'[i].capital = position[i].capital - exited
      BY <2>1, <3>1 DEF Position
    <3>3. position'[i] # NoPosition
      BY <2>1, <3>1 DEF Position, NoPosition
    <3> QED BY <2>1, <3>2, <3>3 DEF TypeOK, BudgetTypeOK
  <2>3. /\ position[i].capital \in Nat /\ position[i].capital - exited \in Nat
        /\ (position[i].capital - exited) + exited = position[i].capital
    BY <2>1 DEF Position
  <2> QED BY <1>4, <1>6, <2>1, <2>2, <2>3
<1> QED
  BY <1>3, <1>5, <1>6 DEF ClosingStep

(* A boot that completes deploys the entry capital of the active rows,     *)
(* which covers what they have left; reservations are gone.                *)
LEMMA RestartCapital ==
    ASSUME TypeOK, TypeOK', CapitalInv, NEW outcome, outcome # "failed", NEW flags, NEW saved,
           Restart(outcome, flags, saved)
    PROVE  CapitalInv'
<1>1. /\ UnfilledHasNoRow /\ EntryCoversCapital /\ profits' = profits
      /\ reservations' = [i \in Request |-> NoReservation]
      /\ deployed' = [m \in Mode |-> EntryCapital(m)]
  BY DEF CapitalInv, Restart, Load
<1>2. ASSUME NEW i \in Request
      PROVE  /\ position'[i] # NoPosition =>
                  /\ position[i] # NoPosition /\ ~position[i].closed
                  /\ position'[i].mode = position[i].mode
                  /\ position'[i].capital = position[i].capital /\ position'[i].entry = position[i].entry
             /\ position[i] # NoPosition /\ ~position[i].closed => position'[i] # NoPosition
  <2>1. position'[i] # NoPosition <=> position[i] # NoPosition /\ ~position[i].closed
    BY RestartKeepsActive
  <2>2. CASE i \in flags
    <3>1. position[i] # NoPosition /\ position[i] \in Position
      BY <2>2 DEF Restart, CountedRows, ActiveRows, TypeOK, BudgetTypeOK
    <3>2. position'[i] # NoPosition => position'[i] = [position[i] EXCEPT !.flagged = TRUE]
      BY <2>1, <2>2 DEF Restart
    <3>3. \A q : q = [position[i] EXCEPT !.flagged = TRUE] =>
              q.mode = position[i].mode /\ q.capital = position[i].capital /\ q.entry = position[i].entry
      BY <3>1 DEF Position
    <3> QED BY <2>1, <3>2, <3>3
  <2>3. CASE i \notin flags
    BY <2>1, <2>3 DEF Restart
  <2> QED BY <2>2, <2>3
<1>3. UnfilledHasNoRow' /\ ClaimsReserved' /\ EntryCoversCapital'
  <2>1. EntryCoversCapital'
    BY <1>1, <1>2 DEF EntryCoversCapital
  <2>2. UnfilledHasNoRow' /\ ClaimsReserved'
    BY <1>1 DEF UnfilledHasNoRow, ClaimsReserved
  <2> QED BY <2>1, <2>2
<1>4. ASSUME NEW m \in Mode
      PROVE  /\ SumFunction(Stake(m)') <= SumFunction(Stake(m))
             /\ SumFunction(Stake(m)') <= deployed'[m]
             /\ 0 <= SumFunction(Claim(m)')
             /\ profits'[m] = profits[m]
             /\ SumFunction(Stake(m)') \in Int /\ SumFunction(Claim(m)') \in Int
  <2>1. /\ Stake(m) \in [Request -> Int] /\ Stake(m)' \in [Request -> Int] /\ Claim(m)' \in [Request -> Int]
        /\ \A i \in Request : 0 <= Stake(m)[i] /\ 0 <= Stake(m)'[i] /\ 0 <= Claim(m)'[i]
        /\ SumFunction(Stake(m)') \in Int /\ SumFunction(Claim(m)') \in Int
    BY CapitalTypes, NextCapitalTypes
  <2>2. ASSUME NEW i \in Request
        PROVE  /\ Stake(m)'[i] = IF i \in ActiveRows(m) THEN position[i].capital ELSE 0
               /\ i \in ActiveRows(m) => Stake(m)[i] = position[i].capital
    <3>1. Stake(m)'[i] = IF position'[i] # NoPosition
                         THEN IF position'[i].mode = m THEN position'[i].capital ELSE 0 ELSE 0
      BY <1>1, <1>3, NextOwnStake
    <3>2. i \in ActiveRows(m) => Stake(m)[i] = position[i].capital
      BY <1>1, OwnStake DEF ActiveRows
    <3> QED BY <1>2, <3>1, <3>2 DEF ActiveRows
  <2>3. SumFunction(Stake(m)') <= SumFunction(Stake(m))
    <3>1. \A i \in Request : Stake(m)'[i] <= Stake(m)[i]
      BY <2>1, <2>2
    <3> QED BY <2>1, <3>1, FiniteRequests, SumMonotone
  <2>4. SumFunction(Stake(m)') <= EntryCapital(m)
    <3> DEFINE rows == ActiveRows(m)
               left == [i \in rows |-> Stake(m)'[i]]
               entered == [i \in rows |-> position[i].entry]
    <3>1. rows \in SUBSET Request /\ IsFiniteSet(rows)
      BY FiniteRequests, FS_Subset DEF ActiveRows
    <3>2. SumFunction(left) = SumFunction(Stake(m)')
      BY <2>1, <2>2, <3>1, FiniteRequests, SumSupport
    <3>3. left \in [rows -> Int] /\ entered \in [rows -> Int]
      <4>1. \A i \in rows : Stake(m)'[i] \in Int
        BY <2>1, <3>1
      <4>2. \A i \in rows : position[i] # NoPosition
        BY DEF ActiveRows
      <4>3. \A i \in rows : position[i].entry \in Int
        <5> SUFFICES ASSUME NEW i \in rows PROVE position[i].entry \in Int
          OBVIOUS
        <5>1. i \in Request
          BY <3>1
        <5>2. position[i] \in Position
          BY <4>2, <5>1 DEF TypeOK, BudgetTypeOK
        <5>3. position[i].entry \in Amounts
          BY <5>2 DEF Position
        <5>4. Amounts \subseteq Nat
          BY ParameterTypes
        <5>5. position[i].entry \in Nat
          BY <5>3, <5>4
        <5> HIDE DEF rows
        <5> QED BY <5>5
      <4> QED BY <4>1, <4>3
    <3>4. \A i \in rows : left[i] <= entered[i]
      BY <1>1, <2>2, <3>1 DEF EntryCoversCapital, ActiveRows
    <3>5. EntryCapital(m) = SumFunction(entered)
      BY DEF EntryCapital
    <3> HIDE DEF rows, left, entered
    <3>6. SumFunction(left) <= SumFunction(entered)
      BY <3>1, <3>3, <3>4, SumMonotone
    <3> QED BY <3>2, <3>5, <3>6
  <2>5. 0 <= SumFunction(Claim(m)')
    <3>1. Claim(m)' \in [Request -> Nat]
      BY <2>1
    <3>2. SumFunction(Claim(m)') \in Nat
      BY <3>1, FiniteRequests, SumNatural
    <3> QED BY <3>2
  <2> QED BY <1>1, <2>1, <2>3, <2>4, <2>5
<1>5. ASSUME NEW m \in Mode
      PROVE  /\ SumFunction(Stake(m)') <= deployed'[m] + SumFunction(Claim(m)') + profits'[m]
             /\ \E c \in Configs : SumFunction(Stake(m)') <= c.bankroll[m] + profits'[m]
  <2>1. PICK c \in Configs : SumFunction(Stake(m)) <= c.bankroll[m] + profits[m]
    BY DEF CapitalInv, StakeWithinBankroll
  <2>2. /\ SumFunction(Stake(m)) \in Int /\ c.bankroll[m] \in Nat
        /\ profits[m] \in Nat /\ deployed'[m] \in Nat
    BY CapitalTypes, NextCapitalTypes
  <2> QED BY <1>4, <2>1, <2>2
<1> QED BY <1>3, <1>5 DEF CapitalInv, CapitalBacked, StakeWithinBankroll

LEMMA CapitalStep ==
    ASSUME OperatorCloses = FALSE, RuntimeRecalculation = FALSE, "failed" \notin Outcomes
    PROVE  TypeOK /\ TypeOK' /\ CapitalInv /\ [Next]_vars => CapitalInv'
<1> SUFFICES ASSUME TypeOK, TypeOK', CapitalInv, [Next]_vars PROVE CapitalInv'
  OBVIOUS
<1>1. ASSUME UNCHANGED <<reservations, position, deployed, profits>>
      PROVE  CapitalInv'
  <2>1. \A m \in Mode : Stake(m)' = Stake(m) /\ Claim(m)' = Claim(m)
    BY <1>1 DEF Stake, Claim, AtStake, Reserved
  <2> QED BY <1>1, <2>1 DEF CapitalInv, UnfilledHasNoRow, ClaimsReserved, EntryCoversCapital,
                            CapitalBacked, StakeWithinBankroll
<1>2. CASE UNCHANGED vars
  BY <1>1, <1>2 DEF vars, budget, memory
<1>3. ASSUME NEW t \in Ticket, HaltStep(t)
      PROVE  CapitalInv'
  BY <1>1, <1>3 DEF HaltStep, HaltTrading, ResumeTrading, HandleMidnightReset, budget
<1>4. ASSUME NEW m \in Mode, NEW t \in Ticket, RecalculateFromPositions(m, t)
      PROVE  CapitalInv'
  BY <1>4 DEF RecalculateFromPositions
<1>5. ASSUME NEW c \in Caller, UpsertLands(c) \/ UpsertFails(c)
      PROVE  CapitalInv'
  BY <1>1, <1>5 DEF UpsertLands, UpsertFails, budget, memory
<1>6. CASE DayPasses \/ \E c \in Configs : ReloadConfig(c)
  BY <1>1, <1>6 DEF DayPasses, ReloadConfig, budget, memory
<1>7. ASSUME NEW i \in Request, AcknowledgeDiscrepancy(i)
      PROVE  CapitalInv'
  BY <1>7 DEF AcknowledgeDiscrepancy
<1> QED
  BY <1>2, <1>3, <1>4, <1>5, <1>6, <1>7, QueueCapital, ClosingCapital, RestartCapital DEF Next

LEMMA CapitalInit == Init => CapitalInv
<1> SUFFICES ASSUME Init PROVE CapitalInv
  OBVIOUS
<1>1. /\ position = [i \in Request |-> NoPosition] /\ reservations = [i \in Request |-> NoReservation]
      /\ deployed = [m \in Mode |-> 0] /\ profits = [m \in Mode |-> 0] /\ config \in Configs
  BY DEF Init
<1>2. TypeOK
  BY InitTyped
<1>3. ASSUME NEW m \in Mode PROVE SumFunction(Stake(m)) = 0 /\ SumFunction(Claim(m)) = 0
  <2> DEFINE none == [i \in {} |-> Stake(m)[i]]
             noClaim == [i \in {} |-> Claim(m)[i]]
  <2>1. \A i \in Request \ {} : Stake(m)[i] = 0 /\ Claim(m)[i] = 0
    BY <1>1 DEF Stake, Claim, AtStake, Reserved
  <2>2. SumFunction(none) = SumFunction(Stake(m)) /\ SumFunction(noClaim) = SumFunction(Claim(m))
    <3>1. Stake(m) \in [Request -> Int] /\ Claim(m) \in [Request -> Int] /\ {} \in SUBSET Request
      BY <1>2, CapitalTypes
    <3>2. SumFunction(none) = SumFunction(Stake(m))
      BY <2>1, <3>1, FiniteRequests, SumSupport, ZenonT(60)
    <3>3. SumFunction(noClaim) = SumFunction(Claim(m))
      BY <2>1, <3>1, FiniteRequests, SumSupport, ZenonT(60)
    <3> QED BY <3>2, <3>3
  <2>3. none \in [{} -> Int] /\ noClaim \in [{} -> Int]
    OBVIOUS
  <2> HIDE DEF none, noClaim
  <2> QED BY <2>2, <2>3, SumEmpty
<1>4. \A m \in Mode : config.bankroll[m] \in Nat
  BY <1>1, ParameterTypes DEF Config
<1> QED
  BY <1>1, <1>3, <1>4 DEF CapitalInv, UnfilledHasNoRow, ClaimsReserved, EntryCoversCapital,
                          CapitalBacked, StakeWithinBankroll

(* Under the same three conditions, what a mode really has at stake never  *)
(* exceeds the largest bankroll it was given plus the gains closing        *)
(* positions returned, for any interleaving of reservations, adjustments,  *)
(* commits, closes that overtake them, partial exits and restarts.         *)
THEOREM CapitalAlwaysWithinBankroll ==
    ASSUME OperatorCloses = FALSE, RuntimeRecalculation = FALSE, "failed" \notin Outcomes
    PROVE  Spec => []CapitalWithinBankroll
<1>1. TypeOK /\ CapitalInv => CapitalWithinBankroll
  BY StakeAddsUp DEF CapitalInv, StakeWithinBankroll, CapitalWithinBankroll
<1> QED
  BY <1>1, TypeInvariant, CapitalInit, CapitalStep, PTL DEF Spec

-----------------------------------------------------------------------------
(* The simulation of a backtest.                                            *)

SimPosition == [pair : PairSet, at : Nat \ {0}, quote : Int \X Int,
                side : {"kalshi", "polymarket"}, edge : Int]
ExitReasons == {"RESOLUTION_FORCE_CLOSE", "INSUFFICIENT_DEPTH", "PROFIT_CAPTURE", "EDGE_EVAPORATION",
                "TIME_DECAY", "SIMULATION_END"}
SimTrade == [pair : PairSet, in : Nat, out : Nat, pnl : Int, reason : ExitReasons]
Portfolio == [available : Int, deployed : Int, realized : Int,
              open : SUBSET SimPosition, trades : SUBSET SimTrade,
              won : Int, lost : Int, peak : Nat \ {0}, drawdown : Int]

(* A portfolio whose latest step was at until.                              *)
Kept(f, until) ==
    /\ f \in Portfolio /\ IsFiniteSet(f.open) /\ Conserved(f) /\ OneAtATime(f)
    /\ \A pos \in f.open : pos.at <= until
    /\ \A t \in f.trades : t.out <= until

Quoted(quotes) == \A p \in PairSet : quotes[p] = <<>> \/ quotes[p] \in Nat \X Nat
LastOf(step) == step.at \in 0 .. now /\ Quoted(step.quotes)

SimInv ==
    /\ SimTypeOK /\ over \in BOOLEAN
    /\ LastOf(last) /\ LastOf(lastTrain) /\ LastOf(lastTest)
    /\ Kept(main, last.at) /\ Kept(train, lastTrain.at) /\ Kept(test, lastTest.at)
    /\ over => main.open = {} /\ train.open = {} /\ test.open = {}
    /\ lastTrain.at = 0 \/ lastTrain.at < TrainEnd
    /\ \A t \in train.trades : t.out < TrainEnd
    /\ \A pos \in train.open : pos.at < TrainEnd
    /\ \A t \in test.trades : t.in >= TrainEnd
    /\ \A pos \in test.open : pos.at >= TrainEnd

LEMMA SimNumbers ==
    /\ Unit \in Nat /\ LastStep \in Nat /\ TrainEnd \in Nat /\ Size \in Nat /\ Cost \in Nat /\ MaxPairs \in Nat
    /\ ChunkLength \in Nat \ {0} /\ Bankroll \in Nat \ {0} /\ Notional \in Nat
<1>1. /\ Unit \in Nat /\ LastStep \in Nat /\ TrainEnd \in Nat /\ Size \in Nat /\ Cost \in Nat /\ MaxPairs \in Nat
      /\ ChunkLength \in Nat \ {0} /\ Bankroll \in Nat \ {0}
  BY SimConstants
<1>2. Notional \in Nat
  BY <1>1 DEF Notional
<1> QED BY <1>1, <1>2

LEMMA EntryTyped ==
    ASSUME NEW p \in PairSet, NEW when \in Nat \ {0}, NEW q \in Nat \X Nat
    PROVE  Entry(p, when, q) \in SimPosition
<1>1. q[1] \in Nat /\ q[2] \in Nat /\ q \in Int \X Int
  OBVIOUS
<1>2. EdgeA(q) \in Int /\ EdgeB(q) \in Int
  BY <1>1, SimNumbers DEF EdgeA, EdgeB, GrossEdge
<1>3. NetEdge(q) \in Int
  <2>1. Max({EdgeA(q), EdgeB(q)}) \in Int
    BY <1>2, MaxOfTwo
  <2> QED BY <2>1, SimNumbers DEF NetEdge
<1>4. BuySide(q) \in {"kalshi", "polymarket"}
  BY DEF BuySide
<1> QED BY <1>1, <1>3, <1>4 DEF Entry, SimPosition

LEMMA ExitQuoteTyped ==
    ASSUME NEW q \in Nat \X Nat, NEW reason, reason = "RESOLUTION_FORCE_CLOSE" => ResolutionPrice(q) # {}
    PROVE  ExitQuote(q, reason) \in Int \X Int
<1>1. CASE reason = "RESOLUTION_FORCE_CLOSE"
  <2>1. ResolutionPrice(q) \subseteq {0, Unit}
    BY DEF ResolutionPrice
  <2>2. (CHOOSE r \in ResolutionPrice(q) : TRUE) \in {0, Unit}
    BY <1>1, <2>1
  <2> DEFINE res == CHOOSE r \in ResolutionPrice(q) : TRUE
  <2>3. res \in Int /\ Unit - res \in Int
    <3>1. res \in {0, Unit}
      BY <2>2
    <3> HIDE DEF res
    <3> QED BY <3>1, SimNumbers
  <2>4. ExitQuote(q, reason) = <<res, Unit - res>>
    BY <1>1 DEF ExitQuote
  <2> HIDE DEF res
  <2> QED BY <2>3, <2>4
<1>2. CASE reason # "RESOLUTION_FORCE_CLOSE"
  BY <1>2 DEF ExitQuote
<1> QED BY <1>1, <1>2

LEMMA PnlTyped ==
    ASSUME NEW pos \in SimPosition, NEW k \in Int, NEW p \in Int
    PROVE  PnlOf(pos, k, p) \in Int
<1>1. pos.quote[1] \in Int /\ pos.quote[2] \in Int
  BY DEF SimPosition
<1>2. \A side, a, b : a \in Int /\ b \in Int => LegPnl(side, a, b) \in Int
  BY SimNumbers DEF LegPnl
<1> QED BY <1>1, <1>2 DEF PnlOf

LEMMA DrawdownTyped ==
    ASSUME NEW peak \in Nat \ {0}, NEW equity \in Int PROVE DrawdownFrom(peak, equity) \in Int
<1>1. (peak - equity) * 100 \in Int
  OBVIOUS
<1>2. \A x \in Int : x \div peak \in Int
  OBVIOUS
<1> QED BY <1>1, <1>2 DEF DrawdownFrom

(* Of the positions that leave, one was entered last.                       *)
LEMMA LastLeaver ==
    ASSUME NEW L \in SUBSET SimPosition, IsFiniteSet(L), L # {}
    PROVE  \E b \in L : \A a \in L : NoLater(a, b)
<1>1. \A pos \in SimPosition : Place(pos.pair) \in Nat /\ pos.at \in Nat
  <2> TAKE pos \in SimPosition
  <2>1. pos.pair \in PairSet /\ pos.at \in Nat
    BY DEF SimPosition
  <2>2. \E i \in DOMAIN SimPairs : SimPairs[i] = pos.pair
    BY <2>1 DEF PairSet, Range
  <2>3. Place(pos.pair) \in DOMAIN SimPairs
    BY <2>2 DEF Place
  <2>4. DOMAIN SimPairs \subseteq Nat
    BY SimConstants, LenProperties
  <2> QED BY <2>1, <2>3, <2>4
<1>2. \A a, b, c \in SimPosition : NoLater(a, b) /\ NoLater(b, c) => NoLater(a, c)
  BY <1>1 DEF NoLater
<1>3. \A a, b \in SimPosition : NoLater(a, b) \/ NoLater(b, a)
  BY <1>1 DEF NoLater
<1> DEFINE H == {T \in SUBSET L : T = {} \/ \E b \in T : \A a \in T : NoLater(a, b)}
<1>4. {} \in H
  OBVIOUS
<1>5. ASSUME NEW T \in SUBSET L, NEW x \in T, T \ {x} \in H PROVE T \in H
  <2>1. x \in SimPosition /\ NoLater(x, x)
    BY <1>3
  <2>2. CASE T \ {x} = {}
    <3>1. \A y \in T : y = x
      BY <2>2
    <3> QED BY <2>1, <3>1
  <2>3. CASE T \ {x} # {}
    <3>1. PICK b \in T \ {x} : \A a \in T \ {x} : NoLater(a, b)
      BY <1>5, <2>3
    <3>2. CASE NoLater(x, b)
      BY <3>1, <3>2
    <3>3. CASE NoLater(b, x)
      <4>1. \A a \in T : NoLater(a, x)
        BY <1>2, <2>1, <3>1, <3>3
      <4> QED BY <4>1
    <3> QED BY <1>3, <2>1, <3>2, <3>3
  <2> QED BY <2>2, <2>3
<1>6. L \in H
  <2> HIDE DEF H
  <2>1. \A T \in SUBSET L : T \in H
    BY <1>4, <1>5, FiniteInduction
  <2> QED BY <2>1
<1> QED BY <1>6

(* The positions that leave are open, were entered before or, at the end,   *)
(* by now, and have a price.                                                *)
Leavable(f, exits, when) ==
    /\ DOMAIN exits \subseteq f.open
    /\ \A pos \in DOMAIN exits :
          /\ exits[pos].quote \in Int \X Int /\ exits[pos].reason \in ExitReasons
          /\ pos.at <= when /\ (exits[pos].reason = "SIMULATION_END" \/ pos.at # when)

LEMMA ExitsTyped ==
    ASSUME NEW f \in Portfolio, IsFiniteSet(f.open), NEW exits, NEW when \in Nat, Leavable(f, exits, when)
    PROVE  /\ DOMAIN exits \in SUBSET SimPosition /\ IsFiniteSet(DOMAIN exits)
           /\ PnlOfExits(exits) \in [DOMAIN exits -> Int]
           /\ SumFunction(PnlOfExits(exits)) \in Int
<1>1. DOMAIN exits \in SUBSET SimPosition /\ IsFiniteSet(DOMAIN exits)
  <2>1. f.open \in SUBSET SimPosition /\ DOMAIN exits \in SUBSET f.open
    BY DEF Portfolio, Leavable
  <2>2. IsFiniteSet(DOMAIN exits)
    BY <2>1, FS_Subset
  <2> QED BY <2>1, <2>2
<1>2. ASSUME NEW pos \in DOMAIN exits PROVE PnlOf(pos, exits[pos].quote[1], exits[pos].quote[2]) \in Int
  <2>1. exits[pos].quote[1] \in Int /\ exits[pos].quote[2] \in Int
    BY DEF Leavable
  <2> QED BY <1>1, <2>1, PnlTyped
<1>3. PnlOfExits(exits) \in [DOMAIN exits -> Int]
  BY <1>2 DEF PnlOfExits
<1>4. SumFunction(PnlOfExits(exits)) \in Int
  BY <1>1, <1>3, SumInteger
<1> QED BY <1>1, <1>3, <1>4

(* The equity once some have left, and the highest of them.                 *)
LEMMA EquityTyped ==
    ASSUME NEW f \in Portfolio, NEW L \in SUBSET SimPosition, IsFiniteSet(L), NEW pnl \in [L -> Int], NEW b \in L
    PROVE  EquityAfter(f, pnl, b) \in Int
<1>1. f.available \in Int /\ f.deployed \in Int /\ DOMAIN pnl = L
  BY DEF Portfolio
<1> DEFINE part == [a \in LeftBy(L, b) |-> pnl[a]]
<1>2. LeftBy(L, b) \in SUBSET L
  BY DEF LeftBy
<1>3. IsFiniteSet(LeftBy(L, b)) /\ part \in [LeftBy(L, b) -> Int]
  BY <1>2, FS_Subset
<1>4. SumFunction(part) \in Int
  <2> HIDE DEF part
  <2> QED BY <1>3, SumInteger
<1>5. EquityAfter(f, pnl, b) = f.available + f.deployed + SumFunction(part)
  BY <1>1 DEF EquityAfter
<1> HIDE DEF part
<1> QED BY <1>1, <1>4, <1>5

PeakOver(f, pnl, L) == Max({f.peak} \cup {EquityAfter(f, pnl, a) : a \in L})
DeepestOver(f, pnl, L) == Max({f.drawdown} \cup {DrawdownAfter(f, pnl, b) : b \in L})

LEMMA PeakTyped ==
    ASSUME NEW f \in Portfolio, NEW L \in SUBSET SimPosition, IsFiniteSet(L), NEW pnl \in [L -> Int],
           NEW K \in SUBSET L
    PROVE  /\ PeakOver(f, pnl, K) \in Nat \ {0} /\ PeakOver(f, pnl, K) >= f.peak
           /\ \A a \in K : PeakOver(f, pnl, K) >= EquityAfter(f, pnl, a)
<1> DEFINE equity == [a \in K |-> EquityAfter(f, pnl, a)]
           all == {f.peak} \cup {equity[a] : a \in K}
<1>1. f.peak \in Nat \ {0}
  BY DEF Portfolio
<1>2. \A a \in K : equity[a] \in Int
  BY EquityTyped
<1>3. IsFiniteSet(K)
  BY FS_Subset
<1>4. IsFiniteSet({equity[a] : a \in K})
  <2> HIDE DEF equity
  <2> QED BY <1>3, ImageFinite
<1>5. IsFiniteSet(all)
  <2>1. IsFiniteSet({f.peak})
    BY FS_Singleton
  <2> HIDE DEF equity
  <2> QED BY <1>4, <2>1, FS_Union
<1>6. all \in SUBSET Int /\ all # {}
  <2> HIDE DEF equity
  <2> QED BY <1>1, <1>2
<1>7. Max(all) \in all /\ \A y \in all : Max(all) >= y
  <2> HIDE DEF all
  <2> QED BY <1>5, <1>6, MaxOfFinite
<1>8. all = {f.peak} \cup {EquityAfter(f, pnl, a) : a \in K}
  OBVIOUS
<1>9. PeakOver(f, pnl, K) = Max(all)
  BY <1>8 DEF PeakOver
<1>10. /\ Max(all) \in Int /\ Max(all) >= f.peak
      /\ \A a \in K : Max(all) >= EquityAfter(f, pnl, a)
  BY <1>6, <1>7, <1>8
<1>11. Max(all) \in Nat \ {0}
  <2> HIDE DEF all
  <2> QED BY <1>1, <1>10
<1> HIDE DEF all, equity
<1> QED BY <1>9, <1>10, <1>11

LEMMA DrawdownAfterTyped ==
    ASSUME NEW f \in Portfolio, NEW L \in SUBSET SimPosition, IsFiniteSet(L), NEW pnl \in [L -> Int],
           NEW b \in L
    PROVE  DrawdownAfter(f, pnl, b) \in Int
<1>1. LeftBy(L, b) \in SUBSET L /\ DOMAIN pnl = L
  BY DEF LeftBy
<1>2. PeakAfter(f, pnl, b) \in Nat \ {0}
  <2>1. PeakAfter(f, pnl, b) = PeakOver(f, pnl, LeftBy(L, b))
    BY <1>1 DEF PeakAfter, PeakOver
  <2> QED BY <1>1, <2>1, PeakTyped
<1>3. EquityAfter(f, pnl, b) \in Int
  BY EquityTyped
<1> QED BY <1>2, <1>3, DrawdownTyped DEF DrawdownAfter

LEMMA DeepestTyped ==
    ASSUME NEW f \in Portfolio, NEW L \in SUBSET SimPosition, IsFiniteSet(L), NEW pnl \in [L -> Int]
    PROVE  DeepestOver(f, pnl, L) \in Int
<1> DEFINE depth == [b \in L |-> DrawdownAfter(f, pnl, b)]
           all == {f.drawdown} \cup {depth[b] : b \in L}
<1>1. f.drawdown \in Int
  BY DEF Portfolio
<1>2. \A b \in L : depth[b] \in Int
  BY DrawdownAfterTyped
<1>4. IsFiniteSet({depth[b] : b \in L})
  <2> HIDE DEF depth
  <2> QED BY ImageFinite
<1>5. IsFiniteSet(all)
  <2>1. IsFiniteSet({f.drawdown})
    BY FS_Singleton
  <2> HIDE DEF depth
  <2> QED BY <1>4, <2>1, FS_Union
<1>6. all \in SUBSET Int /\ all # {}
  <2> HIDE DEF depth
  <2> QED BY <1>1, <1>2
<1>7. Max(all) \in all
  <2> HIDE DEF all
  <2> QED BY <1>5, <1>6, MaxOfFinite
<1>8. all = {f.drawdown} \cup {DrawdownAfter(f, pnl, b) : b \in L}
  OBVIOUS
<1>9. Max(all) \in Int
  <2> HIDE DEF all
  <2> QED BY <1>6, <1>7
<1> QED BY <1>8, <1>9 DEF DeepestOver

WonBy(pnl) == [pos \in DOMAIN pnl |-> Max({pnl[pos], 0})]
LostBy(pnl) == [pos \in DOMAIN pnl |-> Max({-pnl[pos], 0})]
TradesOf(exits, when) ==
    {[pair |-> pos.pair, in |-> pos.at, out |-> when, pnl |-> PnlOfExits(exits)[pos],
      reason |-> exits[pos].reason] : pos \in DOMAIN exits}

LEMMA WonAndLost ==
    ASSUME NEW L, IsFiniteSet(L), NEW pnl \in [L -> Int]
    PROVE  /\ SumFunction(WonBy(pnl)) \in Int /\ SumFunction(LostBy(pnl)) \in Int
           /\ SumFunction(pnl) = SumFunction(WonBy(pnl)) - SumFunction(LostBy(pnl))
<1>1. \A p \in Int : Max({p, 0}) \in Int /\ Max({-p, 0}) \in Int /\ p = Max({p, 0}) - Max({-p, 0})
  <2> TAKE p \in Int
  <2>1. /\ Max({p, 0}) \in {p, 0} /\ Max({p, 0}) >= p /\ Max({p, 0}) >= 0
    BY MaxOfTwo
  <2>2. PICK n \in Int : n = -p
    OBVIOUS
  <2>3. Max({n, 0}) \in {n, 0} /\ Max({n, 0}) >= n /\ Max({n, 0}) >= 0
    BY MaxOfTwo
  <2> QED BY <2>1, <2>2, <2>3
<1>2. WonBy(pnl) \in [L -> Int] /\ LostBy(pnl) \in [L -> Int]
  BY <1>1 DEF WonBy, LostBy
<1>3. \A x \in L : pnl[x] = WonBy(pnl)[x] - LostBy(pnl)[x]
  BY <1>1 DEF WonBy, LostBy
<1>4. SumFunction(WonBy(pnl)) \in Int /\ SumFunction(LostBy(pnl)) \in Int
  BY <1>2, SumInteger
<1>5. SumFunction(pnl) = SumFunction(WonBy(pnl)) - SumFunction(LostBy(pnl))
  BY <1>2, <1>3, SumDifference
<1> QED BY <1>4, <1>5

(* What closing leaves, part by part.                                       *)
Leaves(f, g, L, pnl, trades) ==
    /\ g = [available |-> g.available, deployed |-> g.deployed, realized |-> g.realized,
            open |-> g.open, trades |-> g.trades, won |-> g.won, lost |-> g.lost,
            peak |-> g.peak, drawdown |-> g.drawdown]
    /\ g.available = f.available + Notional * Cardinality(L) + SumFunction(pnl)
    /\ g.deployed = f.deployed - Notional * Cardinality(L)
    /\ g.realized = f.realized + SumFunction(pnl)
    /\ g.won = f.won + SumFunction(WonBy(pnl))
    /\ g.lost = f.lost + SumFunction(LostBy(pnl))
    /\ g.open = f.open \ L
    /\ g.trades = f.trades \cup trades
    /\ g.peak = PeakOver(f, pnl, L)
    /\ g.drawdown = DeepestOver(f, pnl, L)

LEMMA ClosedLeaves ==
    ASSUME NEW f \in Portfolio, NEW exits, NEW when \in Nat
    PROVE  Leaves(f, Closed(f, exits, when), DOMAIN exits, PnlOfExits(exits), TradesOf(exits, when))
<1> DEFINE L == DOMAIN exits
           pnl == PnlOfExits(exits)
           g == Closed(f, exits, when)
<1>1. DOMAIN pnl = L
  BY DEF PnlOfExits
<1>2. /\ WonBy(pnl) = [pos \in L |-> Max({pnl[pos], 0})] /\ LostBy(pnl) = [pos \in L |-> Max({-pnl[pos], 0})]
      /\ TradesOf(exits, when) = {[pair |-> pos.pair, in |-> pos.at, out |-> when, pnl |-> pnl[pos],
                                 reason |-> exits[pos].reason] : pos \in L}
  BY <1>1 DEF WonBy, LostBy, TradesOf
<1>3. g = [f EXCEPT
            !.available = @ + Notional * Cardinality(L) + SumFunction(pnl),
            !.deployed = @ - Notional * Cardinality(L),
            !.realized = @ + SumFunction(pnl),
            !.won = @ + SumFunction(WonBy(pnl)),
            !.lost = @ + SumFunction(LostBy(pnl)),
            !.open = @ \ L,
            !.trades = @ \cup TradesOf(exits, when),
            !.peak = Max({@} \cup {EquityAfter(f, pnl, b) : b \in L}),
            !.drawdown = Max({@} \cup {DrawdownAfter(f, pnl, b) : b \in L})]
  <2> HIDE DEF pnl
  <2> QED BY <1>2 DEF Closed, pnl
<1>4. f = [available |-> f.available, deployed |-> f.deployed, realized |-> f.realized,
           open |-> f.open, trades |-> f.trades, won |-> f.won, lost |-> f.lost,
           peak |-> f.peak, drawdown |-> f.drawdown]
  BY DEF Portfolio
<1> HIDE DEF L, pnl, g
<1>5. g = [available |-> f.available + Notional * Cardinality(L) + SumFunction(pnl),
           deployed |-> f.deployed - Notional * Cardinality(L),
           realized |-> f.realized + SumFunction(pnl),
           open |-> f.open \ L,
           trades |-> f.trades \cup TradesOf(exits, when),
           won |-> f.won + SumFunction(WonBy(pnl)),
           lost |-> f.lost + SumFunction(LostBy(pnl)),
           peak |-> Max({f.peak} \cup {EquityAfter(f, pnl, b) : b \in L}),
           drawdown |-> Max({f.drawdown} \cup {DrawdownAfter(f, pnl, b) : b \in L})]
  BY <1>3, <1>4
<1>6. Leaves(f, g, L, pnl, TradesOf(exits, when))
  BY <1>5 DEF Leaves, PeakOver, DeepestOver
<1> QED BY <1>6 DEF L, pnl, g

(* Everything that leaves in one step has left after the last of it.        *)
LEMMA AllLeft ==
    ASSUME NEW f \in Portfolio, NEW L \in SUBSET SimPosition, IsFiniteSet(L), L # {}, NEW pnl \in [L -> Int]
    PROVE  \E b \in L : EquityAfter(f, pnl, b) = f.available + f.deployed + SumFunction(pnl)
<1>1. PICK b \in L : \A a \in L : NoLater(a, b)
  BY LastLeaver
<1>2. LeftBy(L, b) = L /\ DOMAIN pnl = L
  BY <1>1 DEF LeftBy
<1>3. [a \in L |-> pnl[a]] = pnl
  OBVIOUS
<1>4. EquityAfter(f, pnl, b) = f.available + f.deployed + SumFunction(pnl)
  BY <1>2, <1>3 DEF EquityAfter
<1> QED BY <1>4

LEMMA ClosedTyped ==
    ASSUME NEW f \in Portfolio, IsFiniteSet(f.open), NEW exits, NEW when \in Nat, Leavable(f, exits, when)
    PROVE  Closed(f, exits, when) \in Portfolio /\ IsFiniteSet(Closed(f, exits, when).open)
<1> DEFINE L == DOMAIN exits
           pnl == PnlOfExits(exits)
           g == Closed(f, exits, when)
<1>1. L \in SUBSET SimPosition /\ IsFiniteSet(L) /\ pnl \in [L -> Int] /\ SumFunction(pnl) \in Int
  BY ExitsTyped
<1>2. SumFunction(WonBy(pnl)) \in Int /\ SumFunction(LostBy(pnl)) \in Int
  <2> HIDE DEF L, pnl
  <2> QED BY <1>1, WonAndLost
<1>3. Cardinality(L) \in Nat
  BY <1>1, FS_CardinalityType
<1>4. Notional * Cardinality(L) \in Int
  <2> HIDE DEF L
  <2> QED BY <1>3, SimNumbers
<1>5. /\ f.available \in Int /\ f.deployed \in Int /\ f.realized \in Int /\ f.won \in Int /\ f.lost \in Int
      /\ f.open \in SUBSET SimPosition /\ f.trades \in SUBSET SimTrade
  BY DEF Portfolio
<1>6. TradesOf(exits, when) \in SUBSET SimTrade
  <2>1. \A pos \in L : /\ pos.pair \in PairSet /\ pos.at \in Nat /\ pnl[pos] \in Int
                       /\ exits[pos].reason \in ExitReasons
    BY <1>1 DEF Leavable, SimPosition
  <2> QED BY <2>1 DEF TradesOf, SimTrade
<1>9. Leaves(f, g, L, pnl, TradesOf(exits, when))
  BY ClosedLeaves
<1> HIDE DEF L, pnl, g
<1>7. PeakOver(f, pnl, L) \in Nat \ {0}
  BY <1>1, PeakTyped
<1>8. DeepestOver(f, pnl, L) \in Int
  BY <1>1, DeepestTyped
<1>10. /\ g.available \in Int /\ g.deployed \in Int /\ g.realized \in Int /\ g.won \in Int /\ g.lost \in Int
  BY <1>1, <1>2, <1>4, <1>5, <1>9 DEF Leaves
<1>11. g.open \in SUBSET SimPosition /\ g.trades \in SUBSET SimTrade
  BY <1>5, <1>6, <1>9 DEF Leaves
<1>12. g.peak \in Nat \ {0} /\ g.drawdown \in Int
  BY <1>7, <1>8, <1>9 DEF Leaves
<1>13. g \in Portfolio
  <2> DEFINE whole(a, d, r, o, t, w, l, p, x) ==
               [available |-> a, deployed |-> d, realized |-> r, open |-> o, trades |-> t, won |-> w,
                lost |-> l, peak |-> p, drawdown |-> x]
  <2>1. \A a, d, r, w, l, x \in Int : \A o \in SUBSET SimPosition, t \in SUBSET SimTrade, p \in Nat \ {0} :
          whole(a, d, r, o, t, w, l, p, x) \in Portfolio
    BY DEF Portfolio
  <2>2. g = whole(g.available, g.deployed, g.realized, g.open, g.trades, g.won, g.lost, g.peak, g.drawdown)
    BY <1>9 DEF Leaves
  <2> HIDE DEF whole
  <2>3. whole(g.available, g.deployed, g.realized, g.open, g.trades, g.won, g.lost, g.peak, g.drawdown) \in Portfolio
    BY <1>10, <1>11, <1>12, <2>1
  <2> QED BY <2>2, <2>3
<1>14. IsFiniteSet(g.open)
  <2>1. g.open \in SUBSET f.open
    BY <1>9 DEF Leaves
  <2> QED BY <2>1, FS_Subset
<1> QED BY <1>13, <1>14 DEF g

LEMMA TimesDifference == \A n \in Nat : \A a, b \in Int : n * (a - b) = n * a - n * b
OBVIOUS

(* Closing makes and loses nothing but what the trades made.                *)
LEMMA ClosedConserved ==
    ASSUME NEW f \in Portfolio, IsFiniteSet(f.open), NEW exits, NEW when \in Nat, Leavable(f, exits, when),
           Conserved(f)
    PROVE  Conserved(Closed(f, exits, when)) /\ Cardinality(Closed(f, exits, when).open) <= Cardinality(f.open)
<1> DEFINE L == DOMAIN exits
           pnl == PnlOfExits(exits)
           g == Closed(f, exits, when)
<1>1. L \in SUBSET SimPosition /\ IsFiniteSet(L) /\ pnl \in [L -> Int] /\ SumFunction(pnl) \in Int
  BY ExitsTyped
<1>2. /\ SumFunction(WonBy(pnl)) \in Int /\ SumFunction(LostBy(pnl)) \in Int
      /\ SumFunction(pnl) = SumFunction(WonBy(pnl)) - SumFunction(LostBy(pnl))
  <2> HIDE DEF L, pnl
  <2> QED BY <1>1, WonAndLost
<1>3. Leaves(f, g, L, pnl, TradesOf(exits, when))
  BY ClosedLeaves
<1>4. /\ f.available \in Int /\ f.deployed \in Int /\ f.realized \in Int /\ f.won \in Int /\ f.lost \in Int
      /\ f.peak \in Nat
  BY DEF Portfolio
<1>5. L \subseteq f.open
  BY DEF Leavable
<1> HIDE DEF L, pnl, g
<1>6. Cardinality(g.open) = Cardinality(f.open) - Cardinality(L)
  <2>1. f.open \cap L = L
    BY <1>5
  <2>2. Cardinality(f.open \ L) = Cardinality(f.open) - Cardinality(f.open \cap L)
    BY FS_Difference
  <2>3. g.open = f.open \ L
    BY <1>3 DEF Leaves
  <2> QED BY <2>1, <2>2, <2>3
<1>7. Cardinality(f.open) \in Nat /\ Cardinality(L) \in Nat
  BY <1>1, FS_CardinalityType
<1>8. Notional * Cardinality(g.open) = Notional * Cardinality(f.open) - Notional * Cardinality(L)
  BY <1>6, <1>7, SimNumbers, TimesDifference
<1>9. Notional * Cardinality(f.open) \in Int /\ Notional * Cardinality(L) \in Int
  BY <1>7, SimNumbers
<1>10. /\ f.available + f.deployed = Bankroll + f.realized /\ f.deployed = Notional * Cardinality(f.open)
       /\ f.realized = f.won - f.lost /\ f.peak >= Bankroll + f.realized
  BY DEF Conserved
<1>11. /\ g.available + g.deployed = Bankroll + g.realized /\ g.deployed = Notional * Cardinality(g.open)
       /\ g.realized = g.won - g.lost
  <2> DEFINE nl == Notional * Cardinality(L)
             nf == Notional * Cardinality(f.open)
             ng == Notional * Cardinality(g.open)
  <2>1. /\ nl \in Int /\ nf \in Int /\ ng = nf - nl /\ f.deployed = nf
        /\ g.available = f.available + nl + SumFunction(pnl) /\ g.deployed = f.deployed - nl
    BY <1>3, <1>8, <1>9, <1>10 DEF Leaves
  <2>2. g.deployed = ng => g.deployed = Notional * Cardinality(g.open)
    OBVIOUS
  <2> HIDE DEF nl, nf, ng
  <2>3. /\ g.realized = f.realized + SumFunction(pnl) /\ g.won = f.won + SumFunction(WonBy(pnl))
        /\ g.lost = f.lost + SumFunction(LostBy(pnl))
    BY <1>3 DEF Leaves
  <2>4. g.available + g.deployed = Bankroll + g.realized
    <3>1. Bankroll \in Nat
      BY SimNumbers
    <3>2. g.available = f.available + nl + SumFunction(pnl) /\ g.deployed = f.deployed - nl
      BY <2>1
    <3>3. g.available + g.deployed = f.available + f.deployed + SumFunction(pnl)
      BY <1>1, <1>4, <2>1, <3>2
    <3> QED BY <1>1, <1>4, <1>10, <2>3, <3>1, <3>3
  <2>5. g.deployed = Notional * Cardinality(g.open)
    BY <1>10, <2>1, <2>2
  <2>6. g.realized = g.won - g.lost
    BY <1>2, <1>4, <1>10, <2>3
  <2> QED BY <2>4, <2>5, <2>6
<1>12. g.peak >= Bankroll + g.realized
  <2>1. /\ g.peak \in Nat \ {0} /\ g.peak >= f.peak
        /\ \A b \in L : g.peak >= EquityAfter(f, pnl, b)
    <3>1. g.peak = PeakOver(f, pnl, L)
      BY <1>3 DEF Leaves
    <3> QED BY <1>1, <3>1, PeakTyped
  <2>4. g.realized = f.realized + SumFunction(pnl)
    BY <1>3 DEF Leaves
  <2>2. CASE L = {}
    <3>1. SumFunction(pnl) = 0
      BY <1>1, <2>2, SumEmpty
    <3> QED BY <1>4, <1>10, <2>1, <2>4, <3>1, SimNumbers
  <2>3. CASE L # {}
    <3>1. PICK b \in L : EquityAfter(f, pnl, b) = f.available + f.deployed + SumFunction(pnl)
      BY <1>1, <2>3, AllLeft
    <3>2. g.peak >= f.available + f.deployed + SumFunction(pnl)
      BY <2>1, <3>1
    <3> QED BY <1>1, <1>4, <1>10, <2>1, <2>4, <3>2, SimNumbers
  <2> QED BY <2>2, <2>3
<1>13. Conserved(g)
  BY <1>11, <1>12 DEF Conserved
<1>14. Cardinality(g.open) <= Cardinality(f.open)
  BY <1>6, <1>7
<1> QED BY <1>13, <1>14 DEF g

(* What a step adds: trades of positions that were open, positions of now.  *)
Advances(f, g, when) ==
    /\ \A t \in g.trades : t \in f.trades \/ (t.out = when /\ \E pos \in f.open : t.in = pos.at)
    /\ \A pos \in g.open : pos \in f.open \/ pos.at = when

LEMMA ClosingKept ==
    ASSUME NEW f, NEW until \in Nat, Kept(f, until), NEW exits, NEW when \in Nat, until <= when, Leavable(f, exits, when)
    PROVE  Kept(Closed(f, exits, when), when) /\ Advances(f, Closed(f, exits, when), when)
<1> DEFINE g == Closed(f, exits, when)
           L == DOMAIN exits
<1>1. f \in Portfolio /\ IsFiniteSet(f.open) /\ Conserved(f) /\ OneAtATime(f)
  BY DEF Kept
<1>2. g \in Portfolio /\ IsFiniteSet(g.open) /\ Conserved(g) /\ Cardinality(g.open) <= Cardinality(f.open)
  BY <1>1, ClosedTyped, ClosedConserved
<1>3. g.open = f.open \ L /\ g.trades = f.trades \cup TradesOf(exits, when)
  BY <1>1, ClosedLeaves DEF Leaves
<1>4. f.open \in SUBSET SimPosition /\ f.trades \in SUBSET SimTrade
  BY <1>1 DEF Portfolio
<1>5. /\ \A pos \in f.open : pos.at \in Nat /\ pos.at <= until
      /\ \A t \in f.trades : t.in \in Nat /\ t.out \in Nat /\ t.out <= until
  BY <1>4 DEF Kept, SimPosition, SimTrade
<1>6. /\ \A a, b \in f.open : a.pair = b.pair => a = b
      /\ \A t \in f.trades : t.in < t.out \/ (t.in = t.out /\ t.reason = "SIMULATION_END")
      /\ \A a, b \in f.trades : a.pair = b.pair /\ a # b => a.out <= b.in \/ b.out <= a.in
      /\ \A t \in f.trades, pos \in f.open : t.pair = pos.pair => t.out <= pos.at
      /\ Cardinality(f.open) <= MaxPairs
  BY <1>1 DEF OneAtATime
<1>7. ASSUME NEW t \in TradesOf(exits, when)
      PROVE  \E pos \in L : /\ t.pair = pos.pair /\ t.in = pos.at /\ t.out = when
                            /\ t.pnl = PnlOfExits(exits)[pos] /\ t.reason = exits[pos].reason
                            /\ t = [pair |-> pos.pair, in |-> pos.at, out |-> when,
                                    pnl |-> PnlOfExits(exits)[pos], reason |-> exits[pos].reason]
  BY DEF TradesOf
<1>8. \A pos \in L : /\ pos \in f.open /\ pos.at <= when
                     /\ exits[pos].reason = "SIMULATION_END" \/ pos.at # when
  BY DEF Leavable
<1> HIDE DEF g, L
<1>9. Cardinality(g.open) <= MaxPairs
  <2>1. Cardinality(g.open) \in Nat /\ Cardinality(f.open) \in Nat
    BY <1>1, <1>2, FS_CardinalityType
  <2> QED BY <1>2, <1>6, <2>1, SimNumbers
<1>10. \A a, b \in g.open : a.pair = b.pair => a = b
  BY <1>3, <1>6
<1>11. ASSUME NEW t \in g.trades PROVE t.in < t.out \/ (t.in = t.out /\ t.reason = "SIMULATION_END")
  <2>1. CASE t \in f.trades
    BY <1>6, <2>1
  <2>2. CASE t \in TradesOf(exits, when)
    <3>1. PICK pos \in L : t.in = pos.at /\ t.out = when /\ t.reason = exits[pos].reason
      BY <1>7, <2>2
    <3>2. pos.at \in Nat /\ pos.at <= when /\ (exits[pos].reason = "SIMULATION_END" \/ pos.at # when)
      BY <1>5, <1>8
    <3> QED BY <3>1, <3>2
  <2> QED BY <1>3, <2>1, <2>2
<1>12. ASSUME NEW a \in g.trades, NEW b \in g.trades, a.pair = b.pair, a # b
       PROVE  a.out <= b.in \/ b.out <= a.in
  <2>1. ASSUME NEW old \in f.trades, NEW new \in TradesOf(exits, when), old.pair = new.pair
        PROVE  old.out <= new.in
    <3>1. PICK pos \in L : new.pair = pos.pair /\ new.in = pos.at
      BY <1>7
    <3> QED BY <1>6, <1>8, <2>1, <3>1
  <2>2. CASE a \in TradesOf(exits, when) /\ b \in TradesOf(exits, when)
    <3>1. PICK p \in L : a = [pair |-> p.pair, in |-> p.at, out |-> when, pnl |-> PnlOfExits(exits)[p],
                              reason |-> exits[p].reason] /\ a.pair = p.pair
      BY <1>7, <2>2
    <3>2. PICK q \in L : b = [pair |-> q.pair, in |-> q.at, out |-> when, pnl |-> PnlOfExits(exits)[q],
                              reason |-> exits[q].reason] /\ b.pair = q.pair
      BY <1>7, <2>2
    <3>3. p = q
      BY <1>6, <1>8, <1>12, <3>1, <3>2
    <3> QED BY <1>12, <3>1, <3>2, <3>3
  <2> QED BY <1>3, <1>6, <1>12, <2>1, <2>2
<1>13. ASSUME NEW t \in g.trades, NEW pos \in g.open, t.pair = pos.pair PROVE t.out <= pos.at
  <2>1. CASE t \in f.trades
    BY <1>3, <1>6, <1>13, <2>1
  <2>2. CASE t \in TradesOf(exits, when)
    <3>1. PICK p \in L : t.pair = p.pair
      BY <1>7, <2>2
    <3>2. p = pos
      BY <1>3, <1>6, <1>8, <1>13, <3>1
    <3> QED BY <1>3, <3>2
  <2> QED BY <1>3, <2>1, <2>2
<1>14. OneAtATime(g)
  BY <1>9, <1>10, <1>11, <1>12, <1>13 DEF OneAtATime
<1>15. \A pos \in g.open : pos.at <= when
  BY <1>3, <1>5
<1>16. \A t \in g.trades : t.out <= when
  BY <1>3, <1>5, <1>7
<1>17. Advances(f, g, when)
  BY <1>3, <1>7, <1>8 DEF Advances
<1>18. Kept(g, when)
  BY <1>2, <1>14, <1>15, <1>16 DEF Kept
<1> QED BY <1>17, <1>18 DEF g

LEMMA ExitsLeave ==
    ASSUME NEW f, NEW until \in Nat, Kept(f, until), NEW when \in Nat, until < when, NEW quotes, Quoted(quotes), NEW depth
    PROVE  Kept(EvaluateExits(f, when, quotes, depth), when) /\ Advances(f, EvaluateExits(f, when, quotes, depth), when)
<1> DEFINE reason == [pos \in f.open |-> IF quotes[pos.pair] = <<>> THEN "none"
                                         ELSE ExitReason(pos, quotes[pos.pair], when, depth[pos.pair])]
           leaving == {pos \in f.open : reason[pos] # "none"}
           exits == [pos \in leaving |-> [reason |-> reason[pos],
                                          quote |-> ExitQuote(quotes[pos.pair], reason[pos])]]
<1>1. EvaluateExits(f, when, quotes, depth) = Closed(f, exits, when)
  BY DEF EvaluateExits
<1>2. f.open \in SUBSET SimPosition /\ \A pos \in f.open : pos.at <= until /\ pos.at \in Nat /\ pos.pair \in PairSet
  BY DEF Kept, Portfolio, SimPosition
<1>3. ASSUME NEW pos \in leaving
      PROVE  exits[pos].quote \in Int \X Int /\ exits[pos].reason \in ExitReasons /\ pos.at <= when /\ pos.at # when
  <2>1. quotes[pos.pair] # <<>> /\ reason[pos] = ExitReason(pos, quotes[pos.pair], when, depth[pos.pair])
    OBVIOUS
  <2>2. quotes[pos.pair] \in Nat \X Nat
    BY <1>2, <2>1 DEF Quoted
  <2>3. reason[pos] \in ExitReasons
    BY <2>1 DEF ExitReason, ExitReasons
  <2>4. reason[pos] = "RESOLUTION_FORCE_CLOSE" => ResolutionPrice(quotes[pos.pair]) # {}
    BY <2>1 DEF ExitReason
  <2>5. exits[pos].quote = ExitQuote(quotes[pos.pair], reason[pos]) /\ exits[pos].reason = reason[pos]
    OBVIOUS
  <2> HIDE DEF reason, exits
  <2>6. ExitQuote(quotes[pos.pair], reason[pos]) \in Int \X Int
    BY <2>2, <2>4, ExitQuoteTyped
  <2>7. pos.at <= when /\ pos.at # when
    BY <1>2
  <2> QED BY <2>3, <2>5, <2>6, <2>7
<1>4. DOMAIN exits = leaving /\ leaving \subseteq f.open
  OBVIOUS
<1> HIDE DEF exits, leaving
<1>5. Leavable(f, exits, when)
  BY <1>3, <1>4 DEF Leavable
<1>6. Kept(Closed(f, exits, when), when) /\ Advances(f, Closed(f, exits, when), when)
  BY <1>5, ClosingKept
<1> QED BY <1>1, <1>6

(* At the end everything is closed.                                         *)
LEMMA AllClosed ==
    ASSUME NEW f, NEW step, step.at \in Nat, Kept(f, step.at), Quoted(step.quotes)
    PROVE  /\ Kept(ClosePositions(f, step), step.at) /\ Advances(f, ClosePositions(f, step), step.at)
           /\ ClosePositions(f, step).open = {}
<1> DEFINE exits == [pos \in f.open |-> [reason |-> "SIMULATION_END",
                                         quote |-> IF step.quotes[pos.pair] = <<>> THEN pos.quote
                                                   ELSE step.quotes[pos.pair]]]
<1>1. ClosePositions(f, step) = Closed(f, exits, step.at)
  BY DEF ClosePositions
<1>2. f.open \in SUBSET SimPosition /\ \A pos \in f.open : pos.at <= step.at /\ f \in Portfolio
  BY DEF Kept, Portfolio
<1>3. ASSUME NEW pos \in f.open PROVE exits[pos].quote \in Int \X Int /\ exits[pos].reason = "SIMULATION_END"
  <2>1. pos.quote \in Int \X Int /\ pos.pair \in PairSet
    BY <1>2 DEF SimPosition
  <2>2. step.quotes[pos.pair] = <<>> \/ step.quotes[pos.pair] \in Nat \X Nat
    BY <2>1 DEF Quoted
  <2>3. step.quotes[pos.pair] \in Nat \X Nat => step.quotes[pos.pair] \in Int \X Int
    OBVIOUS
  <2> QED BY <2>1, <2>2, <2>3
<1>4. DOMAIN exits = f.open
  OBVIOUS
<1> HIDE DEF exits
<1>5. Leavable(f, exits, step.at)
  BY <1>2, <1>3, <1>4 DEF Leavable, ExitReasons
<1>6. Kept(Closed(f, exits, step.at), step.at) /\ Advances(f, Closed(f, exits, step.at), step.at)
  BY <1>5, ClosingKept
<1>7. Closed(f, exits, step.at).open = {}
  <2>1. f \in Portfolio
    BY DEF Kept
  <2>2. Closed(f, exits, step.at).open = f.open \ DOMAIN exits
    BY <2>1, ClosedLeaves DEF Leaves
  <2> QED BY <1>4, <2>2
<1> QED BY <1>1, <1>6, <1>7

(* A pair has one place.                                                    *)
LEMMA OnePlace ==
    /\ IsFiniteSet(DOMAIN SimPairs) /\ DOMAIN SimPairs \subseteq Nat
    /\ \A i \in DOMAIN SimPairs : SimPairs[i] \in PairSet
    /\ \A i, j \in DOMAIN SimPairs : SimPairs[i] = SimPairs[j] => i = j
<1>1. DOMAIN SimPairs = 1 .. Len(SimPairs) /\ Len(SimPairs) \in Nat
  BY SimConstants, LenProperties
<1>2. IsFiniteSet(DOMAIN SimPairs) /\ DOMAIN SimPairs \subseteq Nat
  <2>1. IsFiniteSet(1 .. Len(SimPairs))
    BY <1>1, FS_Interval
  <2> QED BY <1>1, <2>1
<1>3. \A i \in DOMAIN SimPairs : SimPairs[i] \in PairSet
  BY DEF PairSet, Range
<1>4. \A i, j \in DOMAIN SimPairs : SimPairs[i] = SimPairs[j] => i = j
  BY SimConstants DEF IsInjective
<1> QED BY <1>2, <1>3, <1>4

(* There is room for those that are taken.                                  *)
LEMMA TakenFit ==
    ASSUME NEW f, IsFiniteSet(f.open), Cardinality(f.open) <= MaxPairs, NEW worth \in SUBSET (DOMAIN SimPairs)
    PROVE  /\ Taken(f, worth) \subseteq worth /\ IsFiniteSet(Taken(f, worth))
           /\ Cardinality(f.open) + Cardinality(Taken(f, worth)) <= MaxPairs
<1> DEFINE Rank(i) == Cardinality({j \in worth : j <= i})
           taken == Taken(f, worth)
<1>1. taken \subseteq worth /\ \A i \in taken : Cardinality(f.open) + Rank(i) <= MaxPairs
  BY DEF Taken
<1>2. IsFiniteSet(worth) /\ worth \subseteq Nat
  BY OnePlace, FS_Subset
<1>3. IsFiniteSet(taken) /\ taken \subseteq Nat
  BY <1>1, <1>2, FS_Subset
<1>4. Cardinality(f.open) \in Nat
  BY FS_CardinalityType
<1>5. Cardinality(f.open) + Cardinality(taken) <= MaxPairs
  <2>1. CASE taken = {}
    <3>1. Cardinality(taken) = 0
      BY <2>1, FS_EmptySet
    <3> HIDE DEF taken
    <3> QED BY <1>4, <3>1
  <2>2. CASE taken # {}
    <3> DEFINE m == Max(taken)
               upto == {j \in worth : j <= m}
    <3>1. m \in taken /\ \A i \in taken : m >= i
      <4> HIDE DEF taken
      <4>1. taken \in SUBSET Int
        BY <1>3
      <4> QED BY <1>3, <2>2, <4>1, MaxOfFinite
    <3>2. taken \in SUBSET upto /\ upto \in SUBSET worth
      <4>1. \A i \in taken : i <= m
        <5> HIDE DEF taken, m
        <5> QED BY <1>3, <3>1
      <4> HIDE DEF taken, m
      <4> QED BY <1>1, <4>1
    <3>3. IsFiniteSet(upto)
      <4> HIDE DEF taken, upto, m
      <4> QED BY <1>2, <3>2, FS_Subset
    <3>4. Cardinality(taken) <= Cardinality(upto)
      <4> HIDE DEF taken, upto, m
      <4> QED BY <3>2, <3>3, FS_Subset
    <3>5. Cardinality(upto) = Rank(m)
      OBVIOUS
    <3>6. Cardinality(f.open) + Cardinality(upto) <= MaxPairs
      <4> HIDE DEF taken, m
      <4> QED BY <1>1, <3>1, <3>5
    <3>7. Cardinality(taken) \in Nat /\ Cardinality(upto) \in Nat
      <4> HIDE DEF taken, upto, m
      <4> QED BY <1>3, <3>3, FS_CardinalityType
    <3> HIDE DEF taken, upto, m
    <3> QED BY <1>4, <3>4, <3>6, <3>7, SimNumbers
  <2> QED BY <2>1, <2>2
<1> QED BY <1>1, <1>3, <1>5

LEMMA EntriesKept ==
    ASSUME NEW f, NEW when \in Nat \ {0}, Kept(f, when), NEW quotes, Quoted(quotes), NEW depth
    PROVE  /\ Kept(DetectOpportunities(f, when, quotes, depth), when)
           /\ DetectOpportunities(f, when, quotes, depth).trades = f.trades
           /\ \A pos \in DetectOpportunities(f, when, quotes, depth).open : pos \in f.open \/ pos.at = when
<1> DEFINE worth == Worth(f, quotes, depth)
           taken == Taken(f, worth)
           entry == [i \in taken |-> Entry(SimPairs[i], when, quotes[SimPairs[i]])]
           entries == {entry[i] : i \in taken}
           g == DetectOpportunities(f, when, quotes, depth)
<1>1. f \in Portfolio /\ IsFiniteSet(f.open) /\ Conserved(f) /\ OneAtATime(f)
  BY DEF Kept
<1>2. /\ f.available \in Int /\ f.deployed \in Int /\ f.realized \in Int /\ f.won \in Int /\ f.lost \in Int
      /\ f.open \in SUBSET SimPosition /\ f.trades \in SUBSET SimTrade
      /\ f.peak \in Nat \ {0} /\ f.drawdown \in Int
  BY <1>1 DEF Portfolio
<1>3. worth \in SUBSET (DOMAIN SimPairs)
  BY DEF Worth
<1>4. Cardinality(f.open) <= MaxPairs
  BY <1>1 DEF OneAtATime
<1>5. /\ taken \subseteq worth /\ IsFiniteSet(taken)
      /\ Cardinality(f.open) + Cardinality(taken) <= MaxPairs
  <2> HIDE DEF worth
  <2> QED BY <1>1, <1>3, <1>4, TakenFit
<1>6. ASSUME NEW i \in taken
      PROVE  /\ entry[i] \in SimPosition /\ entry[i].at = when /\ entry[i].pair = SimPairs[i]
             /\ \A pos \in f.open : pos.pair # SimPairs[i]
  <2>1. i \in DOMAIN SimPairs /\ SimPairs[i] \in PairSet
    BY <1>3, <1>5, OnePlace
  <2>2. quotes[SimPairs[i]] # <<>> /\ \A pos \in f.open : pos.pair # SimPairs[i]
    BY <1>5 DEF Worth
  <2>3. quotes[SimPairs[i]] \in Nat \X Nat
    BY <2>1, <2>2 DEF Quoted
  <2>4. entry[i] = Entry(SimPairs[i], when, quotes[SimPairs[i]])
    OBVIOUS
  <2> HIDE DEF entry, taken
  <2>5. Entry(SimPairs[i], when, quotes[SimPairs[i]]) \in SimPosition
    BY <2>1, <2>3, EntryTyped
  <2> QED BY <2>2, <2>4, <2>5 DEF Entry
<1>7. g = [f EXCEPT !.available = @ - Notional * Cardinality(taken),
                    !.deployed = @ + Notional * Cardinality(taken),
                    !.open = @ \cup entries]
  BY DEF DetectOpportunities
<1> HIDE DEF worth, taken, entry, entries, g
<1>8. Cardinality(taken) \in Nat /\ Cardinality(f.open) \in Nat
  BY <1>1, <1>5, FS_CardinalityType
<1>9. Notional * Cardinality(taken) \in Int /\ Notional * Cardinality(f.open) \in Int
  BY <1>8, SimNumbers
<1>10. IsFiniteSet(entries) /\ Cardinality(entries) = Cardinality(taken)
  <2>1. \A i, j \in taken : entry[i] = entry[j] => i = j
    BY <1>3, <1>5, <1>6, OnePlace
  <2> QED BY <1>5, <2>1, ImageCounted DEF entries
<1>11. entries \in SUBSET SimPosition /\ f.open \cap entries = {}
  BY <1>6 DEF entries
<1>12. IsFiniteSet(f.open \cup entries) /\ Cardinality(f.open \cup entries) = Cardinality(f.open) + Cardinality(taken)
  <2>1. /\ IsFiniteSet(f.open \cup entries)
        /\ Cardinality(f.open \cup entries)
             = Cardinality(f.open) + Cardinality(entries) - Cardinality(f.open \cap entries)
    BY <1>1, <1>10, FS_Union
  <2>2. Cardinality(f.open \cap entries) = 0
    BY <1>11, FS_EmptySet
  <2> QED BY <1>8, <1>10, <2>1, <2>2
<1>13. /\ g \in Portfolio
       /\ g.available = f.available - Notional * Cardinality(taken)
       /\ g.deployed = f.deployed + Notional * Cardinality(taken)
       /\ g.open = f.open \cup entries /\ g.trades = f.trades
       /\ g.realized = f.realized /\ g.won = f.won /\ g.lost = f.lost /\ g.peak = f.peak
  <2>1. f.open \cup entries \in SUBSET SimPosition
    BY <1>2, <1>11
  <2>2. f.available - Notional * Cardinality(taken) \in Int /\ f.deployed + Notional * Cardinality(taken) \in Int
    BY <1>2, <1>9
  <2> QED BY <1>1, <1>7, <2>1, <2>2 DEF Portfolio
<1>14. Conserved(g)
  <2>1. Notional * (Cardinality(f.open) + Cardinality(taken))
          = Notional * Cardinality(f.open) + Notional * Cardinality(taken)
    BY <1>8, SimNumbers
  <2>2. Notional * Cardinality(g.open) = Notional * Cardinality(f.open) + Notional * Cardinality(taken)
    BY <1>12, <1>13, <2>1
  <2>3. /\ f.available + f.deployed = Bankroll + f.realized /\ f.deployed = Notional * Cardinality(f.open)
        /\ f.realized = f.won - f.lost /\ f.peak >= Bankroll + f.realized
    BY <1>1 DEF Conserved
  <2>4. g.available + g.deployed = Bankroll + g.realized
    BY <1>2, <1>9, <1>13, <2>3, SimNumbers
  <2>5. g.deployed = Notional * Cardinality(g.open)
    BY <1>13, <2>2, <2>3
  <2> QED BY <1>13, <2>3, <2>4, <2>5 DEF Conserved
<1>15. \A pos \in entries : \E i \in taken : pos = entry[i]
  BY DEF entries
<1>16. OneAtATime(g)
  <2>1. Cardinality(g.open) <= MaxPairs
    BY <1>5, <1>12, <1>13
  <2>2. \A t \in f.trades : t.out \in Nat /\ t.out <= when
    BY <1>2 DEF Kept, SimTrade
  <2>3. ASSUME NEW a \in g.open, NEW b \in g.open, a.pair = b.pair PROVE a = b
    <3>1. CASE a \in f.open /\ b \in f.open
      BY <1>1, <2>3, <3>1 DEF OneAtATime
    <3>2. CASE a \in entries /\ b \in entries
      <4>1. PICK i \in taken : a = entry[i]
        BY <1>15, <3>2
      <4>2. PICK j \in taken : b = entry[j]
        BY <1>15, <3>2
      <4> QED BY <1>3, <1>5, <1>6, <2>3, <4>1, <4>2, OnePlace
    <3> QED BY <1>6, <1>13, <1>15, <2>3, <3>1, <3>2
  <2>4. ASSUME NEW t \in g.trades, NEW pos \in g.open, t.pair = pos.pair PROVE t.out <= pos.at
    <3>1. CASE pos \in f.open
      BY <1>1, <1>13, <2>4, <3>1 DEF OneAtATime
    <3>2. CASE pos \in entries
      BY <1>6, <1>13, <1>15, <2>2, <3>2
    <3> QED BY <1>13, <3>1, <3>2
  <2> QED BY <1>1, <1>13, <2>1, <2>3, <2>4 DEF OneAtATime
<1>17. \A pos \in g.open : pos.at <= when /\ (pos \in f.open \/ pos.at = when)
  BY <1>6, <1>13, <1>15 DEF Kept
<1>18. Kept(g, when)
  <2>1. \A t \in g.trades : t.out <= when
    BY <1>13 DEF Kept
  <2>2. IsFiniteSet(g.open)
    BY <1>12, <1>13
  <2> QED BY <1>13, <1>14, <1>16, <1>17, <2>1, <2>2 DEF Kept
<1> QED BY <1>13, <1>17, <1>18 DEF g

LEMMA MarkedKept ==
    ASSUME NEW f, NEW when \in Nat, Kept(f, when), NEW quotes, Quoted(quotes)
    PROVE  /\ Kept(UpdateEquity(f, quotes), when)
           /\ UpdateEquity(f, quotes).open = f.open /\ UpdateEquity(f, quotes).trades = f.trades
<1> DEFINE marked == {pos \in f.open : quotes[pos.pair] # <<>>}
           pnl == [pos \in marked |-> PnlOf(pos, quotes[pos.pair][1], quotes[pos.pair][2])]
           equity == f.available + f.deployed + SumFunction(pnl)
           peak == Max({f.peak, equity})
           drawdown == Max({f.drawdown, DrawdownFrom(peak, equity)})
           g == [f EXCEPT !.peak = peak, !.drawdown = drawdown]
<1>1. UpdateEquity(f, quotes) = g
  BY DEF UpdateEquity, Marked
<1>2. f \in Portfolio /\ IsFiniteSet(f.open) /\ Conserved(f) /\ OneAtATime(f)
  BY DEF Kept
<1>3. /\ f.available \in Int /\ f.deployed \in Int /\ f.realized \in Int
      /\ f.open \in SUBSET SimPosition /\ f.peak \in Nat \ {0} /\ f.drawdown \in Int
  BY <1>2 DEF Portfolio
<1>4. ASSUME NEW pos \in marked PROVE PnlOf(pos, quotes[pos.pair][1], quotes[pos.pair][2]) \in Int
  <2>1. pos \in SimPosition /\ pos.pair \in PairSet
    BY <1>3 DEF SimPosition
  <2>2. quotes[pos.pair] \in Nat \X Nat
    BY <2>1 DEF Quoted
  <2>3. quotes[pos.pair][1] \in Int /\ quotes[pos.pair][2] \in Int
    BY <2>2
  <2> QED BY <2>1, <2>3, PnlTyped
<1>5. marked \in SUBSET f.open /\ pnl \in [marked -> Int]
  BY <1>4
<1>6. SumFunction(pnl) \in Int
  <2> HIDE DEF marked, pnl
  <2>1. IsFiniteSet(marked)
    BY <1>2, <1>5, FS_Subset
  <2> QED BY <1>5, <2>1, SumInteger
<1>7. equity \in Int
  <2> HIDE DEF pnl
  <2> QED BY <1>3, <1>6
<1>8. peak \in Nat \ {0} /\ peak >= f.peak
  <2> HIDE DEF equity
  <2>1. f.peak \in Int
    BY <1>3
  <2>2. peak \in Int /\ peak >= f.peak
    BY <1>7, <2>1, MaxOfTwo
  <2> HIDE DEF peak
  <2> QED BY <1>3, <2>2
<1>9. drawdown \in Int
  <2> HIDE DEF equity, peak
  <2>1. DrawdownFrom(peak, equity) \in Int
    BY <1>7, <1>8, DrawdownTyped
  <2> QED BY <1>3, <2>1, MaxOfTwo
<1> HIDE DEF marked, pnl, equity, peak, drawdown
<1>10. /\ g \in Portfolio /\ g.available = f.available /\ g.deployed = f.deployed /\ g.realized = f.realized
       /\ g.open = f.open /\ g.trades = f.trades /\ g.won = f.won /\ g.lost = f.lost /\ g.peak = peak
  BY <1>2, <1>8, <1>9 DEF Portfolio
<1> HIDE DEF g
<1>11. Conserved(g)
  <2>1. g.peak >= Bankroll + g.realized
    BY <1>2, <1>3, <1>8, <1>10, SimNumbers DEF Conserved
  <2> QED BY <1>2, <1>10, <2>1 DEF Conserved
<1>12. OneAtATime(g)
  BY <1>2, <1>10 DEF OneAtATime
<1>13. Kept(g, when)
  BY <1>10, <1>11, <1>12 DEF Kept
<1> QED BY <1>1, <1>10, <1>13

(* A step of the simulation.                                                *)
LEMMA StepKept ==
    ASSUME NEW f, NEW until \in Nat, Kept(f, until), NEW when \in Nat \ {0}, until < when,
           NEW quotes, Quoted(quotes), NEW depth
    PROVE  Kept(SimulationStep(f, when, quotes, depth), when) /\ Advances(f, SimulationStep(f, when, quotes, depth), when)
<1> DEFINE e == EvaluateExits(f, when, quotes, depth)
           d == DetectOpportunities(e, when, quotes, depth)
           u == UpdateEquity(d, quotes)
<1>1. Kept(e, when) /\ Advances(f, e, when)
  BY ExitsLeave
<1> HIDE DEF e
<1>2. Kept(d, when) /\ d.trades = e.trades /\ \A pos \in d.open : pos \in e.open \/ pos.at = when
  BY <1>1, EntriesKept
<1> HIDE DEF d
<1>3. Kept(u, when) /\ u.open = d.open /\ u.trades = d.trades
  BY <1>2, MarkedKept
<1>4. SimulationStep(f, when, quotes, depth) = u
  BY DEF SimulationStep, e, d
<1> HIDE DEF u
<1>5. Advances(f, u, when)
  BY <1>1, <1>2, <1>3 DEF Advances
<1> QED BY <1>3, <1>4, <1>5

LEMMA QuotesTyped == \A quotes \in Quotes : Quoted(quotes)
BY SimConstants DEF Quoted

LEMMA NoStepQuoted == NoStep.at = 0 /\ Quoted(NoStep.quotes)
BY DEF NoStep, NoQuotes, Quoted

LEMMA FreshKept == Kept(Fresh, 0) /\ Fresh.open = {} /\ Fresh.trades = {}
<1>1. Fresh.open = {} /\ Fresh.trades = {}
  BY DEF Fresh
<1>2. IsFiniteSet(Fresh.open) /\ Cardinality(Fresh.open) = 0
  BY <1>1, FS_EmptySet
<1>3. Fresh \in Portfolio
  BY SimNumbers DEF Fresh, Portfolio
<1>4. Conserved(Fresh)
  <2>1. /\ Fresh.available = Bankroll /\ Fresh.deployed = 0 /\ Fresh.realized = 0 /\ Fresh.won = 0
        /\ Fresh.lost = 0 /\ Fresh.peak = Bankroll
    BY DEF Fresh
  <2>2. Notional * Cardinality(Fresh.open) = 0
    BY <1>2, SimNumbers
  <2> QED BY <2>1, <2>2, SimNumbers DEF Conserved
<1>5. OneAtATime(Fresh)
  BY <1>1, <1>2, SimNumbers DEF OneAtATime
<1> QED BY <1>1, <1>2, <1>3, <1>4, <1>5 DEF Kept

LEMMA SimStarts == SimInit => SimInv
<1> SUFFICES ASSUME SimInit PROVE SimInv
  OBVIOUS
<1>1. SimTypeOK
  BY SimNumbers DEF SimInit, SimTypeOK
<1>2. over = FALSE /\ over \in BOOLEAN
  BY Zenon DEF SimInit
<1>3. now = 0 /\ last = NoStep /\ lastTrain = NoStep /\ lastTest = NoStep
  BY DEF SimInit
<1>4. LastOf(last) /\ LastOf(lastTrain) /\ LastOf(lastTest)
  BY <1>3, NoStepQuoted DEF LastOf
<1>5. main = Fresh /\ train = Fresh /\ test = Fresh
  BY DEF SimInit
<1> QED BY <1>1, <1>2, <1>3, <1>4, <1>5, FreshKept, NoStepQuoted DEF SimInv

LEMMA ChunkBounds ==
    ASSUME SimTypeOK, chunkEnd < LastStep
    PROVE  Min({chunkEnd + ChunkLength, LastStep}) \in chunkEnd .. LastStep
<1>1. chunkEnd \in Nat /\ chunkEnd + ChunkLength \in Nat /\ LastStep \in Nat /\ chunkEnd + ChunkLength >= chunkEnd
  BY SimNumbers DEF SimTypeOK
<1> DEFINE a == chunkEnd + ChunkLength
<1>2. a \in Nat /\ a >= chunkEnd
  BY <1>1
<1> HIDE DEF a
<1>3. Min({a, LastStep}) \in {a, LastStep} /\ Min({a, LastStep}) <= a /\ Min({a, LastStep}) <= LastStep
  BY <1>1, <1>2, MinOfTwo
<1>4. Min({a, LastStep}) \in chunkEnd .. LastStep
  BY <1>1, <1>2, <1>3
<1> QED BY <1>4 DEF a

(* Where the portfolios and their last steps are left alone.                *)
LEMMA SimRests ==
    ASSUME SimInv, SimTypeOK', now' >= now,
           UNCHANGED <<last, lastTrain, lastTest, main, train, test, over>>
    PROVE  SimInv'
<1>1. now \in Nat /\ now' \in Nat
  BY SimNumbers DEF SimInv, SimTypeOK
<1>2. LastOf(last)' /\ LastOf(lastTrain)' /\ LastOf(lastTest)'
  BY <1>1 DEF SimInv, LastOf
<1>3. (over \in BOOLEAN)'
  BY Zenon DEF SimInv
<1> QED BY <1>2, <1>3 DEF SimInv

LEMMA BeginChunkKeeps == ASSUME SimInv, BeginChunk PROVE SimInv'
<1>1. Min({chunkEnd + ChunkLength, LastStep}) \in chunkEnd .. LastStep
  BY ChunkBounds DEF SimInv, BeginChunk
<1>2. now \in 0 .. LastStep /\ chunkEnd \in now .. LastStep /\ now' = now /\ chunkEnd' \in chunkEnd .. LastStep
  BY <1>1 DEF SimInv, SimTypeOK, BeginChunk
<1>3. now' \in 0 .. LastStep /\ chunkEnd' \in now' .. LastStep
  BY <1>2, SimNumbers
<1>4. cache' \in {"eager", "lazy", "failed"} /\ {seen, visible}' \subseteq [PairSet -> {"none", "deep", "empty"}]
  BY DEF SimInv, SimTypeOK, BeginChunk
<1>5. SimTypeOK'
  BY <1>3, <1>4 DEF SimTypeOK
<1>6. now' >= now
  BY <1>2, SimNumbers
<1> QED BY <1>5, <1>6, SimRests DEF BeginChunk

LEMMA SkipChunkKeeps == ASSUME SimInv, SkipChunk PROVE SimInv'
<1>1. Min({chunkEnd + ChunkLength, LastStep}) \in chunkEnd .. LastStep
  BY ChunkBounds DEF SimInv, SkipChunk
<1>2. now \in 0 .. LastStep /\ now = chunkEnd /\ now' = chunkEnd' /\ chunkEnd' \in chunkEnd .. LastStep
  BY <1>1 DEF SimInv, SimTypeOK, SkipChunk
<1>3. now' \in 0 .. LastStep /\ chunkEnd' \in now' .. LastStep /\ now' >= now
  BY <1>2, SimNumbers
<1>4. cache' \in {"eager", "lazy", "failed"} /\ {seen, visible}' \subseteq [PairSet -> {"none", "deep", "empty"}]
  BY DEF SimInv, SimTypeOK, SkipChunk
<1>5. SimTypeOK'
  BY <1>3, <1>4 DEF SimTypeOK
<1> QED BY <1>3, <1>5, SimRests DEF SkipChunk

(* A portfolio that a step trains or tests is one of its side of the split. *)
LEMMA StepKeeps == ASSUME SimInv, Step PROVE SimInv'
<1>1. /\ now \in Nat /\ now' = now + 1 /\ now' \in Nat \ {0} /\ now' \in 0 .. LastStep
      /\ chunkEnd' \in now' .. LastStep
  BY SimNumbers DEF SimInv, SimTypeOK, Step
<1>2. ~over /\ over' = over /\ cache' = cache
  BY DEF Step
<1>3. PICK quotes \in Quotes, fresh \in SUBSET PairSet, book \in {"deep", "empty"} :
        /\ seen' = [p \in PairSet |-> IF p \in fresh THEN book ELSE seen[p]]
        /\ visible' = [p \in PairSet |-> IF p \in fresh /\ cache # "failed" THEN book ELSE visible[p]]
        /\ IF quotes = NoQuotes
           THEN UNCHANGED <<last, lastTrain, lastTest, main, train, test>>
           ELSE LET this == [at |-> now', quotes |-> quotes] IN
                /\ main' = SimulationStep(main, now', quotes, visible')
                /\ last' = this
                /\ IF IsTrain(now')
                   THEN /\ train' = SimulationStep(train, now', quotes, visible')
                        /\ lastTrain' = this /\ UNCHANGED <<test, lastTest>>
                   ELSE /\ test' = SimulationStep(test, now', quotes, visible')
                        /\ lastTest' = this /\ UNCHANGED <<train, lastTrain>>
  BY DEF Step
<1>4. SimTypeOK'
  <2>1. {seen, visible} \subseteq [PairSet -> {"none", "deep", "empty"}]
    BY DEF SimInv, SimTypeOK
  <2>2. seen' \in [PairSet -> {"none", "deep", "empty"}]
    BY <1>3, <2>1
  <2>3. visible' \in [PairSet -> {"none", "deep", "empty"}]
    BY <1>3, <2>1
  <2>4. cache' \in {"eager", "lazy", "failed"}
    BY <1>2 DEF SimInv, SimTypeOK
  <2> QED BY <1>1, <2>2, <2>3, <2>4 DEF SimTypeOK
<1>5. CASE quotes = NoQuotes
  <2>1. UNCHANGED <<last, lastTrain, lastTest, main, train, test>>
    BY <1>3, <1>5
  <2>2. now' >= now
    BY <1>1
  <2> QED BY <1>2, <1>4, <2>1, <2>2, SimRests
<1>6. CASE quotes # NoQuotes
  <2> DEFINE when == now'
             depth == visible'
             this == [at |-> when, quotes |-> quotes]
  <2>1. /\ main' = SimulationStep(main, when, quotes, depth) /\ last' = this
        /\ IsTrain(when) => /\ train' = SimulationStep(train, when, quotes, depth) /\ lastTrain' = this
                          /\ test' = test /\ lastTest' = lastTest
        /\ ~IsTrain(when) => /\ test' = SimulationStep(test, when, quotes, depth) /\ lastTest' = this
                           /\ train' = train /\ lastTrain' = lastTrain
    BY <1>3, <1>6
  <2>2. when \in Nat \ {0} /\ when = now + 1 /\ now' = when
    BY <1>1
  <2> HIDE DEF when, depth
  <2>3. Quoted(quotes)
    BY <1>3, QuotesTyped
  <2>4. \A step : LastOf(step) => step.at \in Nat /\ step.at < when
    BY <1>1, <2>2 DEF LastOf
  <2>5. LastOf(last) /\ LastOf(lastTrain) /\ LastOf(lastTest)
    BY DEF SimInv
  <2>6. Kept(main, last.at) /\ Kept(train, lastTrain.at) /\ Kept(test, lastTest.at)
    BY DEF SimInv
  <2>7. Kept(SimulationStep(main, when, quotes, depth), when)
    BY <2>2, <2>3, <2>4, <2>5, <2>6, StepKept
  <2>8. /\ Kept(SimulationStep(train, when, quotes, depth), when)
        /\ Advances(train, SimulationStep(train, when, quotes, depth), when)
    BY <2>2, <2>3, <2>4, <2>5, <2>6, StepKept
  <2>9. /\ Kept(SimulationStep(test, when, quotes, depth), when)
        /\ Advances(test, SimulationStep(test, when, quotes, depth), when)
    BY <2>2, <2>3, <2>4, <2>5, <2>6, StepKept
  <2>10. this.at = when /\ this.quotes = quotes
    OBVIOUS
  <2> HIDE DEF this
  <2>11. \A step : LastOf(step) => step.at \in 0 .. now' /\ Quoted(step.quotes)
    BY <1>1 DEF LastOf
  <2>12. this.at \in 0 .. now' /\ Quoted(this.quotes)
    BY <2>2, <2>3, <2>10
  <2>13. LastOf(last)' /\ LastOf(lastTrain)' /\ LastOf(lastTest)'
    BY <2>1, <2>5, <2>11, <2>12 DEF LastOf
  <2>14. Kept(main, last.at)' /\ Kept(train, lastTrain.at)' /\ Kept(test, lastTest.at)'
    BY <2>1, <2>6, <2>7, <2>8, <2>9, <2>10
  <2>15. (lastTrain.at = 0 \/ lastTrain.at < TrainEnd)'
    BY <2>1, <2>10 DEF SimInv, IsTrain
  <2>16. (\A t \in train.trades : t.out < TrainEnd)' /\ (\A pos \in train.open : pos.at < TrainEnd)'
    <3>1. CASE IsTrain(when)
      BY <2>1, <2>8, <3>1 DEF SimInv, IsTrain, Advances
    <3>2. CASE ~IsTrain(when)
      BY <2>1, <3>2 DEF SimInv
    <3> QED BY <3>1, <3>2
  <2>17. (\A t \in test.trades : t.in >= TrainEnd)' /\ (\A pos \in test.open : pos.at >= TrainEnd)'
    <3>1. CASE IsTrain(when)
      BY <2>1, <3>1 DEF SimInv
    <3>2. CASE ~IsTrain(when)
      <4>1. when >= TrainEnd
        BY <2>2, <3>2, SimNumbers DEF IsTrain
      <4> QED BY <2>1, <2>9, <3>2, <4>1 DEF SimInv, Advances
    <3> QED BY <3>1, <3>2
  <2>18. (over \in BOOLEAN)' /\ ~over'
    BY <1>2, Zenon DEF SimInv
  <2> QED BY <1>4, <2>13, <2>14, <2>15, <2>16, <2>17, <2>18 DEF SimInv
<1> QED BY <1>5, <1>6

LEMMA EndKeeps == ASSUME SimInv, EndSimulation PROVE SimInv'
<1>1. /\ main' = ClosePositions(main, last) /\ train' = ClosePositions(train, lastTrain)
      /\ test' = ClosePositions(test, lastTest)
      /\ UNCHANGED <<now, chunkEnd, cache, seen, visible, last, lastTrain, lastTest>>
  BY DEF EndSimulation
<1>2. over' \in BOOLEAN
  BY Zenon DEF EndSimulation
<1>3. SimTypeOK'
  BY <1>1 DEF SimInv, SimTypeOK
<1>4. LastOf(last)' /\ LastOf(lastTrain)' /\ LastOf(lastTest)'
  BY <1>1 DEF SimInv, LastOf
<1>5. ASSUME NEW f, NEW step, LastOf(step), Kept(f, step.at)
      PROVE  /\ Kept(ClosePositions(f, step), step.at) /\ Advances(f, ClosePositions(f, step), step.at)
             /\ ClosePositions(f, step).open = {}
  <2>1. step.at \in Nat /\ Quoted(step.quotes)
    BY <1>5 DEF SimInv, SimTypeOK, LastOf
  <2> QED BY <1>5, <2>1, AllClosed
<1>6. /\ Kept(main', last.at) /\ main'.open = {}
      /\ Kept(train', lastTrain.at) /\ train'.open = {} /\ Advances(train, train', lastTrain.at)
      /\ Kept(test', lastTest.at) /\ test'.open = {} /\ Advances(test, test', lastTest.at)
  BY <1>1, <1>5 DEF SimInv
<1>7. Kept(main, last.at)' /\ Kept(train, lastTrain.at)' /\ Kept(test, lastTest.at)'
  BY <1>1, <1>6
<1>8. \A pos \in train.open : lastTrain.at # 0
  <2>1. \A pos \in train.open : pos.at \in Nat \ {0} /\ pos.at <= lastTrain.at
    BY DEF SimInv, Kept, Portfolio, SimPosition
  <2> QED BY <2>1
<1>9. \A t \in train'.trades : t.out < TrainEnd
  BY <1>6, <1>8 DEF SimInv, Advances
<1>10. \A t \in test'.trades : t.in >= TrainEnd
  BY <1>6 DEF SimInv, Advances
<1> QED BY <1>1, <1>2, <1>3, <1>4, <1>6, <1>7, <1>9, <1>10 DEF SimInv

LEMMA SimGoesOn == SimInv /\ [SimNext]_simVars => SimInv'
<1> SUFFICES ASSUME SimInv, [SimNext]_simVars PROVE SimInv'
  OBVIOUS
<1>1. CASE UNCHANGED simVars
  <2>1. SimTypeOK'
    BY <1>1 DEF SimInv, SimTypeOK, simVars
  <2>2. now' >= now
    BY <1>1, SimNumbers DEF SimInv, SimTypeOK, simVars
  <2> QED BY <1>1, <2>1, <2>2, SimRests DEF simVars
<1> QED BY <1>1, BeginChunkKeeps, SkipChunkKeeps, StepKeeps, EndKeeps DEF SimNext

(* Whatever the chunks, the depth that is missing and the steps without a   *)
(* quote, for any pairs, limits, prices and split: every portfolio of the   *)
(* simulation is conserved, within its limits and flat at the end, and the  *)
(* split keeps training and testing apart.                                  *)
THEOREM SimulationAlwaysSound == SimSpec => []SimulationSound
<1>1. SimInv => SimulationSound
  BY DEF SimInv, Kept, SimulationSound
<1> QED BY <1>1, SimStarts, SimGoesOn, PTL DEF SimSpec
=============================================================================

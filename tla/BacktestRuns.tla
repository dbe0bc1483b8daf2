---------------------------- MODULE BacktestRuns ----------------------------
(***************************************************************************)
(* The life of backtest runs: the state machine in memory                  *)
(* (BacktestStateMachineService), the pipeline that moves it               *)
(* (BacktestEngineService.executePipeline), the row and the positions in   *)
(* the database, and the report made from them.                            *)
(*                                                                         *)
(* A handler is cut where it awaits the database; between two awaits it is *)
(* one step.  What a chunk simulates is module BacktestSimulation: here a  *)
(* chunk closes one position, its number, or none.  The row never shows    *)
(* LOADING_DATA, SIMULATING or GENERATING_REPORT: transitionRun changes    *)
(* memory only.                                                            *)
(***************************************************************************)
EXTENDS Integers, FiniteSets, Functions

CONSTANTS
    Runs,
    Chunks,         \* chunks of the date range
    MaxRuns,        \* maxConcurrentRuns
    MaxFaults       \* bound on lost answers, unrecorded failures and crashes

ASSUME BacktestRunsConstants == Chunks \in Nat /\ MaxRuns \in Nat \ {0} /\ MaxFaults \in Nat

VARIABLES
    status,         \* runStatuses; "none" without an entry
    cancelled,      \* cancelledRuns
    at,             \* where the pipeline of the run stands
    chunk,          \* chunks it is through
    closed,         \* closedPositions of its portfolio
    runRow,         \* the run's row: status
    stored,         \* by run and position: rows of the position
    cancelling,     \* runs whose cancelRun awaits the row
    report,         \* by run: totalTrades of the stored report, -1 without one
    announced,      \* by run: the terminal events emitted
    everClosed,     \* by run: the positions it closed (no counterpart in the code)
    history         \* by run: what befell it (no counterpart in the code)

memoryVars == <<status, cancelled, at, chunk, closed, cancelling>>
runVars == <<memoryVars, runRow, stored, report, announced, everClosed, history>>

Positions == 1..(Chunks + 1)
Terminal == {"COMPLETE", "FAILED", "CANCELLED"}
CANCELLABLE_STATES == {"CONFIGURING", "LOADING_DATA", "SIMULATING", "GENERATING_REPORT"}
VALID_TRANSITIONS ==
    {<<"IDLE", "CONFIGURING">>, <<"CONFIGURING", "LOADING_DATA">>,
     <<"LOADING_DATA", "SIMULATING">>, <<"SIMULATING", "GENERATING_REPORT">>,
     <<"GENERATING_REPORT", "COMPLETE">>} \cup
    (CANCELLABLE_STATES \X {"FAILED"}) \cup (Terminal \X {"IDLE"})

ActiveRuns == {r \in Runs : status[r] \notin Terminal \cup {"none"}}
Creating == {r \in Runs : at[r] = "creating"}
Note(r, what) == history' = [history EXCEPT ![r] = @ \cup {what}]
Faults == Cardinality({note \in Runs \X {"unacknowledged", "unrecorded", "interrupted"} :
                        note[2] \in history[note[1]]})

RunsInit ==
    /\ status = [r \in Runs |-> "none"] /\ cancelled = {} /\ cancelling = {}
    /\ at = [r \in Runs |-> "none"] /\ chunk = [r \in Runs |-> 0]
    /\ closed = [r \in Runs |-> {}]
    /\ runRow = [r \in Runs |-> "none"]
    /\ stored = [r \in Runs |-> [p \in Positions |-> 0]]
    /\ report = [r \in Runs |-> -1]
    /\ announced = [r \in Runs |-> {}]
    /\ everClosed = [r \in Runs |-> {}] /\ history = [r \in Runs |-> {}]

-----------------------------------------------------------------------------
(* createRun counts the active runs before it awaits the insert and enters *)
(* the run after it: two creations do not see each other.                  *)
BeginCreate(r) ==
    /\ at[r] = "none"
    /\ Cardinality(ActiveRuns) < MaxRuns
    /\ at' = [at EXCEPT ![r] = "creating"]
    /\ IF Creating # {} THEN Note(r, "overlapped") ELSE UNCHANGED history
    /\ UNCHANGED <<status, cancelled, chunk, closed, runRow, stored, cancelling, report, announced, everClosed>>

(* The pipeline starts at once and leaves CONFIGURING before it awaits. *)
Created(r) ==
    /\ at[r] = "creating"
    /\ runRow' = [runRow EXCEPT ![r] = "CONFIGURING"]
    /\ status' = [status EXCEPT ![r] = "LOADING_DATA"]
    /\ at' = [at EXCEPT ![r] = "loading"]
    /\ UNCHANGED <<cancelled, chunk, closed, stored, cancelling, report,
                   announced, everClosed, history>>

InsertFails(r) ==
    /\ at[r] = "creating"
    /\ at' = [at EXCEPT ![r] = "none"]
    /\ UNCHANGED <<status, cancelled, chunk, closed, runRow, stored, cancelling, report, announced, everClosed, history>>

(* cleanupRun and destroyRun, in the finally of the pipeline. *)
Cleanup(r) ==
    /\ status' = [status EXCEPT ![r] = "none"]
    /\ cancelled' = cancelled \ {r}
    /\ closed' = [closed EXCEPT ![r] = {}]
    /\ at' = [at EXCEPT ![r] = "ended"]

(* failRun up to its await: no transition is validated. *)
BeginFail(r) ==
    /\ status' = [status EXCEPT ![r] = "FAILED"]
    /\ at' = [at EXCEPT ![r] = "failing"]
    /\ UNCHANGED <<cancelled, closed>>

(* The catch of the pipeline: a cancelled run is not failed. *)
Caught(r) ==
    /\ IF r \in cancelled THEN Cleanup(r) ELSE BeginFail(r)
    /\ UNCHANGED <<chunk, runRow, stored, cancelling, report, announced, everClosed, history>>

(* The date range, the coverage or the walk-forward split is refused, *)
(* whether the run was cancelled meanwhile or not.                    *)
Refuse(r) ==
    /\ at[r] = "loading"
    /\ BeginFail(r)
    /\ UNCHANGED <<chunk, runRow, stored, cancelling, report, announced, everClosed, history>>

LoadFails(r) == at[r] = "loading" /\ Caught(r)

Transition(r, to) == status' = [status EXCEPT ![r] = to]

Simulate(r) ==
    /\ at[r] = "loading"
    /\ IF <<status[r], "SIMULATING">> \in VALID_TRANSITIONS
       THEN /\ Transition(r, "SIMULATING")
            /\ at' = [at EXCEPT ![r] = "simulating"]
            /\ UNCHANGED <<cancelled, chunk, closed, runRow, stored, cancelling, report, announced, everClosed, history>>
       ELSE Caught(r)

-----------------------------------------------------------------------------
(* A pass of the chunk loop up to the flush.  An error inside it is logged *)
(* and the loop goes on with the next chunk; what was closed stays.        *)
Chunk(r) ==
    /\ at[r] = "simulating" /\ chunk[r] < Chunks /\ r \notin cancelled
    /\ \E sold \in {{}, {chunk[r] + 1}} :
        /\ closed' = [closed EXCEPT ![r] = @ \cup sold]
        /\ everClosed' = [everClosed EXCEPT ![r] = @ \cup sold]
        /\ \/ /\ closed'[r] # {}
              /\ at' = [at EXCEPT ![r] = "flushing"] /\ UNCHANGED chunk
           \/ /\ chunk' = [chunk EXCEPT ![r] = @ + 1] /\ UNCHANGED at
    /\ UNCHANGED <<status, cancelled, runRow, stored, cancelling, report, announced, history>>

(* fault: the positions are cleared whether they were written or not *)
FlushClearsFirst(r) ==
    /\ at[r] = "flushing"
    /\ closed' = [closed EXCEPT ![r] = {}]
    /\ stored' \in {stored, [stored EXCEPT ![r] = [p \in Positions |->
                        IF p \in closed[r] THEN @[p] + 1 ELSE @[p]]]}
    /\ at' = [at EXCEPT ![r] = "simulating"] /\ chunk' = [chunk EXCEPT ![r] = @ + 1]
    /\ UNCHANGED <<status, cancelled, runRow, cancelling, report, announced, everClosed, history>>

Written(r) == stored' = [stored EXCEPT ![r] = [p \in Positions |->
                            IF p \in closed[r] THEN @[p] + 1 ELSE @[p]]]

(* The batch is written and then cleared.  When the write fails it is kept *)
(* for the next flush, even if the database did take it.                   *)
Flush(r) ==
    /\ at[r] = "flushing"
    /\ \/ Written(r) /\ closed' = [closed EXCEPT ![r] = {}] /\ UNCHANGED history
       \/ Written(r) /\ Faults < MaxFaults /\ Note(r, "unacknowledged") /\ UNCHANGED closed
       \/ UNCHANGED <<stored, closed, history>>
    /\ at' = [at EXCEPT ![r] = "simulating"] /\ chunk' = [chunk EXCEPT ![r] = @ + 1]
    /\ UNCHANGED <<status, cancelled, runRow, cancelling, report, announced, everClosed>>

(* A cancelled run returns at the next check. *)
StopCancelled(r) ==
    /\ at[r] = "simulating" /\ r \in cancelled
    /\ Cleanup(r)
    /\ UNCHANGED <<chunk, runRow, stored, cancelling, report, announced, everClosed, history>>

(* closeRemainingPositions and the transition; then the row is awaited. *)
CloseRemaining(r) ==
    /\ at[r] = "simulating" /\ chunk[r] = Chunks /\ r \notin cancelled
    /\ \E sold \in {{}, {Chunks + 1}} :
        /\ closed' = [closed EXCEPT ![r] = @ \cup sold]
        /\ everClosed' = [everClosed EXCEPT ![r] = @ \cup sold]
    /\ Transition(r, "GENERATING_REPORT")
    /\ at' = [at EXCEPT ![r] = "persisting"]
    /\ UNCHANGED <<cancelled, chunk, runRow, stored, cancelling, report, announced, history>>

(* persistResults: the row is COMPLETE before the rest is written. *)
PersistRow(r) ==
    /\ at[r] = "persisting"
    /\ runRow' = [runRow EXCEPT ![r] = "COMPLETE"]
    /\ at' = [at EXCEPT ![r] = "storing"]
    /\ UNCHANGED <<status, cancelled, chunk, closed, stored, cancelling, report,
                   announced, everClosed, history>>

StoreRemaining(r) ==
    /\ at[r] = "storing"
    /\ Written(r)
    /\ at' = [at EXCEPT ![r] = "reporting"]
    /\ UNCHANGED <<status, cancelled, chunk, closed, runRow, cancelling, report,
                   announced, everClosed, history>>

(* A write of the row, of the positions or of the walk-forward results fails. *)
PersistFails(r) == at[r] \in {"persisting", "storing", "reporting"} /\ Caught(r)

RowsStored(r) == SumFunction(stored[r])

(* The report counts the stored positions; its errors are logged. *)
Report(r) ==
    /\ at[r] = "reporting"
    /\ \/ runRow[r] = "COMPLETE" /\ report' = [report EXCEPT ![r] = RowsStored(r)]
       \/ UNCHANGED report
    /\ at' = [at EXCEPT ![r] = "completing"]
    /\ UNCHANGED <<status, cancelled, chunk, closed, runRow, stored, cancelling,
                   announced, everClosed, history>>

(* The last transition throws when the run was cancelled meanwhile. *)
Complete(r) ==
    /\ at[r] = "completing"
    /\ IF <<status[r], "COMPLETE">> \in VALID_TRANSITIONS
       THEN /\ announced' = [announced EXCEPT ![r] = @ \cup {"completed"}]
            /\ Cleanup(r)
            /\ UNCHANGED <<chunk, runRow, stored, cancelling, report, everClosed, history>>
       ELSE Caught(r)

(* The rest of failRun; an error of the database is swallowed. *)
Fail(r) ==
    /\ at[r] = "failing"
    /\ \/ runRow' = [runRow EXCEPT ![r] = "FAILED"] /\ UNCHANGED history
       \/ Faults < MaxFaults /\ Note(r, "unrecorded") /\ UNCHANGED runRow
    /\ announced' = [announced EXCEPT ![r] = @ \cup {"failed"}]
    /\ Cleanup(r)
    /\ UNCHANGED <<chunk, stored, cancelling, report, everClosed>>

-----------------------------------------------------------------------------
Cancellable(r) == status[r] \in CANCELLABLE_STATES

CancelRun(r) ==
    /\ Cancellable(r)
    /\ Note(r, IF status[r] = "GENERATING_REPORT" THEN "cancelledLate" ELSE "cancelledEarly")
    /\ cancelled' = cancelled \cup {r} /\ cancelling' = cancelling \cup {r}
    /\ Transition(r, "CANCELLED")
    /\ UNCHANGED <<at, chunk, closed, runRow, stored, report, announced, everClosed>>

CancelRecorded(r) ==
    /\ r \in cancelling
    /\ runRow' = [runRow EXCEPT ![r] = "CANCELLED"]
    /\ announced' = [announced EXCEPT ![r] = @ \cup {"cancelled"}]
    /\ cancelling' = cancelling \ {r}
    /\ UNCHANGED <<status, cancelled, at, chunk, closed, stored, report, everClosed, history>>

CancelUnrecorded(r) ==
    /\ r \in cancelling /\ Faults < MaxFaults
    /\ cancelling' = cancelling \ {r}
    /\ Note(r, "unrecorded")
    /\ UNCHANGED <<status, cancelled, at, chunk, closed, runRow, stored, report, announced, everClosed>>

(* The process dies; at the next start onModuleInit fails the rows that    *)
(* are older than twice their timeout, the others keep their status.       *)
Restart ==
    /\ Faults < MaxFaults
    /\ \E r \in Runs : at[r] \notin {"none", "ended"}
    /\ LET live == {r \in Runs : at[r] \notin {"none", "ended"}} IN
       /\ history' = [r \in Runs |-> IF r \in live \cup cancelling
                                     THEN history[r] \cup {"interrupted"} ELSE history[r]]
       /\ at' = [r \in Runs |-> IF r \in live THEN "ended" ELSE at[r]]
    /\ status' = [r \in Runs |-> "none"] /\ cancelled' = {} /\ cancelling' = {}
    /\ closed' = [r \in Runs |-> {}]
    /\ \E old \in SUBSET {r \in Runs : runRow[r] \in CANCELLABLE_STATES} :
        runRow' = [r \in Runs |-> IF r \in old THEN "FAILED" ELSE runRow[r]]
    /\ UNCHANGED <<chunk, stored, report, announced, everClosed>>

RunsNext ==
    \/ \E r \in Runs :
        \/ BeginCreate(r) \/ Created(r) \/ InsertFails(r)
        \/ Refuse(r) \/ LoadFails(r) \/ Simulate(r)
        \/ Chunk(r) \/ Flush(r) \/ StopCancelled(r) \/ CloseRemaining(r)
        \/ PersistRow(r) \/ StoreRemaining(r) \/ PersistFails(r)
        \/ Report(r) \/ Complete(r) \/ Fail(r)
        \/ CancelRun(r) \/ CancelRecorded(r) \/ CancelUnrecorded(r)
    \/ Restart

RunsSpec == RunsInit /\ [][RunsNext]_runVars

-----------------------------------------------------------------------------
PipelineStage == {"none", "creating", "loading", "simulating", "flushing", "persisting", "storing",
                  "reporting", "completing", "failing", "ended"}
RunEvent == {"overlapped", "unacknowledged", "unrecorded", "interrupted",
             "cancelledEarly", "cancelledLate"}

RunsTypeOK ==
    /\ status \in [Runs -> {"none"} \cup CANCELLABLE_STATES \cup Terminal]
    /\ cancelled \subseteq Runs /\ cancelling \subseteq Runs
    /\ chunk \in [Runs -> 0..Chunks] /\ closed \in [Runs -> SUBSET Positions]
    /\ at \in [Runs -> PipelineStage]
    /\ runRow \in [Runs -> {"none", "CONFIGURING"} \cup Terminal]
    /\ stored \in [Runs -> [Positions -> Nat]] /\ report \in [Runs -> Int]
    /\ announced \in [Runs -> SUBSET {"completed", "failed", "cancelled"}]
    /\ everClosed \in [Runs -> SUBSET Positions]
    /\ history \in [Runs -> SUBSET RunEvent]

Happened(r, what) == what \in history[r]

(* What memory counts as active stays under the maximum unless two         *)
(* creations overlapped, and a run that ended leaves nothing in memory.    *)
MemoryBounded ==
    /\ Cardinality(ActiveRuns) > MaxRuns => \E r \in Runs : Happened(r, "overlapped")
    /\ \A r \in Runs : at[r] = "ended" => status[r] = "none" /\ r \notin cancelled

(* A run announced as complete has every position it closed in the         *)
(* database, once unless an answer of the database was lost, and its       *)
(* report, when there is one, counts them.                                 *)
CompleteIsWhole ==
    \A r \in Runs : "completed" \in announced[r] =>
        /\ \A p \in everClosed[r] : stored[r][p] >= 1
        /\ ~Happened(r, "unacknowledged") =>
              /\ \A p \in Positions : stored[r][p] = (IF p \in everClosed[r] THEN 1 ELSE 0)
              /\ report[r] \in {-1, Cardinality(everClosed[r])}

(* The row of a run that is over says how it ended: it can say COMPLETE of *)
(* a run that was not completed only after a crash, after a failure that   *)
(* could not be recorded, or when the run was cancelled while its results  *)
(* were being written.  A run cancelled earlier never becomes complete.    *)
RowTellsTheEnd ==
    \A r \in Runs : at[r] = "ended" /\ r \notin cancelling =>
        /\ runRow[r] = "COMPLETE" =>
              \/ "completed" \in announced[r]
              \/ \E why \in {"interrupted", "unrecorded", "cancelledLate"} : Happened(r, why)
        /\ Happened(r, "cancelledEarly") => runRow[r] # "COMPLETE" /\ "completed" \notin announced[r]
        /\ Cardinality(announced[r]) <= 1 \/ announced[r] = {"cancelled", "failed"}

(* Backtest runs under overlapping creations, cancellations at any await,  *)
(* failed and unacknowledged writes, and crashes: the concurrency limit,   *)
(* the stored positions and the final row (createRun, cancelRun, failRun,  *)
(* executePipeline).                                                       *)
RunsSound ==
    /\ RunsTypeOK
    /\ MemoryBounded /\ CompleteIsWhole /\ RowTellsTheEnd
=============================================================================

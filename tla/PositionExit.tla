---------------------------- MODULE PositionExit ----------------------------
(***************************************************************************)
(* How a position with two filled legs is sold: by ExitMonitorService,     *)
(* which polls the open positions and hands one to ExitExecutionService to *)
(* be sold in chunks, and by an operator's PositionCloseService            *)
(* .closePosition, which sells it at once under the execution lock.        *)
(*                                                                         *)
(* Both read the position row, size the exit from it or, once it is        *)
(* EXIT_PARTIAL, from the order rows of the pair, sell the primary leg,    *)
(* store that order, sell the secondary leg, store that, write the         *)
(* position row and tell the risk manager.  There is an await between any  *)
(* two of these steps and other exits run meanwhile, so each is an action. *)
(* Polls overlap when one takes longer than the interval.                  *)
(*                                                                         *)
(* Money is counted in contracts: the P&L of a row and what the risk       *)
(* manager was told are the number of sold contracts they account for.     *)
(***************************************************************************)
EXTENDS Integers, FiniteSets

CONSTANTS
    Poll,          \* exit monitor cycles
    Close,         \* operators' closes
    Crews,         \* which of them are at work: the sets to choose from
    NoTask,        \* the lock is free
    MaxSize,       \* bound: contracts filled at entry, per leg
    MaxChunks,     \* MAX_EXIT_CHUNK_ITERATIONS
    MaxPending, MaxDbFailures, MaxCrashes  \* bounds

Task == Poll \cup Close
Leg == {"primary", "secondary"}

ASSUME ExitConstants ==
    /\ Poll \cap Close = {} /\ NoTask \notin Task
    /\ Crews \subseteq SUBSET Task
    /\ MaxSize \in Nat /\ MaxChunks \in Nat \ {0}
    /\ {MaxPending, MaxDbFailures, MaxCrashes} \subseteq Nat

VARIABLES
    crew,       \* the tasks of this behaviour
    status,     \* open_positions.status
    pnl,        \* open_positions.realized_pnl
    entry,      \* fillSize of the two entry orders
    exits,      \* sum of fillSize over the other orders of the pair, by leg
    task,       \* the local state of every task
    lock,       \* the execution lock
    told,       \* sold contracts the risk manager heard of
    closes,     \* its closePosition calls
    held,       \* external: contracts really held, by leg; negative when oversold
    resting,    \* external: contracts in exit orders that have not filled, by leg
    torn,       \* history: an exit died, or lost an insert, between a fill and the row
    lone,       \* history: a primary leg was sold whose secondary then did not sell
    restarted,  \* history: the process has been restarted
    pendings, dbFailures, crashes

row == <<status, pnl>>
venue == <<held, resting>>
risk == <<told, closes>>
history == <<torn, lone, restarted>>
faults == <<pendings, dbFailures, crashes>>
vars == <<crew, row, entry, exits, task, lock, risk, venue, history, faults>>

None == [l \in Leg |-> 0]
Place == {"idle", "wait", "read", "size", "check", "sell", "recordPrimary", "sellSecondary",
          "recordSecondary", "expose", "write", "tell"}
Status == {"OPEN", "EXIT_PARTIAL", "SINGLE_LEG_EXPOSED", "CLOSED"}
TaskState == [at: Place, seen: Status, existing: Nat, remaining: [Leg -> 0..MaxSize],
              done: Nat, rounds: 0..MaxChunks, chunk: 0..MaxSize, filled: [Leg -> 0..MaxSize]]
Idle == [at |-> "idle", seen |-> "OPEN", existing |-> 0, remaining |-> None,
         done |-> 0, rounds |-> 0, chunk |-> 0, filled |-> None]

Init ==
    /\ crew \in Crews
    /\ status = "OPEN" /\ pnl = 0
    /\ entry \in [Leg -> 1..MaxSize]
    /\ exits = None /\ held = entry /\ resting = None
    /\ task = [t \in Task |-> Idle]
    /\ lock = NoTask
    /\ told = 0 /\ closes = 0
    /\ torn = FALSE /\ lone = FALSE /\ restarted = FALSE
    /\ pendings = 0 /\ dbFailures = 0 /\ crashes = 0

Total(f) == f["primary"] + f["secondary"]
Smaller(f) == IF f["primary"] <= f["secondary"] THEN f["primary"] ELSE f["secondary"]
At(t, s) == t \in crew /\ task[t].at = s
Goto(t, s) == task' = [task EXCEPT ![t].at = s]

(* The end of a cycle; a close gives the lock back in its finally block. *)
Leave(t) == task' = [task EXCEPT ![t] = Idle]
Unlock(t) == lock' = IF t \in Close THEN NoTask ELSE lock

-----------------------------------------------------------------------------
(* Reading and sizing.  Definitions marked "fault" are plausible mistakes  *)
(* in the definition that follows them; the model does not use them.       *)

(* A close waits for the lock. *)
AskToClose(c) ==
    /\ c \in Close /\ At(c, "idle")
    /\ Goto(c, "wait")
    /\ UNCHANGED <<crew, row, entry, exits, lock, risk, venue, history, faults>>

Acquire(c) ==
    /\ c \in Close /\ At(c, "wait") /\ lock = NoTask
    /\ lock' = c
    /\ Goto(c, "read")
    /\ UNCHANGED <<crew, row, entry, exits, risk, venue, history, faults>>

AlwaysCloseable(s) == TRUE              \* fault: the row is not looked at again under the lock

Closeable(s) == s \in {"OPEN", "EXIT_PARTIAL"}

(* The poll's query, or the re-read of a close that has the lock. *)
Read(t) ==
    /\ IF t \in Poll THEN At(t, "idle") /\ status \in {"OPEN", "EXIT_PARTIAL"} ELSE At(t, "read")
    /\ IF Closeable(status)
       THEN /\ task' = [task EXCEPT ![t] = [Idle EXCEPT !.at = "size", !.seen = status, !.existing = pnl]]
            /\ UNCHANGED lock
       ELSE Leave(t) /\ Unlock(t)
    /\ UNCHANGED <<crew, row, entry, exits, risk, venue, history, faults>>

(* getResidualSize: every order of the pair that is not an entry order of  *)
(* this position counts as an exit.                                        *)
Residual == [l \in Leg |-> IF exits[l] <= entry[l] THEN entry[l] - exits[l] ELSE 0]

EntrySize(seen) == entry                \* fault: an EXIT_PARTIAL position is sized like an OPEN one

ExitSize(seen) == IF seen = "EXIT_PARTIAL" THEN Residual ELSE entry

(* With nothing left on both legs the row is closed as it is; with nothing *)
(* left on one the exit is given up.                                       *)
Size(t) ==
    /\ At(t, "size")
    /\ LET size == ExitSize(task[t].seen) IN
       IF Total(size) # 0 /\ Smaller(size) = 0
       THEN Leave(t) /\ Unlock(t)
       ELSE /\ task' = [task EXCEPT ![t] = [@ EXCEPT !.remaining = size,
                            !.at = IF Total(size) = 0 THEN "write"
                                   ELSE IF t \in Poll THEN "check" ELSE "sell"]]
            /\ UNCHANGED lock
    /\ UNCHANGED <<crew, row, entry, exits, risk, venue, history, faults>>

(* The thresholds of the monitor, then executeExit's look at the status:   *)
(* "guard against concurrent manual close".                                *)
Check(t) ==
    /\ At(t, "check")
    /\ \/ status \in {"OPEN", "EXIT_PARTIAL"} /\ Goto(t, "sell")
       \/ Leave(t)
    /\ UNCHANGED <<crew, row, entry, exits, lock, risk, venue, history, faults>>

-----------------------------------------------------------------------------
(* Selling.  A close sells what both legs have left; the monitor sells in  *)
(* chunks that depth and EXIT_MAX_CHUNK_SIZE bound.                        *)

Chunks(t) ==
    LET most == Smaller(task[t].remaining)
    IN  IF t \in Poll THEN 1..most ELSE {most}

(* After the loop: no row is written when no chunk was completed. *)
Stop(t) ==
    IF task[t].done > 0
    THEN Goto(t, "write") /\ UNCHANGED lock
    ELSE Leave(t) /\ Unlock(t)

Sold(l, n) == held' = [held EXCEPT ![l] = @ - n] /\ UNCHANGED resting

(* An order left pending has sold some of its n and may sell the rest.     *)
LeftPending(l, n) ==
    /\ pendings < MaxPending /\ pendings' = pendings + 1
    /\ \E filled \in 0..(n - 1) :
         /\ held' = [held EXCEPT ![l] = @ - filled]
         /\ resting' = [resting EXCEPT ![l] = @ + n - filled]

NotSold(l, n) == LeftPending(l, n) \/ UNCHANGED <<venue, pendings>>

PrimaryFilled(s, n, f) ==
    [s EXCEPT !.at = "recordPrimary", !.chunk = n, !.filled = [None EXCEPT !["primary"] = f],
              !.rounds = @ + 1]

SellPrimary(t) ==
    /\ At(t, "sell")
    /\ \/ \E n \in Chunks(t) : \E f \in 1..n :
            /\ Sold("primary", f)
            /\ task' = [task EXCEPT ![t] = PrimaryFilled(task[t], n, f)]
            /\ UNCHANGED <<lock, pendings>>
       \/ \E n \in Chunks(t) : NotSold("primary", n) /\ Stop(t)
    /\ UNCHANGED <<crew, row, entry, exits, risk, history, dbFailures, crashes>>

RecordPrimary(t) ==
    /\ At(t, "recordPrimary")
    /\ exits' = [exits EXCEPT !["primary"] = @ + task[t].filled["primary"]]
    /\ Goto(t, "sellSecondary")
    /\ UNCHANGED <<crew, row, entry, lock, risk, venue, history, faults>>

SecondaryFilled(s, f) ==
    [s EXCEPT !.at = "recordSecondary", !.filled = [@ EXCEPT !["secondary"] = f]]

(* A secondary that does not fill leaves the row EXIT_PARTIAL after a poll *)
(* (at once if this was its first chunk, else when the cycle is written),  *)
(* and SINGLE_LEG_EXPOSED after a close.                                   *)
SellSecondary(t) ==
    /\ At(t, "sellSecondary")
    /\ \/ \E f \in 1..task[t].chunk :
            /\ Sold("secondary", f)
            /\ task' = [task EXCEPT ![t] = SecondaryFilled(task[t], f)]
            /\ UNCHANGED <<lone, pendings>>
       \/ /\ NotSold("secondary", task[t].chunk)
          /\ lone' = TRUE
          /\ Goto(t, IF task[t].done > 0 THEN "write" ELSE "expose")
    /\ UNCHANGED <<crew, row, entry, exits, lock, risk, torn, restarted, dbFailures, crashes>>

LastChunk(t) == Total(task[t].filled)   \* fault: the chunks of a cycle are not added up

DoneAfter(t) == task[t].done + Total(task[t].filled)

RecordSecondary(t) ==
    LET left == [l \in Leg |-> task[t].remaining[l] - task[t].filled[l]] IN
    /\ At(t, "recordSecondary")
    /\ exits' = [exits EXCEPT !["secondary"] = @ + task[t].filled["secondary"]]
    /\ task' = [task EXCEPT ![t] = [@ EXCEPT !.remaining = left, !.done = DoneAfter(t),
                            !.at = IF t \in Poll /\ Smaller(left) > 0 /\ task[t].rounds < MaxChunks
                                   THEN "sell" ELSE "write"]]
    /\ UNCHANGED <<crew, row, entry, lock, risk, venue, history, faults>>

-----------------------------------------------------------------------------
(* Writing the row and telling the risk manager. *)

Expose(t) ==
    /\ At(t, "expose")
    /\ status' = IF t \in Poll THEN "EXIT_PARTIAL" ELSE "SINGLE_LEG_EXPOSED"
    /\ Leave(t) /\ Unlock(t)
    /\ UNCHANGED <<crew, pnl, entry, exits, risk, venue, history, faults>>

OneLegOut(t) == task[t].remaining["primary"] = 0        \* fault: only the primary leg is looked at

FullExit(t) == Total(task[t].remaining) = 0

OwnPnl(t) == task[t].done               \* fault: the P&L of earlier partial exits is dropped

RowPnl(t) == task[t].existing + task[t].done

(* closePosition or updateStatusWithAccumulatedPnl: the row is overwritten *)
(* from what the task read, whatever it is by now.                         *)
WriteRow(t) ==
    /\ At(t, "write")
    /\ status' = IF FullExit(t) THEN "CLOSED" ELSE "EXIT_PARTIAL"
    /\ pnl' = RowPnl(t)
    /\ Goto(t, "tell")
    /\ UNCHANGED <<crew, entry, exits, lock, risk, venue, history, faults>>

TellRisk(t) ==
    /\ At(t, "tell")
    /\ told' = told + task[t].done
    /\ closes' = IF FullExit(t) THEN closes + 1 ELSE closes
    /\ Leave(t) /\ Unlock(t)
    /\ UNCHANGED <<crew, row, entry, exits, venue, history, faults>>

-----------------------------------------------------------------------------
(* Failures and the outside world. *)

(* An insert or update of a filled exit throws; the task gives up. *)
DbFails(t) ==
    /\ \E s \in {"recordPrimary", "recordSecondary", "expose", "write"} : At(t, s)
    /\ dbFailures < MaxDbFailures
    /\ dbFailures' = dbFailures + 1 /\ torn' = TRUE
    /\ Leave(t) /\ Unlock(t)
    /\ UNCHANGED <<crew, row, entry, exits, risk, venue, lone, restarted, pendings, crashes>>

(* The process dies and comes back. *)
Crash ==
    /\ crashes < MaxCrashes /\ crashes' = crashes + 1
    /\ torn' = (torn \/ \E t \in crew : task[t].filled # None)
    /\ restarted' = TRUE
    /\ task' = [t \in Task |-> Idle] /\ lock' = NoTask
    /\ UNCHANGED <<crew, row, entry, exits, risk, venue, lone, pendings, dbFailures>>

(* External: a resting exit order fills. *)
VenueFills(l) ==
    /\ resting[l] > 0
    /\ resting' = [resting EXCEPT ![l] = @ - 1] /\ held' = [held EXCEPT ![l] = @ - 1]
    /\ UNCHANGED <<crew, row, entry, exits, task, lock, risk, history, faults>>

Step(t) ==
    \/ AskToClose(t) \/ Acquire(t) \/ Read(t) \/ Size(t) \/ Check(t)
    \/ SellPrimary(t) \/ RecordPrimary(t) \/ SellSecondary(t) \/ RecordSecondary(t)
    \/ Expose(t) \/ WriteRow(t) \/ TellRisk(t) \/ DbFails(t)

Next ==
    \/ \E t \in Task : Step(t)
    \/ Crash
    \/ \E l \in Leg : VenueFills(l)

Spec == Init /\ [][Next]_vars

-----------------------------------------------------------------------------
(* Properties. *)

(* Sizes and fills are never negative, and a close works only under the    *)
(* lock.                                                                   *)
TypeOK ==
    /\ crew \in Crews
    /\ status \in Status
    /\ {pnl, told, closes} \subseteq Nat
    /\ entry \in [Leg -> 1..MaxSize] /\ exits \in [Leg -> Nat]
    /\ held \in [Leg -> Int] /\ resting \in [Leg -> Nat]
    /\ lock \in Close \cup {NoTask}
    /\ {torn, lone, restarted} \subseteq BOOLEAN
    /\ {pendings, dbFailures, crashes} \subseteq Nat
    /\ task \in [Task -> TaskState]
    /\ \A t \in Task : /\ task[t].at # "idle" => t \in crew
                       /\ t \in Close /\ task[t].at \notin {"idle", "wait"} => lock = t

(* The exit orders stored for a position never add up to more than its     *)
(* entry filled, over any number of partial exits, chunks and operators,   *)
(* unless an exit was cut off between a fill and the row.                  *)
ExitsWithinEntry == ~torn => \A l \in Leg : exits[l] <= entry[l]

(* A position is only ever closed once the order rows show both legs sold, *)
(* cut-off exits and restarts included.                                    *)
ClosedMeansExited == status = "CLOSED" => \A l \in Leg : exits[l] >= entry[l]

Quiet == \A t \in Task : task[t].at \in {"idle", "wait"}

(* When a position is closed and its exits are over, the risk manager was  *)
(* told of one close and of every contract of both legs, unless an exit    *)
(* was cut off, one leg was sold alone or the process restarted.           *)
CloseSettlesCapital ==
    status = "CLOSED" /\ Quiet /\ ~(torn \/ lone \/ restarted) => told = Total(entry) /\ closes = 1

(* Between exits the P&L in the position row is the P&L the risk manager   *)
(* was told: partial exits and the last one add up in both.                *)
PnlMatchesRisk == Quiet /\ ~restarted => pnl = told

(* Over partial exits, chunks and operators, the books of a position add   *)
(* up: what the risk manager was told, and what the row says.              *)
BooksAddUp == TypeOK /\ CloseSettlesCapital /\ PnlMatchesRisk

(* A closed position stays closed. *)
ClosedIsFinal == [][status = "CLOSED" => status' = "CLOSED"]_vars

(* No more is sold than is held, as long as no order is left pending:      *)
(* executeExit re-reads the status to "guard against concurrent manual     *)
(* close" (exit-execution.service.ts).                                     *)
NeverOversold == pendings = 0 => \A l \in Leg : held[l] >= 0
=============================================================================

---------------------------- MODULE LegResolution ----------------------------
(***************************************************************************)
(* What becomes of a position with one leg too few.  An operator may buy   *)
(* the missing leg (SingleLegResolutionService.retryLeg) or sell the leg   *)
(* there is (closeLeg), and AutoUnwindService, told of the exposure, waits *)
(* a moment, looks whether it is still there, estimates the loss and calls *)
(* closeLeg.  None of them takes the execution lock or reads the row again *)
(* once it has begun, and there is an await between any two of the steps   *)
(* below.                                                                  *)
(*                                                                         *)
(* The position is exposed by an entry whose second leg failed: one order  *)
(* is linked to the row; or by an exit that sold one leg and not the       *)
(* other: both entry orders are linked.  An exposure is one event, so the  *)
(* set of unwinds in flight, which keeps out a second event of the same    *)
(* position, has nothing to do here.  The exit monitor, which goes on      *)
(* selling an EXIT_PARTIAL position, is left to PositionExit.              *)
(***************************************************************************)
EXTENDS Integers, FiniteSets, Functions

CONSTANTS
    Retry, CloseLeg, Unwind,    \* calls of retryLeg and closeLeg, the handler of the event
    Crews,                      \* which of them are at work: the sets to choose from
    Origins,                    \* what may have exposed the position
    MaxSize,                    \* bound: contracts ordered per leg
    MaxPending, MaxDbFailures, MaxCrashes   \* bounds

Task == Retry \cup CloseLeg \cup Unwind
Leg == {"kalshi", "polymarket"}

ASSUME ResolutionConstants ==
    /\ Retry \cap (CloseLeg \cup Unwind) = {} /\ CloseLeg \cap Unwind = {}
    /\ Crews \subseteq SUBSET Task
    /\ Origins \subseteq {"entry", "exit"}
    /\ MaxSize \in Nat \ {0}
    /\ {MaxPending, MaxDbFailures, MaxCrashes} \subseteq Nat
ASSUME FiniteTasks == IsFiniteSet(Task)

VARIABLES
    crew,       \* the tasks of this behaviour
    origin,     \* what exposed the position
    status,     \* open_positions.status
    size,       \* open_positions.sizes, the same for both legs
    linked,     \* fillSize of the order the row links, by leg; 0 when it links none
    stored,     \* what the order rows say is held: bought less sold, by leg
    task,       \* the local state of every task
    notified,   \* the event has been emitted
    closes,     \* closePosition calls of the risk manager
    held,       \* external: contracts really held, by leg; negative when oversold
    overlap,    \* history: a task read the row while another was at its order
    short,      \* history: a closing order filled in part
    torn,       \* history: a task died, or lost a write, after its order had filled
    pendings, dbFailures, crashes

row == <<status, linked>>
history == <<overlap, short, torn>>
faults == <<pendings, dbFailures, crashes>>
vars == <<crew, origin, size, row, stored, task, notified, closes, held, history, faults>>

Place == {"idle", "delay", "estimate", "close", "order", "store", "write", "tell"}
Idle == [at |-> "idle", leg |-> "kalshi", ordered |-> 0, filled |-> 0]
Ordered(l, n) == [at |-> "order", leg |-> l, ordered |-> n, filled |-> 0]

FromEntry ==
    \E l \in Leg, n \in 1..size :
        /\ linked = [k \in Leg |-> IF k = l THEN n ELSE 0]
        /\ stored = linked
        /\ status = "SINGLE_LEG_EXPOSED"

(* A chunk, or a close, sold its primary leg and then failed; chunks       *)
(* before it may have sold some of both.                                   *)
FromExit ==
    \E sold \in [Leg -> 0..size], l, k \in Leg :
        /\ linked \in [Leg -> 1..size]
        /\ l # k /\ 0 < sold[l] /\ sold[l] <= linked[l] /\ sold[k] < linked[k]
        /\ stored = [j \in Leg |-> linked[j] - sold[j]]
        /\ status \in {"EXIT_PARTIAL", "SINGLE_LEG_EXPOSED"}

Init ==
    /\ crew \in Crews /\ origin \in Origins
    /\ size \in 1..MaxSize
    /\ linked \in [Leg -> 0..size] /\ stored \in [Leg -> 0..size]
    /\ status \in {"EXIT_PARTIAL", "SINGLE_LEG_EXPOSED"}
    /\ IF origin = "entry" THEN FromEntry ELSE FromExit
    /\ held = stored
    /\ task = [t \in Task |-> Idle]
    /\ notified = FALSE /\ closes = 0
    /\ overlap = FALSE /\ short = FALSE /\ torn = FALSE
    /\ pendings = 0 /\ dbFailures = 0 /\ crashes = 0

At(t, s) == t \in crew /\ task[t].at = s
Goto(t, s) == task' = [task EXCEPT ![t].at = s]
Leave(t) == task' = [task EXCEPT ![t] = Idle]

-----------------------------------------------------------------------------
(* The event and what auto-unwind does before it closes.                   *)

Exposed == status \in {"SINGLE_LEG_EXPOSED", "EXIT_PARTIAL"}

(* onSingleLegExposure; the operator may have been faster. *)
StartUnwind(u) ==
    /\ u \in Unwind /\ At(u, "idle") /\ ~notified
    /\ notified' = TRUE
    /\ Goto(u, "delay")
    /\ UNCHANGED <<crew, origin, size, row, stored, closes, held, history, faults>>

Recheck(u) ==
    /\ At(u, "delay")
    /\ IF Exposed THEN Goto(u, "estimate") ELSE Leave(u)
    /\ UNCHANGED <<crew, origin, size, row, stored, notified, closes, held, history, faults>>

(* It gives up when the loss is too large or the estimate fails in the     *)
(* database; without an order book it goes on.                             *)
Estimate(u) ==
    /\ At(u, "estimate")
    /\ Goto(u, "close") \/ Leave(u)
    /\ UNCHANGED <<crew, origin, size, row, stored, notified, closes, held, history, faults>>

-----------------------------------------------------------------------------
(* retryLeg and closeLeg.  A definition marked "fault" is a plausible      *)
(* mistake in the definition below it; the model does not use it.          *)

Ordering(t) == task[t].at \in {"order", "store", "write", "tell"}
Overlaps(t) == overlap' = (overlap \/ \E other \in crew \ {t} : Ordering(other))

AlwaysPolymarket == "polymarket"        \* fault: the leg is taken to be Polymarket's

(* getFailedPlatform, for a row that lacks an order, and getFilledPlatform. *)
FailedLeg == IF linked["kalshi"] = 0 THEN "kalshi" ELSE "polymarket"
FilledLeg == IF linked["kalshi"] # 0 THEN "kalshi" ELSE "polymarket"

OrderedSize(l) == size                  \* fault: what was ordered at entry, not what was filled

CloseSize(l) == linked[l]

BeginRetry(t) ==
    /\ t \in Retry /\ At(t, "idle")
    /\ Exposed /\ \E l \in Leg : linked[l] = 0
    /\ task' = [task EXCEPT ![t] = Ordered(FailedLeg, size)]
    /\ Overlaps(t)
    /\ UNCHANGED <<crew, origin, size, row, stored, notified, closes, held, short, torn, faults>>

Anything == TRUE                        \* fault: the check before the estimate is enough

Closeable == Exposed

BeginClose(t) ==
    /\ (t \in CloseLeg /\ At(t, "idle")) \/ At(t, "close")
    /\ IF Closeable
       THEN /\ task' = [task EXCEPT ![t] = Ordered(FilledLeg, CloseSize(FilledLeg))]
            /\ Overlaps(t)
       ELSE Leave(t) /\ UNCHANGED overlap
    /\ UNCHANGED <<crew, origin, size, row, stored, notified, closes, held, short, torn, faults>>

(* What n contracts bought, or sold, do to an account. *)
Booked(t, n) == IF t \in Retry THEN n ELSE -n

(* An order that does not fill, is refused or never sent leaves nothing.   *)
(* What one left pending, or one whose answer is lost, fills now or later  *)
(* is counted at once.                                                     *)
Order(t) ==
    LET l == task[t].leg
        Trades(n) == held' = [held EXCEPT ![l] = @ + Booked(t, n)]
    IN
    /\ At(t, "order")
    /\ \/ \E n \in 1..task[t].ordered :
            /\ Trades(n)
            /\ task' = [task EXCEPT ![t] = [@ EXCEPT !.at = "store", !.filled = n]]
            /\ short' = (short \/ (t \notin Retry /\ n < task[t].ordered))
            /\ UNCHANGED pendings
       \/ /\ pendings < MaxPending /\ pendings' = pendings + 1
          /\ \E n \in 0..task[t].ordered : Trades(n)
          /\ Leave(t) /\ UNCHANGED short
       \/ Leave(t) /\ UNCHANGED <<held, short, pendings>>
    /\ UNCHANGED <<crew, origin, size, row, stored, notified, closes, overlap, torn, dbFailures, crashes>>

AsOrdered(t) == task[t].ordered         \* fault: the row gets the size of the order, not of the fill

FillSize(t) == task[t].filled

Store(t) ==
    /\ At(t, "store")
    /\ stored' = [stored EXCEPT ![task[t].leg] = @ + Booked(t, FillSize(t))]
    /\ Goto(t, "write")
    /\ UNCHANGED <<crew, origin, size, row, notified, closes, held, history, faults>>

(* The row is overwritten, whatever it is by now. *)
WriteRow(t) ==
    /\ At(t, "write")
    /\ IF t \in Retry
       THEN /\ status' = "OPEN"
            /\ linked' = [linked EXCEPT ![task[t].leg] = task[t].filled]
            /\ Leave(t)
       ELSE /\ status' = "CLOSED" /\ UNCHANGED linked
            /\ Goto(t, "tell")
    /\ UNCHANGED <<crew, origin, size, stored, notified, closes, held, history, faults>>

FullCloses(t) ==                        \* fault: capital is returned for a full close only
    IF task[t].filled = task[t].ordered THEN closes + 1 ELSE closes

ClosesAfter(t) == closes + 1

TellRisk(t) ==
    /\ At(t, "tell")
    /\ closes' = ClosesAfter(t)
    /\ Leave(t)
    /\ UNCHANGED <<crew, origin, size, row, stored, notified, held, history, faults>>

-----------------------------------------------------------------------------
(* Failures. *)

DbFails(t) ==
    /\ At(t, "store") \/ At(t, "write")
    /\ dbFailures < MaxDbFailures /\ dbFailures' = dbFailures + 1
    /\ torn' = TRUE
    /\ Leave(t)
    /\ UNCHANGED <<crew, origin, size, row, stored, notified, closes, held, overlap, short, pendings, crashes>>

(* The process dies and comes back; the event is not emitted again.        *)
(* Orders on their way may still fill.                                     *)
Crash ==
    /\ crashes < MaxCrashes /\ crashes' = crashes + 1
    /\ torn' = (torn \/ \E t \in crew : Ordering(t))
    /\ task' = [t \in Task |-> Idle]
    /\ \E landed \in SUBSET {t \in crew : At(t, "order")} :
         held' = [l \in Leg |-> held[l] + SumFunction(
                     [t \in {u \in landed : task[u].leg = l} |-> Booked(t, task[t].ordered)])]
    /\ UNCHANGED <<crew, origin, size, row, stored, notified, closes, overlap, short, pendings, dbFailures>>

Step(t) ==
    \/ StartUnwind(t) \/ Recheck(t) \/ Estimate(t)
    \/ BeginRetry(t) \/ BeginClose(t)
    \/ Order(t) \/ Store(t) \/ WriteRow(t) \/ TellRisk(t) \/ DbFails(t)

Next == Crash \/ \E t \in Task : Step(t)

Spec == Init /\ [][Next]_vars

-----------------------------------------------------------------------------
(* Properties. *)

(* An order is for at least one contract and at most what was ordered at   *)
(* entry, and fills no more than it asks for.                              *)
TypeOK ==
    /\ crew \in Crews /\ origin \in Origins
    /\ status \in {"SINGLE_LEG_EXPOSED", "EXIT_PARTIAL", "OPEN", "CLOSED"}
    /\ size \in 1..MaxSize
    /\ linked \in [Leg -> 0..size] /\ stored \in [Leg -> Int] /\ held \in [Leg -> Int]
    /\ closes \in Nat
    /\ {notified, overlap, short, torn} \subseteq BOOLEAN
    /\ {pendings, dbFailures, crashes} \subseteq Nat
    /\ task \in [Task -> [at: Place, leg: Leg, ordered: 0..size, filled: 0..size]]
    /\ \A t \in Task : /\ task[t].filled <= task[t].ordered
                       /\ Ordering(t) => t \in crew /\ task[t].ordered > 0

Quiet == \A t \in Task : ~Ordering(t)
Unspoiled == pendings = 0 /\ ~torn

(* Between resolutions, and however they raced, the order rows of each leg *)
(* add up to what is held there, unless an order was left pending or a     *)
(* task was cut off after its fill.                                        *)
RowsMatchVenue == Quiet /\ Unspoiled => held = stored

(* A position that a retry has made OPEN holds on each leg what the order  *)
(* linked to it filled, unless two resolutions overlapped.                 *)
OpenIsHedged ==
    status = "OPEN" /\ ~overlap /\ Unspoiled => \A l \in Leg : linked[l] > 0 /\ held[l] = linked[l]

(* A position exposed at entry that closeLeg has closed, for an operator   *)
(* or for auto-unwind, holds nothing any more, unless two resolutions      *)
(* overlapped or the closing order filled in part.                         *)
ClosedEntryIsFlat ==
    origin = "entry" /\ status = "CLOSED" /\ ~overlap /\ Unspoiled /\ ~short => \A l \in Leg : held[l] = 0

(* The status a resolution leaves tells what is held at the venues.        *)
StatusMeansExposure == TypeOK /\ OpenIsHedged /\ ClosedEntryIsFlat

(* The risk manager hears of each close once: when a position is closed    *)
(* and nobody is at work, its slot was given back once.                    *)
SlotReturnedOnce == status = "CLOSED" /\ Quiet /\ ~overlap /\ ~torn => closes = 1

(* Nothing is sold of a position that has been resolved, however long      *)
(* auto-unwind slept or estimated in between, unless the resolution came   *)
(* between its last look at the row and its order.                         *)
NeverSellsResolved ==
    [][\A l \in Leg : held'[l] < held[l] => Exposed \/ overlap]_vars

=============================================================================

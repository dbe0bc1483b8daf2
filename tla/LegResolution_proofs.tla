------------------------ MODULE LegResolution_proofs ------------------------
(* Proofs about the resolution of an exposed position, for any number of   *)
(* retries, closes and unwinds in any crew, any size, and any number of    *)
(* pending orders, failed writes and crashes.                              *)
EXTENDS LegResolution, SumTheorems

-----------------------------------------------------------------------------
(* The inductive invariant.                                                *)

(* What the orders of a leg have filled and no order row shows yet.        *)
Unstored(l) == [t \in Task |-> IF task[t].at = "store" /\ task[t].leg = l
                               THEN Booked(t, task[t].filled) ELSE 0]

(* However many tasks work at once, each leg's account differs from its    *)
(* order rows by the fills on their way to them.                           *)
Ledger == Unspoiled => \A l \in Leg : held[l] = stored[l] + SumFunction(Unstored(l))

Resolving(t) == task[t].at \in {"order", "store", "write"}
Traded(t) == task[t].at \in {"store", "write"}

(* Without overlap one task at most is at its order, and until it writes   *)
(* the row the position is exposed as it found it.                         *)
SoleResolver ==
    ~overlap => \A t \in Task :
        /\ Ordering(t) => \A u \in Task : Ordering(u) => u = t
        /\ Resolving(t) => Exposed
        /\ task[t].at = "tell" => status = "CLOSED"

FillKnown == \A t \in Task :
    /\ Traded(t) => task[t].filled > 0
    /\ ~short /\ Traded(t) /\ t \notin Retry => task[t].filled = task[t].ordered

(* An exposure at exit leaves no leg to buy.                               *)
ExitKeepsLinks ==
    origin = "exit" => /\ status # "OPEN" /\ \A l \in Leg : linked[l] > 0
                       /\ \A t \in Task : Ordering(t) => t \notin Retry

(* An exposure at entry: one leg is linked.  A retry buys the other, a     *)
(* close sells what is linked.                                             *)
OneLegLinked ==
    origin = "entry" /\ Exposed /\ ~overlap =>
        /\ \E l \in Leg : linked[l] > 0 /\ \A k \in Leg \ {l} : linked[k] = 0
        /\ \A t \in Task : Ordering(t) =>
              IF t \in Retry THEN linked[task[t].leg] = 0
              ELSE linked[task[t].leg] > 0 /\ task[t].ordered = linked[task[t].leg]

(* What is held there is what is linked, and what the task at work traded. *)
HeldAsLinked ==
    origin = "entry" /\ Exposed /\ ~overlap /\ Unspoiled =>
        /\ \A t \in Task : Traded(t) =>
              held[task[t].leg] = linked[task[t].leg] + Booked(t, task[t].filled)
        /\ \A l \in Leg : (\A t \in Task : Traded(t) => task[t].leg # l) => held[l] = linked[l]

(* Once the row is OPEN, or CLOSED, nobody sends another order.            *)
ResolvedIsQuiet ==
    ~overlap => /\ status = "OPEN" => Quiet
                /\ status = "CLOSED" => \A t \in Task : ~Resolving(t)

(* The slot is returned once the row is closed, by the task that tells.    *)
ClosesCounted ==
    ~overlap /\ ~torn =>
        closes = IF status = "CLOSED" /\ Quiet THEN 1 ELSE 0

(* Only unwinds wait before they close, and a linked order stays linked.   *)
Footing == /\ \A t \in Task : task[t].at \in {"delay", "estimate", "close"} => t \notin Retry
           /\ \E l \in Leg : linked[l] > 0

LInv == /\ TypeOK /\ Ledger /\ SoleResolver /\ FillKnown /\ ExitKeepsLinks
        /\ OneLegLinked /\ HeldAsLinked /\ ResolvedIsQuiet /\ ClosesCounted
        /\ OpenIsHedged /\ ClosedEntryIsFlat

-----------------------------------------------------------------------------
(* What every step of a task has in common.                                *)

TaskState == [at: Place, leg: Leg, ordered: 0..size, filled: 0..size]

(* A step of t moves t only. *)
Alone(t) == \A u \in Task \ {t} : task'[u] = task[u]

LEMMA SizeType == TypeOK => size \in Nat /\ size \in 1..size /\ MaxSize \in Nat
BY ResolutionConstants DEF TypeOK

LEMMA LegsLinked ==
    ASSUME TypeOK
    PROVE  FilledLeg \in Leg /\ FailedLeg \in Leg /\ CloseSize(FilledLeg) \in 0..size
BY DEF TypeOK, FilledLeg, FailedLeg, CloseSize, Leg

(* Where an update of one task leaves that task and the others. *)
LEMMA TaskUpdate ==
    ASSUME TypeOK, NEW t \in Task, NEW v, task' = [task EXCEPT ![t] = v]
    PROVE  task'[t] = v /\ Alone(t)
BY DEF TypeOK, Alone

LEMMA TaskMove ==
    ASSUME TypeOK, NEW t \in Task, NEW s, Goto(t, s)
    PROVE  /\ Alone(t) /\ task'[t].at = s /\ task'[t].leg = task[t].leg
           /\ task'[t].ordered = task[t].ordered /\ task'[t].filled = task[t].filled
           /\ s \in Place => task'[t] \in TaskState
<1>1. task' = [task EXCEPT ![t] = [task[t] EXCEPT !.at = s]]
  BY DEF Goto
<1>2. task'[t] = [task[t] EXCEPT !.at = s] /\ Alone(t) /\ task[t] \in TaskState
  BY <1>1 DEF TypeOK, Alone, TaskState
<1> QED BY <1>2 DEF TaskState

LEMMA TaskLeaves ==
    ASSUME TypeOK, NEW t \in Task, Leave(t)
    PROVE  Alone(t) /\ task'[t] = Idle /\ task'[t] \in TaskState /\ ~Ordering(t)'
<1>1. task'[t] = Idle /\ Alone(t)
  BY TaskUpdate DEF Leave
<1>2. Idle \in TaskState
  BY SizeType DEF Idle, TaskState, Leg, Place
<1> QED BY <1>1, <1>2 DEF Idle, Ordering

(* A task's own state, its types kept, is all that types ask of a step. *)
LEMMA TaskTyped ==
    ASSUME TypeOK, NEW t \in Task, Alone(t), task' = [task EXCEPT ![t] = task'[t]], UNCHANGED <<crew, size>>,
           task'[t] \in TaskState, task'[t].filled <= task'[t].ordered,
           Ordering(t)' => t \in crew /\ task'[t].ordered > 0
    PROVE  /\ task' \in [Task -> [at: Place, leg: Leg, ordered: 0..size', filled: 0..size']]
           /\ \A u \in Task : /\ task'[u].filled <= task'[u].ordered
                              /\ Ordering(u)' => u \in crew' /\ task'[u].ordered > 0
<1>1. task' \in [Task -> TaskState]
  BY DEF TypeOK, TaskState
<1>2. \A u \in Task \ {t} : /\ task'[u].filled <= task'[u].ordered
                            /\ Ordering(u)' => u \in crew' /\ task'[u].ordered > 0
  BY DEF TypeOK, Alone, Ordering
<1> QED BY <1>1, <1>2 DEF TaskState

LEMMA UnstoredTyped ==
    ASSUME TypeOK, NEW l \in Leg
    PROVE  Unstored(l) \in [Task -> Int]
<1>1. \A t \in Task : Booked(t, task[t].filled) \in Int
  BY SizeType DEF TypeOK, Booked
<1> QED BY <1>1 DEF Unstored

LEMMA NextUnstoredTyped ==
    ASSUME TypeOK', NEW l \in Leg
    PROVE  Unstored(l)' \in [Task -> Int]
<1>1. \A t \in Task : Booked(t, task'[t].filled) \in Int
  <2>1. size' \in Nat /\ \A t \in Task : task'[t].filled \in 0..size'
    BY ResolutionConstants DEF TypeOK
  <2> QED BY <2>1 DEF Booked
<1> QED BY <1>1 DEF Unstored

(* The ledger survives a step of one task that changes the difference of   *)
(* account and order rows by what it changes of its own unstored fill.     *)
LEMMA LedgerStep ==
    ASSUME TypeOK, TypeOK', Ledger, NEW t \in Task, Alone(t), Unspoiled' => Unspoiled,
           Unspoiled' => \A l \in Leg : (held'[l] - stored'[l]) - Unstored(l)'[t]
                                         = (held[l] - stored[l]) - Unstored(l)[t]
    PROVE  Ledger'
<1> SUFFICES ASSUME Unspoiled', NEW l \in Leg
             PROVE  held'[l] = stored'[l] + SumFunction(Unstored(l)')
  BY DEF Ledger
<1>1. Unstored(l) \in [Task -> Int] /\ Unstored(l)' \in [Task -> Int]
  BY UnstoredTyped, NextUnstoredTyped
<1>2. \A u \in Task \ {t} : Unstored(l)'[u] = Unstored(l)[u]
  BY DEF Alone, Unstored
<1>3. held[l] = stored[l] + SumFunction(Unstored(l))
  BY DEF Ledger
<1>4. (held'[l] - stored'[l]) - Unstored(l)'[t] = (held[l] - stored[l]) - Unstored(l)[t]
  OBVIOUS
<1>5. held[l] \in Int /\ stored[l] \in Int /\ held'[l] \in Int /\ stored'[l] \in Int
  BY DEF TypeOK
<1> DEFINE before == Unstored(l)
           after == Unstored(l)'
<1> HIDE DEF before, after
<1>6. before \in [Task -> Int] /\ after \in [Task -> Int] /\ \A u \in Task \ {t} : after[u] = before[u]
  BY <1>1, <1>2 DEF before, after
<1>7. SumFunction(after) = SumFunction(before) + after[t] - before[t]
  BY <1>6, FiniteTasks, SumUpdate
<1>8. SumFunction(before) \in Int /\ SumFunction(after) \in Int /\ before[t] \in Int /\ after[t] \in Int
  BY <1>6, FiniteTasks, SumInteger
<1>9. held'[l] = stored'[l] + SumFunction(after)
  <2>1. held[l] = stored[l] + SumFunction(before)
    BY <1>3 DEF before
  <2>2. (held'[l] - stored'[l]) - after[t] = (held[l] - stored[l]) - before[t]
    BY <1>4 DEF before, after
  <2> DEFINE a == SumFunction(before)
             b == SumFunction(after)
             x == before[t]
             y == after[t]
             d == held[l] - stored[l]
             e == held'[l] - stored'[l]
  <2>3. a \in Int /\ b \in Int /\ x \in Int /\ y \in Int /\ d \in Int /\ e \in Int
    BY <1>5, <1>8
  <2>4. d = a /\ e - y = d - x /\ b = a + y - x
    BY <1>5, <1>7, <1>8, <2>1, <2>2
  <2>5. e = b
    <3> HIDE DEF a, b, x, y, d, e
    <3> QED BY <2>3, <2>4
  <2> QED BY <1>5, <1>8, <2>5
<1> QED BY <1>9 DEF after

-----------------------------------------------------------------------------
(* One lemma per kind of step.                                             *)

(* Waiting, looking and giving up: the task has traded nothing.            *)
LEMMA TradelessStep ==
    ASSUME LInv, NEW t \in Task, Alone(t), task' = [task EXCEPT ![t] = task'[t]],
           task'[t] \in TaskState, task'[t].filled <= task'[t].ordered, ~Ordering(t)',
           ~Traded(t), task[t].at # "tell", notified' \in BOOLEAN,
           UNCHANGED <<crew, origin, size, row, stored, closes, held, history, faults>>
    PROVE  LInv'
<1> USE DEF row, history, faults
<1>1. TypeOK /\ TypeOK'
  <2>1. TypeOK
    BY DEF LInv
  <2> QED BY <2>1, TaskTyped DEF TypeOK
<1>2. \A u \in Task : /\ Ordering(u)' => Ordering(u) /\ u # t /\ task'[u] = task[u]
                      /\ Traded(u)' <=> Traded(u)
                      /\ Traded(u) => task'[u] = task[u]
                      /\ task'[u].at = "tell" <=> task[u].at = "tell"
                      /\ Resolving(u)' => Resolving(u)
  BY DEF Alone, Ordering, Traded, Resolving
<1>3. Ledger'
  <2>1. \A l \in Leg : Unstored(l)[t] = 0 /\ Unstored(l)'[t] = 0
    BY DEF Unstored, Traded, Ordering
  <2> QED BY <1>1, <2>1, LedgerStep DEF LInv, Unspoiled
<1>4. SoleResolver' /\ ResolvedIsQuiet'
  BY <1>2 DEF LInv, SoleResolver, ResolvedIsQuiet, Exposed, Quiet
<1>5. FillKnown' /\ ExitKeepsLinks' /\ OneLegLinked'
  BY <1>2 DEF LInv, FillKnown, ExitKeepsLinks, OneLegLinked, Traded, Ordering, Exposed
<1>6. HeldAsLinked'
  BY <1>2 DEF LInv, HeldAsLinked, Exposed, Unspoiled
<1>7. ClosesCounted'
  <2>1. ~overlap /\ status = "CLOSED" => (Quiet <=> \A u \in Task : task[u].at # "tell")
    BY DEF LInv, ResolvedIsQuiet, Quiet, Ordering, Resolving
  <2>2. ~overlap /\ status = "CLOSED" => (Quiet' <=> \A u \in Task : task'[u].at # "tell")
    BY <1>4 DEF ResolvedIsQuiet, Quiet, Ordering, Resolving
  <2> QED BY <1>2, <2>1, <2>2 DEF LInv, ClosesCounted
<1>8. OpenIsHedged' /\ ClosedEntryIsFlat'
  BY DEF LInv, OpenIsHedged, ClosedEntryIsFlat, Unspoiled
<1> QED BY <1>1, <1>3, <1>4, <1>5, <1>6, <1>7, <1>8 DEF LInv

(* A task that found the position exposed sends its order.                 *)
LEMMA BeginStep ==
    ASSUME LInv, NEW t \in Task, t \in crew, NEW l \in Leg, NEW n \in 0..size, Exposed,
           task' = [task EXCEPT ![t] = Ordered(l, n)], n > 0, ~Ordering(t), Overlaps(t),
           IF t \in Retry THEN linked[l] = 0 ELSE linked[l] > 0 /\ n = linked[l],
           UNCHANGED <<crew, origin, size, row, stored, notified, closes, held, short, torn, faults>>
    PROVE  LInv'
<1> USE DEF row, faults
<1>1. Alone(t) /\ task'[t] = Ordered(l, n) /\ TypeOK /\ task'[t] \in TaskState
  <2>1. Ordered(l, n) \in TaskState
    BY SizeType DEF LInv, Ordered, TaskState, Place
  <2> QED BY <2>1, TaskUpdate DEF LInv
<1>2. /\ task'[t].at = "order" /\ task'[t].leg = l /\ task'[t].ordered = n /\ task'[t].filled = 0
  BY <1>1 DEF Ordered
<1>3. TypeOK'
  <2>1. overlap' \in BOOLEAN
    BY <1>1 DEF Overlaps, TypeOK
  <2>2. task' = [task EXCEPT ![t] = task'[t]]
    BY <1>1
  <2>3. task'[t].filled <= task'[t].ordered /\ task'[t].ordered > 0
    BY <1>2
  <2>4. /\ task' \in [Task -> [at: Place, leg: Leg, ordered: 0..size', filled: 0..size']]
        /\ \A u \in Task : /\ task'[u].filled <= task'[u].ordered
                           /\ Ordering(u)' => u \in crew' /\ task'[u].ordered > 0
    BY <1>1, <2>2, <2>3, TaskTyped
  <2> QED BY <1>1, <2>1, <2>4 DEF TypeOK
<1>4. /\ overlap => overlap'
      /\ ~overlap' => \A u \in Task \ {t} : ~Ordering(u) /\ ~Ordering(u)'
  BY <1>1 DEF Overlaps, TypeOK, Ordering, Alone
<1>5. Ledger'
  <2>1. \A k \in Leg : Unstored(k)[t] = 0 /\ Unstored(k)'[t] = 0
    BY <1>2 DEF Unstored, Ordering
  <2> QED BY <1>1, <1>3, <2>1, LedgerStep DEF LInv, Unspoiled
<1>6. SoleResolver' /\ ResolvedIsQuiet'
  BY <1>2, <1>4 DEF SoleResolver, ResolvedIsQuiet, Exposed, Quiet, Ordering, Resolving
<1>7. FillKnown'
  BY <1>1, <1>2 DEF LInv, FillKnown, Traded, Alone
<1>8. ExitKeepsLinks'
  BY <1>1, <1>2 DEF LInv, ExitKeepsLinks, Ordering, Alone
<1>9. OneLegLinked'
  BY <1>2, <1>4 DEF LInv, OneLegLinked, Exposed
<1>10. HeldAsLinked'
  <2>1. ~overlap' => \A u \in Task : ~Traded(u) /\ ~Traded(u)'
    BY <1>2, <1>4 DEF Traded, Ordering
  <2> QED BY <1>4, <2>1 DEF LInv, HeldAsLinked, Exposed, Unspoiled
<1>11. ClosesCounted'
  BY <1>4 DEF LInv, ClosesCounted, Exposed
<1>12. OpenIsHedged' /\ ClosedEntryIsFlat'
  BY DEF OpenIsHedged, ClosedEntryIsFlat, Exposed
<1> QED BY <1>3, <1>5, <1>6, <1>7, <1>8, <1>9, <1>10, <1>11, <1>12 DEF LInv

LEMMA FillRecorded ==
    ASSUME NEW s \in TaskState, NEW n \in 0..size
    PROVE  /\ [s EXCEPT !.at = "store", !.filled = n] \in TaskState
           /\ [s EXCEPT !.at = "store", !.filled = n].at = "store"
           /\ [s EXCEPT !.at = "store", !.filled = n].filled = n
           /\ [s EXCEPT !.at = "store", !.filled = n].leg = s.leg
           /\ [s EXCEPT !.at = "store", !.filled = n].ordered = s.ordered
<1> DEFINE r == [s EXCEPT !.at = "store", !.filled = n]
<1>1. r \in TaskState
  BY DEF TaskState, Place
<1>2. r.at = "store" /\ r.filled = n /\ r.leg = s.leg /\ r.ordered = s.ordered
  BY DEF TaskState
<1> QED BY <1>1, <1>2

LEMMA OrderFilled ==
    ASSUME TypeOK, NEW t \in Task, NEW n \in 0..size,
           task' = [task EXCEPT ![t] = [@ EXCEPT !.at = "store", !.filled = n]]
    PROVE  /\ task'[t] \in TaskState /\ task'[t].at = "store" /\ task'[t].filled = n
           /\ task'[t].leg = task[t].leg /\ task'[t].ordered = task[t].ordered
<1> DEFINE r == [task[t] EXCEPT !.at = "store", !.filled = n]
<1>1. task[t] \in TaskState /\ task \in [Task -> TaskState]
  BY DEF TypeOK, TaskState
<1>2. /\ r \in TaskState /\ r.at = "store" /\ r.filled = n
      /\ r.leg = task[t].leg /\ r.ordered = task[t].ordered
  BY <1>1, FillRecorded
<1>3. task' = [task EXCEPT ![t] = r]
  OBVIOUS
<1> HIDE DEF r
<1>4. task'[t] = r
  BY <1>1, <1>3
<1> QED BY <1>2, <1>4

(* An order fills, all of it or some. *)
LEMMA TradeStep ==
    ASSUME LInv, NEW t \in Task, At(t, "order"), NEW n \in 1..task[t].ordered,
           held' = [held EXCEPT ![task[t].leg] = @ + Booked(t, n)],
           task' = [task EXCEPT ![t] = [@ EXCEPT !.at = "store", !.filled = n]],
           short' = (short \/ (t \notin Retry /\ n < task[t].ordered)),
           UNCHANGED <<crew, origin, size, row, stored, notified, closes, overlap, torn, faults>>
    PROVE  LInv'
<1> USE DEF row, faults
<1> DEFINE l == task[t].leg
<1>1. /\ TypeOK /\ task[t] \in TaskState /\ task[t].at = "order" /\ l \in Leg /\ n \in Nat /\ n > 0
      /\ task[t].ordered \in 0..size /\ n \in 0..size /\ t \in crew
  BY SizeType DEF LInv, TypeOK, TaskState, At
<1>2. task'[t] = [task[t] EXCEPT !.at = "store", !.filled = n] /\ Alone(t)
  BY <1>1, TaskUpdate
<1>3. /\ task'[t].at = "store" /\ task'[t].leg = l /\ task'[t].ordered = task[t].ordered
      /\ task'[t].filled = n /\ task'[t] \in TaskState
  BY <1>1, OrderFilled
<1>4. Booked(t, n) \in Int /\ held'[l] = held[l] + Booked(t, n) /\ \A k \in Leg \ {l} : held'[k] = held[k]
  <2>1. Booked(t, n) \in Int
    BY <1>1 DEF Booked
  <2>2. held \in [Leg -> Int] /\ held' = [held EXCEPT ![l] = @ + Booked(t, n)] /\ l \in Leg
    BY <1>1 DEF TypeOK
  <2> QED BY <2>1, <2>2
<1>5. TypeOK'
  <2>1. task' = [task EXCEPT ![t] = task'[t]]
    BY <1>2
  <2>2. task'[t].filled <= task'[t].ordered /\ task'[t].ordered > 0
    BY <1>1, <1>3 DEF TypeOK, Ordering
  <2>3. /\ task' \in [Task -> [at: Place, leg: Leg, ordered: 0..size', filled: 0..size']]
        /\ \A u \in Task : /\ task'[u].filled <= task'[u].ordered
                           /\ Ordering(u)' => u \in crew' /\ task'[u].ordered > 0
    BY <1>1, <1>2, <1>3, <2>1, <2>2, TaskTyped
  <2>4. held' \in [Leg -> Int] /\ short' \in BOOLEAN
    BY <1>1, <1>4 DEF TypeOK
  <2> QED BY <1>1, <2>3, <2>4 DEF TypeOK
<1>6. \A u \in Task : /\ Ordering(u)' <=> Ordering(u)
                      /\ Resolving(u)' <=> Resolving(u)
                      /\ task'[u].at = "tell" <=> task[u].at = "tell"
                      /\ u # t => task'[u] = task[u]
  BY <1>1, <1>2, <1>3 DEF Alone, Ordering, Resolving
<1>7. Ledger'
  <2>1. \A k \in Leg : Unstored(k)[t] = 0 /\ Unstored(k)'[t] = IF k = l THEN Booked(t, n) ELSE 0
    BY <1>1, <1>3 DEF Unstored
  <2>2. \A k \in Leg : (held'[k] - stored'[k]) - Unstored(k)'[t] = (held[k] - stored[k]) - Unstored(k)[t]
    <3> SUFFICES ASSUME NEW k \in Leg
                 PROVE  (held'[k] - stored'[k]) - Unstored(k)'[t] = (held[k] - stored[k]) - Unstored(k)[t]
      OBVIOUS
    <3>1. held[k] \in Int /\ stored[k] \in Int /\ stored'[k] = stored[k]
      BY <1>1 DEF TypeOK
    <3>2. CASE k = l
      <4>1. held'[k] = held[k] + Booked(t, n) /\ Unstored(k)[t] = 0 /\ Unstored(k)'[t] = Booked(t, n)
        BY <1>4, <2>1, <3>2
      <4> HIDE DEF l
      <4> QED BY <1>4, <3>1, <4>1
    <3>3. CASE k # l
      BY <1>4, <2>1, <3>1, <3>3
    <3> QED BY <3>2, <3>3
  <2> QED BY <1>1, <1>2, <1>5, <2>2, LedgerStep DEF LInv, Unspoiled
<1>8. SoleResolver' /\ ResolvedIsQuiet'
  BY <1>6 DEF LInv, SoleResolver, ResolvedIsQuiet, Exposed, Quiet
<1>9. FillKnown'
  <2>1. ~short' /\ t \notin Retry => task'[t].filled = task'[t].ordered
    <3>1. short' \/ t \in Retry \/ ~(n < task[t].ordered)
      OBVIOUS
    <3>2. n <= task[t].ordered /\ task[t].ordered \in Nat
      BY <1>1, SizeType
    <3>3. ~(n < task[t].ordered) => n = task[t].ordered
      BY <1>1, <3>2
    <3> QED BY <1>3, <3>1, <3>3
  <2>2. short => short'
    OBVIOUS
  <2> QED BY <1>1, <1>3, <1>6, <2>1, <2>2 DEF LInv, FillKnown, Traded
<1>10. ExitKeepsLinks' /\ OneLegLinked'
  BY <1>3, <1>6 DEF LInv, ExitKeepsLinks, OneLegLinked, Exposed
<1>11. HeldAsLinked'
  <2> SUFFICES ASSUME origin = "entry", Exposed, ~overlap, Unspoiled
               PROVE  /\ \A u \in Task : Traded(u)' =>
                           held'[task'[u].leg] = linked[task'[u].leg] + Booked(u, task'[u].filled)
                      /\ \A k \in Leg : (\A u \in Task : Traded(u)' => task'[u].leg # k) => held'[k] = linked[k]
    BY DEF HeldAsLinked, Exposed, Unspoiled
  <2>1. \A u \in Task \ {t} : ~Ordering(u) /\ ~Traded(u) /\ ~Traded(u)'
    BY <1>1, <1>6 DEF LInv, SoleResolver, Ordering, Traded
  <2>2. ~Traded(t) /\ Traded(t)'
    BY <1>1, <1>3 DEF Traded
  <2>3. \A k \in Leg : held[k] = linked[k]
    BY <2>1, <2>2 DEF LInv, HeldAsLinked
  <2> QED BY <1>1, <1>3, <1>4, <2>1, <2>2, <2>3
<1>12. ClosesCounted'
  BY <1>6 DEF LInv, ClosesCounted, Quiet
<1>13. OpenIsHedged' /\ ClosedEntryIsFlat'
  <2>1. ~overlap => Exposed
    BY <1>1 DEF LInv, SoleResolver, Resolving
  <2> QED BY <2>1 DEF OpenIsHedged, ClosedEntryIsFlat, Exposed
<1> QED BY <1>5, <1>7, <1>8, <1>9, <1>10, <1>11, <1>12, <1>13 DEF LInv

(* The order is left pending: from here on nothing is said of what is held. *)
LEMMA PendingStep ==
    ASSUME LInv, NEW t \in Task, At(t, "order"), NEW n \in 0..task[t].ordered,
           held' = [held EXCEPT ![task[t].leg] = @ + Booked(t, n)], Leave(t),
           pendings' = pendings + 1,
           UNCHANGED <<crew, origin, size, row, stored, notified, closes, history, dbFailures, crashes>>
    PROVE  LInv'
<1> USE DEF row, history
<1>1. /\ TypeOK /\ task[t].at = "order" /\ task[t].leg \in Leg /\ n \in Nat /\ pendings \in Nat
      /\ task[t].ordered \in Nat
  BY SizeType DEF LInv, TypeOK, At
<1>2. Alone(t) /\ task'[t] = Idle /\ task'[t] \in TaskState /\ ~Ordering(t)'
  BY <1>1, TaskLeaves
<1>3. TypeOK'
  <2>1. task' = [task EXCEPT ![t] = task'[t]]
    BY <1>2 DEF Leave
  <2> task'[t].filled <= task'[t].ordered
    BY <1>2 DEF Idle
  <2>2. /\ task' \in [Task -> [at: Place, leg: Leg, ordered: 0..size', filled: 0..size']]
        /\ \A u \in Task : /\ task'[u].filled <= task'[u].ordered
                           /\ Ordering(u)' => u \in crew' /\ task'[u].ordered > 0
    BY <1>1, <1>2, <2>1, TaskTyped
  <2>3. held' \in [Leg -> Int] /\ pendings' \in Nat
    BY <1>1 DEF TypeOK, Booked
  <2> QED BY <1>1, <2>2, <2>3 DEF TypeOK
<1>4. ~Unspoiled'
  BY <1>1 DEF Unspoiled
<1>5. \A u \in Task : /\ Ordering(u)' => Ordering(u) /\ u # t /\ task'[u] = task[u]
                      /\ Traded(u)' => Traded(u) /\ task'[u] = task[u]
                      /\ task'[u].at = "tell" <=> task[u].at = "tell"
                      /\ Resolving(u)' => Resolving(u)
  BY <1>1, <1>2 DEF Alone, Ordering, Traded, Resolving, Idle
<1>6. SoleResolver' /\ ResolvedIsQuiet'
  BY <1>5 DEF LInv, SoleResolver, ResolvedIsQuiet, Exposed, Quiet
<1>7. FillKnown' /\ ExitKeepsLinks' /\ OneLegLinked'
  BY <1>5 DEF LInv, FillKnown, ExitKeepsLinks, OneLegLinked, Exposed
<1>8. ClosesCounted'
  <2>1. ~overlap => Exposed
    BY <1>1 DEF LInv, SoleResolver, Resolving
  <2> QED BY <2>1 DEF LInv, ClosesCounted, Exposed
<1> QED BY <1>3, <1>4, <1>6, <1>7, <1>8
        DEF LInv, Ledger, HeldAsLinked, OpenIsHedged, ClosedEntryIsFlat

(* The fill is added to the order rows. *)
LEMMA StoreStep ==
    ASSUME LInv, NEW t \in Task, Store(t)
    PROVE  LInv'
<1> DEFINE l == task[t].leg
           b == Booked(t, task[t].filled)
<1> USE DEF row, history, faults
<1>1. /\ TypeOK /\ task[t] \in TaskState /\ task[t].at = "store" /\ l \in Leg /\ b \in Int
      /\ stored' = [stored EXCEPT ![l] = @ + b] /\ Goto(t, "write")
      /\ UNCHANGED <<crew, origin, size, row, notified, closes, held, history, faults>>
  BY SizeType DEF LInv, TypeOK, TaskState, Store, At, FillSize, Booked
<1>2. /\ Alone(t) /\ task'[t].at = "write" /\ task'[t].leg = l /\ task'[t].ordered = task[t].ordered
      /\ task'[t].filled = task[t].filled /\ task'[t] \in TaskState
  BY <1>1, TaskMove DEF Place
<1>3. /\ stored'[l] = stored[l] + b /\ stored' \in [Leg -> Int]
      /\ \A k \in Leg \ {l} : stored'[k] = stored[k]
  BY <1>1 DEF TypeOK
<1>4. TypeOK'
  <2>1. task' = [task EXCEPT ![t] = task'[t]]
    BY <1>1 DEF Goto, TypeOK
  <2>2. task'[t].filled <= task'[t].ordered /\ (Ordering(t)' => t \in crew /\ task'[t].ordered > 0)
    BY <1>1, <1>2 DEF TypeOK, Ordering
  <2>3. /\ task' \in [Task -> [at: Place, leg: Leg, ordered: 0..size', filled: 0..size']]
        /\ \A u \in Task : /\ task'[u].filled <= task'[u].ordered
                           /\ Ordering(u)' => u \in crew' /\ task'[u].ordered > 0
    BY <1>1, <1>2, <2>1, <2>2, TaskTyped
  <2> HIDE DEF l, b
  <2> QED BY <1>1, <1>3, <2>3 DEF TypeOK
<1>5. \A u \in Task : /\ Ordering(u)' <=> Ordering(u)
                      /\ Resolving(u)' <=> Resolving(u)
                      /\ Traded(u)' <=> Traded(u)
                      /\ task'[u].at = "tell" <=> task[u].at = "tell"
                      /\ task'[u].leg = task[u].leg /\ task'[u].ordered = task[u].ordered
                      /\ task'[u].filled = task[u].filled
  BY <1>1, <1>2 DEF Alone, Ordering, Resolving, Traded
<1>6. Ledger'
  <2>1. \A k \in Leg : Unstored(k)'[t] = 0 /\ Unstored(k)[t] = IF k = l THEN b ELSE 0
    BY <1>1, <1>2 DEF Unstored
  <2>2. \A k \in Leg : (held'[k] - stored'[k]) - Unstored(k)'[t] = (held[k] - stored[k]) - Unstored(k)[t]
    <3> SUFFICES ASSUME NEW k \in Leg
                 PROVE  (held'[k] - stored'[k]) - Unstored(k)'[t] = (held[k] - stored[k]) - Unstored(k)[t]
      OBVIOUS
    <3>1. held[k] \in Int /\ stored[k] \in Int /\ held'[k] = held[k]
      BY <1>1 DEF TypeOK
    <3> HIDE DEF l, b
    <3>2. CASE k = l
      <4>1. stored'[k] = stored[k] + b /\ Unstored(k)[t] = b /\ Unstored(k)'[t] = 0
        BY <1>3, <2>1, <3>2
      <4> QED BY <1>1, <3>1, <4>1
    <3>3. CASE k # l
      BY <1>3, <2>1, <3>1, <3>3
    <3> QED BY <3>2, <3>3
  <2> QED BY <1>1, <1>2, <1>4, <2>2, LedgerStep DEF LInv, Unspoiled
<1>7. SoleResolver' /\ ResolvedIsQuiet' /\ ClosesCounted'
  BY <1>1, <1>5 DEF LInv, SoleResolver, ResolvedIsQuiet, ClosesCounted, Exposed, Quiet
<1>8. FillKnown' /\ ExitKeepsLinks' /\ OneLegLinked'
  BY <1>1, <1>5 DEF LInv, FillKnown, ExitKeepsLinks, OneLegLinked, Exposed
<1>9. HeldAsLinked'
  <2>1. \A u \in Task : Booked(u, task'[u].filled) = Booked(u, task[u].filled)
    BY <1>5
  <2> QED BY <1>1, <1>5, <2>1 DEF LInv, HeldAsLinked, Exposed, Unspoiled
<1>10. OpenIsHedged' /\ ClosedEntryIsFlat'
  BY <1>1 DEF LInv, OpenIsHedged, ClosedEntryIsFlat, Unspoiled
<1> QED BY <1>4, <1>6, <1>7, <1>8, <1>9, <1>10 DEF LInv

(* What remains of a task that has its fill stored does not touch accounts *)
(* or order rows.                                                          *)
LEMMA LedgerKept ==
    ASSUME LInv, TypeOK', NEW t \in Task, Alone(t), task[t].at # "store", task'[t].at # "store",
           UNCHANGED <<held, stored>>, Unspoiled' => Unspoiled
    PROVE  Ledger'
<1>1. \A k \in Leg : Unstored(k)[t] = 0 /\ Unstored(k)'[t] = 0
  BY DEF Unstored
<1> QED BY <1>1, LedgerStep DEF LInv

(* A retry links its order and declares the position hedged. *)
LEMMA RetryWrites ==
    ASSUME LInv, NEW t \in Retry, WriteRow(t)
    PROVE  LInv'
<1> DEFINE l == task[t].leg
<1> USE DEF history, faults
<1>1. /\ t \in Task /\ TypeOK /\ task[t] \in TaskState /\ task[t].at = "write" /\ l \in Leg
      /\ status' = "OPEN" /\ linked' = [linked EXCEPT ![l] = task[t].filled] /\ Leave(t)
      /\ UNCHANGED <<crew, origin, size, stored, notified, closes, held, history, faults>>
      /\ task[t].filled \in 0..size /\ task[t].filled > 0
  BY DEF LInv, TypeOK, TaskState, WriteRow, At, Task, FillKnown, Traded
<1>2. Alone(t) /\ task'[t] = Idle /\ task'[t] \in TaskState /\ ~Ordering(t)'
  BY <1>1, TaskLeaves
<1>3. /\ linked'[l] = task[t].filled /\ linked' \in [Leg -> 0..size]
      /\ \A k \in Leg \ {l} : linked'[k] = linked[k]
  BY <1>1 DEF TypeOK
<1>4. TypeOK'
  <2>1. task' = [task EXCEPT ![t] = task'[t]]
    BY <1>1, <1>2 DEF Leave
  <2>2. task'[t].filled <= task'[t].ordered
    BY <1>2 DEF Idle
  <2>3. /\ task' \in [Task -> [at: Place, leg: Leg, ordered: 0..size', filled: 0..size']]
        /\ \A u \in Task : /\ task'[u].filled <= task'[u].ordered
                           /\ Ordering(u)' => u \in crew' /\ task'[u].ordered > 0
    BY <1>1, <1>2, <2>1, <2>2, TaskTyped
  <2> HIDE DEF l
  <2> QED BY <1>1, <1>3, <2>3 DEF TypeOK
<1>5. \A u \in Task \ {t} : task'[u] = task[u]
  BY <1>2 DEF Alone
<1>6. Ledger'
  BY <1>1, <1>2, <1>4, LedgerKept DEF Idle, Unspoiled
<1>7. origin = "entry"
  <2>1. Ordering(t)
    BY <1>1 DEF Ordering
  <2> QED BY <1>1, <2>1, ResolutionConstants DEF LInv, ExitKeepsLinks, TypeOK
<1>8. ~overlap => Exposed /\ \A u \in Task \ {t} : ~Ordering(u)
  BY <1>1 DEF LInv, SoleResolver, Ordering, Resolving
<1>9. ~overlap' => Quiet'
  BY <1>1, <1>2, <1>5, <1>8 DEF Quiet, Ordering
<1>10. SoleResolver' /\ ResolvedIsQuiet'
  BY <1>1, <1>9 DEF SoleResolver, ResolvedIsQuiet, Quiet, Ordering, Resolving
<1>11. FillKnown'
  BY <1>1, <1>2, <1>5 DEF LInv, FillKnown, Traded, Idle
<1>12. ExitKeepsLinks' /\ OneLegLinked' /\ HeldAsLinked' /\ ClosedEntryIsFlat'
  BY <1>1, <1>7 DEF ExitKeepsLinks, OneLegLinked, HeldAsLinked, ClosedEntryIsFlat, Exposed
<1>13. ClosesCounted'
  BY <1>1, <1>8 DEF LInv, ClosesCounted, Exposed
<1>14. OpenIsHedged'
  <2> SUFFICES ASSUME ~overlap, Unspoiled, NEW k \in Leg
               PROVE  linked'[k] > 0 /\ held[k] = linked'[k]
    BY <1>1 DEF OpenIsHedged, Unspoiled
  <2>1. linked[l] = 0 /\ \A j \in Leg \ {l} : linked[j] > 0
    BY <1>1, <1>7, <1>8 DEF LInv, OneLegLinked, Ordering, Leg
  <2>2. held[l] = linked[l] + task[t].filled
    BY <1>1, <1>7, <1>8 DEF LInv, HeldAsLinked, Traded, Booked
  <2>3. \A j \in Leg \ {l} : held[j] = linked[j]
    <3>1. \A u \in Task : Traded(u) => u = t
      BY <1>8 DEF Traded, Ordering
    <3> QED BY <1>7, <1>8, <3>1 DEF LInv, HeldAsLinked
  <2>4. CASE k = l
    BY <1>1, <1>3, <2>1, <2>2, <2>4, SizeType
  <2>5. CASE k # l
    BY <1>3, <2>1, <2>3, <2>5
  <2> QED BY <2>4, <2>5
<1> QED BY <1>4, <1>6, <1>10, <1>11, <1>12, <1>13, <1>14 DEF LInv

(* A close declares the position closed and goes on to the risk manager. *)
LEMMA CloseWrites ==
    ASSUME LInv, NEW t \in Task \ Retry, WriteRow(t)
    PROVE  LInv'
<1> DEFINE l == task[t].leg
<1> USE DEF history, faults
<1>1. /\ TypeOK /\ task[t] \in TaskState /\ task[t].at = "write" /\ l \in Leg
      /\ status' = "CLOSED" /\ linked' = linked /\ Goto(t, "tell") /\ t \in crew
      /\ UNCHANGED <<crew, origin, size, stored, notified, closes, held, history, faults>>
  BY DEF LInv, TypeOK, TaskState, WriteRow, At
<1>2. /\ Alone(t) /\ task'[t].at = "tell" /\ task'[t].ordered = task[t].ordered
      /\ task'[t].filled = task[t].filled /\ task'[t] \in TaskState
  BY <1>1, TaskMove DEF Place
<1>3. TypeOK'
  <2>1. task' = [task EXCEPT ![t] = task'[t]]
    BY <1>1 DEF Goto, TypeOK
  <2>2. task'[t].filled <= task'[t].ordered /\ task'[t].ordered > 0
    BY <1>1, <1>2 DEF TypeOK, Ordering
  <2>3. /\ task' \in [Task -> [at: Place, leg: Leg, ordered: 0..size', filled: 0..size']]
        /\ \A u \in Task : /\ task'[u].filled <= task'[u].ordered
                           /\ Ordering(u)' => u \in crew' /\ task'[u].ordered > 0
    BY <1>1, <1>2, <2>1, <2>2, TaskTyped
  <2> HIDE DEF l
  <2> QED BY <1>1, <2>3 DEF TypeOK
<1>4. \A u \in Task \ {t} : task'[u] = task[u]
  BY <1>2 DEF Alone
<1>5. Ledger'
  BY <1>1, <1>2, <1>3, LedgerKept DEF Unspoiled
<1>6. ~overlap => Exposed /\ \A u \in Task \ {t} : ~Ordering(u) /\ ~Ordering(u)'
  BY <1>1, <1>4 DEF LInv, SoleResolver, Ordering, Resolving
<1>7. SoleResolver' /\ ResolvedIsQuiet'
  BY <1>1, <1>2, <1>6 DEF SoleResolver, ResolvedIsQuiet, Ordering, Resolving
<1>8. FillKnown'
  BY <1>1, <1>2, <1>4 DEF LInv, FillKnown, Traded
<1>9. ExitKeepsLinks'
  BY <1>1, <1>4 DEF LInv, ExitKeepsLinks, Ordering
<1>10. OneLegLinked' /\ HeldAsLinked' /\ OpenIsHedged'
  BY <1>1 DEF OneLegLinked, HeldAsLinked, OpenIsHedged, Exposed
<1>11. ClosesCounted'
  <2>1. ~Quiet'
    BY <1>2 DEF Quiet, Ordering
  <2> QED BY <1>1, <1>6, <2>1 DEF LInv, ClosesCounted, Exposed
<1>12. ClosedEntryIsFlat'
  <2> SUFFICES ASSUME origin = "entry", ~overlap, Unspoiled, ~short, NEW k \in Leg
               PROVE  held[k] = 0
    BY <1>1 DEF ClosedEntryIsFlat, Unspoiled
  <2>1. linked[l] > 0 /\ task[t].ordered = linked[l] /\ \A j \in Leg \ {l} : linked[j] = 0
    BY <1>1, <1>6 DEF LInv, OneLegLinked, Ordering, Leg
  <2>2. held[l] = linked[l] + Booked(t, task[t].filled) /\ task[t].filled = task[t].ordered
    BY <1>1, <1>6 DEF LInv, HeldAsLinked, FillKnown, Traded
  <2>3. \A j \in Leg \ {l} : held[j] = linked[j]
    <3>1. \A u \in Task : Traded(u) => u = t
      BY <1>6 DEF Traded, Ordering
    <3> QED BY <1>6, <3>1 DEF LInv, HeldAsLinked
  <2>4. linked[l] \in Nat
    BY <1>1, SizeType DEF TypeOK
  <2>5. held[l] = 0
    BY <2>1, <2>2, <2>4 DEF Booked
  <2> QED BY <2>1, <2>3, <2>5
<1> QED BY <1>3, <1>5, <1>7, <1>8, <1>9, <1>10, <1>11, <1>12 DEF LInv

(* The risk manager is told. *)
LEMMA TellStep ==
    ASSUME LInv, NEW t \in Task, TellRisk(t)
    PROVE  LInv'
<1> USE DEF row, history, faults
<1>1. /\ TypeOK /\ task[t].at = "tell" /\ closes' = closes + 1 /\ Leave(t)
      /\ UNCHANGED <<crew, origin, size, row, stored, notified, held, history, faults>>
  BY DEF LInv, TellRisk, At, ClosesAfter
<1>2. Alone(t) /\ task'[t] = Idle /\ task'[t] \in TaskState /\ ~Ordering(t)'
  BY <1>1, TaskLeaves
<1>3. TypeOK'
  <2>1. task' = [task EXCEPT ![t] = task'[t]]
    BY <1>1, <1>2 DEF Leave
  <2>2. task'[t].filled <= task'[t].ordered
    BY <1>2 DEF Idle
  <2>3. /\ task' \in [Task -> [at: Place, leg: Leg, ordered: 0..size', filled: 0..size']]
        /\ \A u \in Task : /\ task'[u].filled <= task'[u].ordered
                           /\ Ordering(u)' => u \in crew' /\ task'[u].ordered > 0
    BY <1>1, <1>2, <2>1, <2>2, TaskTyped
  <2> QED BY <1>1, <2>3 DEF TypeOK
<1>4. \A u \in Task : /\ Ordering(u)' => Ordering(u) /\ u # t /\ task'[u] = task[u]
                      /\ Traded(u)' <=> Traded(u)
                      /\ Traded(u) => task'[u] = task[u]
                      /\ task'[u].at = "tell" => task[u].at = "tell"
                      /\ Resolving(u)' => Resolving(u)
  BY <1>1, <1>2 DEF Alone, Ordering, Traded, Resolving, Idle
<1>5. Ledger'
  BY <1>1, <1>2, <1>3, LedgerKept DEF Idle, Unspoiled
<1>6. SoleResolver' /\ ResolvedIsQuiet'
  BY <1>1, <1>4 DEF LInv, SoleResolver, ResolvedIsQuiet, Exposed, Quiet
<1>7. FillKnown' /\ ExitKeepsLinks' /\ OneLegLinked' /\ HeldAsLinked'
  BY <1>1, <1>4 DEF LInv, FillKnown, ExitKeepsLinks, OneLegLinked, HeldAsLinked, Exposed, Unspoiled
<1>8. ClosesCounted'
  <2> SUFFICES ASSUME ~overlap, ~torn PROVE closes' = IF status = "CLOSED" /\ Quiet' THEN 1 ELSE 0
    BY <1>1 DEF ClosesCounted
  <2>1. status = "CLOSED" /\ ~Quiet /\ Quiet'
    BY <1>1, <1>4 DEF LInv, SoleResolver, Quiet, Ordering
  <2>2. closes = 0
    BY <2>1 DEF LInv, ClosesCounted
  <2> QED BY <1>1, <2>1, <2>2
<1>9. OpenIsHedged' /\ ClosedEntryIsFlat'
  BY <1>1 DEF LInv, OpenIsHedged, ClosedEntryIsFlat, Unspoiled
<1> QED BY <1>3, <1>5, <1>6, <1>7, <1>8, <1>9 DEF LInv

(* A write fails after the fill: the books are torn from then on. *)
LEMMA FailureStep ==
    ASSUME LInv, NEW t \in Task, DbFails(t)
    PROVE  LInv'
<1> USE DEF row
<1>1. /\ TypeOK /\ Traded(t) /\ torn' = TRUE /\ Leave(t) /\ dbFailures' = dbFailures + 1
      /\ UNCHANGED <<crew, origin, size, row, stored, notified, closes, held, overlap, short, pendings, crashes>>
  BY DEF LInv, DbFails, At, Traded
<1>2. Alone(t) /\ task'[t] = Idle /\ task'[t] \in TaskState /\ ~Ordering(t)'
  BY <1>1, TaskLeaves
<1>3. TypeOK'
  <2>1. task' = [task EXCEPT ![t] = task'[t]]
    BY <1>1, <1>2 DEF Leave
  <2>2. task'[t].filled <= task'[t].ordered
    BY <1>2 DEF Idle
  <2>3. /\ task' \in [Task -> [at: Place, leg: Leg, ordered: 0..size', filled: 0..size']]
        /\ \A u \in Task : /\ task'[u].filled <= task'[u].ordered
                           /\ Ordering(u)' => u \in crew' /\ task'[u].ordered > 0
    BY <1>1, <1>2, <2>1, <2>2, TaskTyped
  <2> QED BY <1>1, <2>3 DEF TypeOK
<1>4. \A u \in Task : /\ Ordering(u)' => Ordering(u) /\ u # t /\ task'[u] = task[u]
                      /\ Traded(u)' => Traded(u) /\ task'[u] = task[u]
                      /\ task'[u].at = "tell" <=> task[u].at = "tell"
                      /\ Resolving(u)' => Resolving(u)
  BY <1>1, <1>2 DEF Alone, Ordering, Traded, Resolving, Idle
<1>5. SoleResolver' /\ ResolvedIsQuiet'
  BY <1>1, <1>4 DEF LInv, SoleResolver, ResolvedIsQuiet, Exposed, Quiet
<1>6. FillKnown' /\ ExitKeepsLinks' /\ OneLegLinked'
  BY <1>1, <1>4 DEF LInv, FillKnown, ExitKeepsLinks, OneLegLinked, Exposed
<1> QED BY <1>1, <1>3, <1>5, <1>6
        DEF LInv, Ledger, HeldAsLinked, ClosesCounted, OpenIsHedged, ClosedEntryIsFlat, Unspoiled

(* What orders on their way do to an account while the process is down.    *)
Late(landed, l) == [t \in {u \in landed : task[u].leg = l} |-> Booked(t, task[t].ordered)]

LEMMA LateTyped ==
    ASSUME TypeOK, NEW landed \in SUBSET Task, NEW l \in Leg
    PROVE  /\ SumFunction(Late(landed, l)) \in Int
           /\ landed = {} => SumFunction(Late(landed, l)) = 0
<1> DEFINE D == {u \in landed : task[u].leg = l}
           f == [t \in D |-> Booked(t, task[t].ordered)]
<1>1. IsFiniteSet(D)
  BY FiniteTasks, FS_Subset
<1>2. \A t \in Task : Booked(t, task[t].ordered) \in Int
  BY SizeType DEF TypeOK, Booked
<1>3. f \in [D -> Int] /\ (landed = {} => D = {})
  BY <1>2
<1>4. f = Late(landed, l)
  BY DEF Late
<1> HIDE DEF D, f
<1>5. SumFunction(f) \in Int
  BY <1>1, <1>3, SumInteger
<1>6. landed = {} => SumFunction(f) = 0
  BY <1>3, SumEmpty
<1> QED BY <1>4, <1>5, <1>6

LEMMA CrashStep ==
    ASSUME LInv, Crash
    PROVE  LInv'
<1> USE DEF row
<1>1. /\ TypeOK /\ crashes' = crashes + 1 /\ task' = [t \in Task |-> Idle]
      /\ torn' = (torn \/ \E t \in crew : Ordering(t))
      /\ UNCHANGED <<crew, origin, size, row, stored, notified, closes, overlap, short, pendings, dbFailures>>
      /\ crew \subseteq Task
  BY ResolutionConstants DEF LInv, Crash, TypeOK
<1>2. PICK landed \in SUBSET {t \in crew : At(t, "order")} :
          held' = [l \in Leg |-> held[l] + SumFunction(Late(landed, l))]
  BY DEF Crash, Late
<1>3. \A l \in Leg : /\ SumFunction(Late(landed, l)) \in Int
                     /\ landed = {} => SumFunction(Late(landed, l)) = 0
  BY <1>1, LateTyped
<1>4. /\ held' \in [Leg -> Int]
      /\ landed = {} => held' = held
  <2>1. held \in [Leg -> Int]
    BY <1>1 DEF TypeOK
  <2> QED BY <1>2, <1>3, <2>1
<1>5. \A t \in Task : task'[t] = Idle /\ ~Ordering(t)' /\ ~Traded(t)' /\ ~Resolving(t)' /\ task'[t].at # "tell"
  BY <1>1 DEF Idle, Ordering, Traded, Resolving
<1>6. TypeOK'
  <2>1. Idle \in TaskState /\ Idle.filled <= Idle.ordered
    BY <1>1, SizeType DEF Idle, TaskState, Leg, Place
  <2>2. task' \in [Task -> TaskState]
    BY <1>1, <2>1
  <2>3. torn' \in BOOLEAN
    BY <1>1 DEF TypeOK
  <2> QED BY <1>1, <1>4, <1>5, <2>1, <2>2, <2>3 DEF TypeOK, TaskState
<1>7. ~torn' => /\ ~torn /\ landed = {} /\ held' = held
                /\ \A t \in Task : ~Ordering(t)
  <2> SUFFICES ASSUME ~torn' PROVE ~torn /\ landed = {} /\ \A t \in Task : ~Ordering(t)
    BY <1>4
  <2>1. ~torn /\ \A t \in crew : ~Ordering(t)
    BY <1>1
  <2>2. \A t \in Task : ~Ordering(t)
    BY <1>1, <2>1 DEF TypeOK
  <2>3. landed = {}
    BY <2>1 DEF At, Ordering
  <2> QED BY <2>1, <2>2, <2>3
<1>8. Ledger'
  <2> SUFFICES ASSUME Unspoiled', NEW l \in Leg
               PROVE  held'[l] = stored'[l] + SumFunction(Unstored(l)')
    BY DEF Ledger
  <2>1. ~torn' /\ Unspoiled
    BY <1>1, <1>7 DEF Unspoiled
  <2>2. Unstored(l)' = Unstored(l)
    <3>1. \A t \in Task : task[t].at # "store" /\ task'[t].at # "store"
      BY <1>5, <1>7, <2>1 DEF Ordering
    <3> QED BY <3>1 DEF Unstored
  <2> QED BY <1>1, <1>7, <2>1, <2>2 DEF LInv, Ledger
<1>9. SoleResolver' /\ FillKnown' /\ ResolvedIsQuiet'
  BY <1>5 DEF SoleResolver, FillKnown, ResolvedIsQuiet, Quiet
<1>10. ExitKeepsLinks' /\ OneLegLinked'
  BY <1>1, <1>5 DEF LInv, ExitKeepsLinks, OneLegLinked, Exposed
<1>11. HeldAsLinked'
  BY <1>1, <1>5, <1>7 DEF LInv, HeldAsLinked, Exposed, Unspoiled, Traded, Ordering
<1>12. ClosesCounted'
  BY <1>1, <1>5, <1>7 DEF LInv, ClosesCounted, Quiet
<1>13. OpenIsHedged' /\ ClosedEntryIsFlat'
  BY <1>1, <1>7 DEF LInv, OpenIsHedged, ClosedEntryIsFlat, Unspoiled
<1> QED BY <1>6, <1>8, <1>9, <1>10, <1>11, <1>12, <1>13 DEF LInv

-----------------------------------------------------------------------------
(* The invariant and what it gives.                                        *)

LEMMA InitLInv == Init => LInv
<1> SUFFICES ASSUME Init PROVE LInv
  OBVIOUS
<1>1. /\ task = [t \in Task |-> Idle] /\ held = stored /\ closes = 0 /\ pendings = 0
      /\ dbFailures = 0 /\ crashes = 0 /\ ~torn /\ ~overlap /\ ~short /\ ~notified
      /\ size \in 1..MaxSize /\ size \in Nat /\ linked \in [Leg -> 0..size] /\ stored \in [Leg -> 0..size]
      /\ Exposed /\ crew \in Crews /\ origin \in Origins
  BY ResolutionConstants DEF Init, Exposed
<1>2. \A t \in Task : task[t] = Idle /\ ~Ordering(t) /\ ~Traded(t) /\ ~Resolving(t) /\ task[t].at # "tell"
  BY <1>1 DEF Idle, Ordering, Traded, Resolving
<1>3. TypeOK
  <2>1. Idle \in TaskState /\ Idle.filled <= Idle.ordered
    BY <1>1 DEF Idle, TaskState, Leg, Place
  <2>2. task \in [Task -> TaskState]
    BY <1>1, <2>1
  <2>3. stored \in [Leg -> Int] /\ held \in [Leg -> Int]
    BY <1>1
  <2>4. \A t \in Task : task[t].filled <= task[t].ordered
    BY <1>2, <2>1
  <2>5. {pendings, dbFailures, crashes} \subseteq Nat
    BY <1>1
  <2>6. notified = FALSE /\ overlap = FALSE /\ short = FALSE /\ torn = FALSE
    BY DEF Init
  <2> QED BY <1>1, <1>2, <2>2, <2>3, <2>4, <2>5, <2>6 DEF TypeOK, TaskState, Exposed
<1>4. Ledger
  <2> SUFFICES ASSUME NEW l \in Leg PROVE held[l] = stored[l] + SumFunction(Unstored(l))
    BY DEF Ledger
  <2> DEFINE none == [t \in {} |-> Unstored(l)[t]]
  <2>1. Unstored(l) \in [Task -> Int] /\ {} \in SUBSET Task /\ \A t \in Task \ {} : Unstored(l)[t] = 0
    BY <1>2, <1>3, UnstoredTyped DEF Unstored, Idle
  <2>2. SumFunction(none) = SumFunction(Unstored(l))
    BY <2>1, FiniteTasks, SumSupport
  <2>3. none \in [{} -> Int]
    OBVIOUS
  <2> HIDE DEF none
  <2>4. SumFunction(none) = 0
    BY <2>3, SumEmpty
  <2> QED BY <1>1, <2>2, <2>4
<1>5. SoleResolver /\ FillKnown /\ ResolvedIsQuiet
  BY <1>1, <1>2 DEF SoleResolver, FillKnown, ResolvedIsQuiet, Quiet, Exposed
<1>6. ExitKeepsLinks /\ OneLegLinked /\ HeldAsLinked
  <2>1. CASE origin = "entry"
    <3>1. FromEntry
      BY <2>1 DEF Init
    <3>2. PICK l \in Leg, n \in 1..size : linked = [k \in Leg |-> IF k = l THEN n ELSE 0] /\ stored = linked
      BY <3>1 DEF FromEntry
    <3>3. linked[l] > 0 /\ \A k \in Leg \ {l} : linked[k] = 0
      BY <1>1, <3>2
    <3> QED BY <1>1, <1>2, <2>1, <3>2, <3>3 DEF ExitKeepsLinks, OneLegLinked, HeldAsLinked
  <2>2. CASE origin # "entry"
    <3>1. linked \in [Leg -> 1..size]
      BY <2>2 DEF Init, FromExit
    <3> QED BY <1>1, <1>2, <2>2, <3>1 DEF ExitKeepsLinks, OneLegLinked, HeldAsLinked, Exposed
  <2> QED BY <2>1, <2>2
<1>7. ClosesCounted /\ OpenIsHedged /\ ClosedEntryIsFlat
  BY <1>1 DEF ClosesCounted, OpenIsHedged, ClosedEntryIsFlat, Exposed
<1> QED BY <1>3, <1>4, <1>5, <1>6, <1>7 DEF LInv

(* Every step keeps its footing. *)
LEMMA FootingStep == LInv /\ Footing /\ [Next]_vars => Footing'
<1> SUFFICES ASSUME LInv, Footing, [Next]_vars PROVE Footing'
  OBVIOUS
<1> USE DEF row
<1>1. TypeOK
  BY DEF LInv
<1>2. ASSUME NEW t \in Task, Alone(t), linked' = linked,
             task'[t].at \in {"delay", "estimate", "close"} => t \notin Retry
      PROVE  Footing'
  BY <1>2 DEF Footing, Alone
<1>3. ASSUME NEW t \in Task, Step(t) PROVE Footing'
  <2>1. CASE StartUnwind(t)
    <3>1. Goto(t, "delay") /\ t \in Unwind /\ linked' = linked
      BY <2>1 DEF StartUnwind
    <3> QED BY <1>1, <1>2, <3>1, TaskMove, ResolutionConstants
  <2>2. CASE Recheck(t) \/ Estimate(t)
    <3>1. (Leave(t) \/ \E s \in {"estimate", "close"} : Goto(t, s)) /\ linked' = linked /\ t \notin Retry
      BY <2>2 DEF Recheck, Estimate, Footing, At
    <3>2. CASE Leave(t)
      BY <1>1, <1>2, <3>1, <3>2, TaskLeaves DEF Idle
    <3>3. ASSUME NEW s \in {"estimate", "close"}, Goto(t, s) PROVE Footing'
      BY <1>1, <1>2, <3>1, <3>3, TaskMove
    <3> QED BY <3>1, <3>2, <3>3
  <2>3. CASE BeginRetry(t) \/ BeginClose(t)
    <3>1. linked' = linked /\ (Leave(t) \/ \E l \in Leg, n \in 0..size : task' = [task EXCEPT ![t] = Ordered(l, n)])
      <4>1. size \in 0..size
        BY <1>1, SizeType
      <4> QED BY <1>1, <2>3, <4>1, LegsLinked DEF BeginRetry, BeginClose
    <3>2. CASE Leave(t)
      BY <1>1, <1>2, <3>1, <3>2, TaskLeaves DEF Idle
    <3>3. ASSUME NEW l \in Leg, NEW n \in 0..size, task' = [task EXCEPT ![t] = Ordered(l, n)] PROVE Footing'
      <4>1. Alone(t) /\ task'[t] = Ordered(l, n)
        BY <1>1, <3>3, TaskUpdate
      <4>2. task'[t].at = "order"
        BY <4>1, SMTT(30) DEF Ordered
      <4> QED BY <1>2, <3>1, <4>1, <4>2
    <3> QED BY <3>1, <3>2, <3>3
  <2>4. CASE Order(t)
    <3>1. linked' = linked /\ task[t] \in TaskState
      BY <1>1, <2>4 DEF Order, TypeOK, TaskState
    <3>2. CASE Leave(t)
      BY <1>1, <1>2, <3>1, <3>2, TaskLeaves DEF Idle
    <3>3. ASSUME NEW n, task' = [task EXCEPT ![t] = [@ EXCEPT !.at = "store", !.filled = n]] PROVE Footing'
      <4>1. Alone(t) /\ task'[t] = [task[t] EXCEPT !.at = "store", !.filled = n]
        BY <1>1, <3>3, TaskUpdate
      <4>2. task'[t].at = "store"
        BY <3>1, <4>1 DEF TaskState
      <4> QED BY <1>2, <3>1, <4>1, <4>2
    <3> QED BY <2>4, <3>2, <3>3 DEF Order
  <2>5. CASE Store(t)
    <3>1. Goto(t, "write") /\ linked' = linked
      BY <2>5 DEF Store
    <3> QED BY <1>1, <1>2, <3>1, TaskMove
  <2>6. CASE WriteRow(t)
    <3>1. CASE t \in Retry
      <4>1. /\ task[t].leg \in Leg /\ task[t].filled > 0 /\ Leave(t)
            /\ linked' = [linked EXCEPT ![task[t].leg] = task[t].filled]
        BY <2>6, <3>1 DEF LInv, FillKnown, Traded, TypeOK, WriteRow, At
      <4>2. linked'[task[t].leg] > 0
        BY <1>1, <4>1 DEF TypeOK
      <4>3. Alone(t) /\ task'[t].at = "idle"
        BY <1>1, <4>1, TaskLeaves DEF Idle
      <4> QED BY <4>1, <4>2, <4>3 DEF Footing, Alone
    <3>2. CASE t \notin Retry
      <4>1. linked' = linked /\ Goto(t, "tell")
        BY <2>6, <3>2 DEF WriteRow
      <4> QED BY <1>1, <1>2, <4>1, TaskMove
    <3> QED BY <3>1, <3>2
  <2>7. CASE TellRisk(t) \/ DbFails(t)
    <3>1. Leave(t) /\ linked' = linked
      BY <2>7 DEF TellRisk, DbFails
    <3> QED BY <1>1, <1>2, <3>1, TaskLeaves DEF Idle
  <2> QED BY <1>3, <2>1, <2>2, <2>3, <2>4, <2>5, <2>6, <2>7 DEF Step
<1>4. CASE Crash
  BY <1>4 DEF Crash, Footing, Idle
<1>5. CASE UNCHANGED vars
  BY <1>5 DEF vars, Footing
<1> QED BY <1>3, <1>4, <1>5 DEF Next

LEMMA TaskSteps ==
    ASSUME LInv, Footing, NEW t \in Task, Step(t)
    PROVE  LInv'
<1>1. TypeOK /\ Idle \in TaskState /\ Idle.filled <= Idle.ordered
  BY SizeType DEF LInv, Idle, TaskState, Leg, Place
<1>2. ASSUME NEW s \in {"delay", "estimate", "close"}, Goto(t, s), task[t].at \in {"idle", "delay", "estimate"},
             notified' \in BOOLEAN,
             UNCHANGED <<crew, origin, size, row, stored, closes, held, history, faults>>
      PROVE  LInv'
  <2>1. /\ Alone(t) /\ task'[t].at = s /\ task'[t] \in TaskState
        /\ task'[t].ordered = task[t].ordered /\ task'[t].filled = task[t].filled
    BY <1>1, <1>2, TaskMove DEF Place
  <2>2. task' = [task EXCEPT ![t] = task'[t]]
    BY <1>1, <1>2 DEF Goto, TypeOK
  <2>3. task'[t].filled <= task'[t].ordered /\ ~Ordering(t)' /\ ~Traded(t) /\ task[t].at # "tell"
    BY <1>1, <1>2, <2>1 DEF TypeOK, Ordering, Traded
  <2> QED BY <1>2, <2>1, <2>2, <2>3, TradelessStep
<1>3. ASSUME Leave(t), task[t].at \in {"idle", "delay", "estimate", "close", "order"}, notified' = notified,
             UNCHANGED <<crew, origin, size, row, stored, closes, held, history, faults>>
      PROVE  LInv'
  <2>1. Alone(t) /\ task'[t] = Idle /\ task'[t] \in TaskState /\ ~Ordering(t)'
    BY <1>1, <1>3, TaskLeaves
  <2>2. task' = [task EXCEPT ![t] = task'[t]]
    BY <1>3, <2>1 DEF Leave
  <2>3. task'[t].filled <= task'[t].ordered /\ ~Traded(t) /\ task[t].at # "tell"
    BY <1>1, <1>3, <2>1 DEF Traded
  <2>4. notified' \in BOOLEAN
    BY <1>1, <1>3 DEF TypeOK
  <2> QED BY <1>3, <2>1, <2>2, <2>3, <2>4, TradelessStep
<1>4. CASE StartUnwind(t)
  BY <1>2, <1>4 DEF StartUnwind, At
<1>5. CASE Recheck(t)
  BY <1>1, <1>2, <1>3, <1>5 DEF Recheck, At, TypeOK
<1>6. CASE Estimate(t)
  BY <1>1, <1>2, <1>3, <1>6 DEF Estimate, At, TypeOK
<1>7. CASE BeginRetry(t)
  <2>1. FailedLeg \in Leg /\ linked[FailedLeg] = 0
    BY <1>1, <1>7 DEF BeginRetry, FailedLeg, Leg, TypeOK
  <2>2. size \in 0..size /\ size > 0 /\ ~Ordering(t) /\ t \in crew /\ t \in Retry
    BY <1>1, <1>7, SizeType DEF BeginRetry, At, Ordering, TypeOK
  <2>3. /\ Exposed /\ task' = [task EXCEPT ![t] = Ordered(FailedLeg, size)] /\ Overlaps(t)
        /\ UNCHANGED <<crew, origin, size, row, stored, notified, closes, held, short, torn, faults>>
    BY <1>7 DEF BeginRetry
  <2> QED BY <2>1, <2>2, <2>3, BeginStep
<1>8. CASE BeginClose(t)
  <2>1. t \in crew /\ task[t].at \in {"idle", "close"} /\ (t \in CloseLeg \/ task[t].at = "close")
    BY <1>8 DEF BeginClose, At
  <2>2. CASE Exposed
    <3>1. FilledLeg \in Leg /\ CloseSize(FilledLeg) = linked[FilledLeg] /\ linked[FilledLeg] > 0
      BY <1>1, LegsLinked DEF Footing, FilledLeg, CloseSize, Leg, TypeOK
    <3>2. CloseSize(FilledLeg) \in 0..size /\ ~Ordering(t)
      BY <1>1, <2>1, LegsLinked DEF Ordering
    <3>3. t \notin Retry
      BY <2>1, ResolutionConstants DEF Footing
    <3>4. /\ task' = [task EXCEPT ![t] = Ordered(FilledLeg, CloseSize(FilledLeg))] /\ Overlaps(t)
          /\ UNCHANGED <<crew, origin, size, row, stored, notified, closes, held, short, torn, faults>>
      BY <1>8, <2>2 DEF BeginClose, Closeable
    <3> HIDE DEF FilledLeg, CloseSize
    <3> QED BY <2>1, <2>2, <3>1, <3>2, <3>3, <3>4, BeginStep, ZenonT(60)
  <2>3. CASE ~Exposed
    BY <1>1, <1>3, <1>8, <2>1, <2>3 DEF BeginClose, Closeable, history, TypeOK
  <2> QED BY <2>2, <2>3
<1>9. CASE Order(t)
  <2>1. At(t, "order") /\ task[t].at = "order"
    BY <1>9 DEF Order, At
  <2>2. ASSUME NEW n \in 1..task[t].ordered,
               held' = [held EXCEPT ![task[t].leg] = @ + Booked(t, n)],
               task' = [task EXCEPT ![t] = [@ EXCEPT !.at = "store", !.filled = n]],
               short' = (short \/ (t \notin Retry /\ n < task[t].ordered)), UNCHANGED pendings
        PROVE  LInv'
    BY <1>9, <2>1, <2>2, TradeStep DEF Order, faults
  <2>3. ASSUME NEW n \in 0..task[t].ordered, pendings' = pendings + 1,
               held' = [held EXCEPT ![task[t].leg] = @ + Booked(t, n)], Leave(t), UNCHANGED short
        PROVE  LInv'
    BY <1>9, <2>1, <2>3, PendingStep DEF Order, history
  <2>4. CASE Leave(t) /\ UNCHANGED <<held, short, pendings>>
    BY <1>3, <1>9, <2>1, <2>4 DEF Order, history, faults
  <2> QED BY <1>9, <2>2, <2>3, <2>4, ZenonT(30) DEF Order
<1>10. CASE WriteRow(t)
  BY <1>10, RetryWrites, CloseWrites
<1> QED
  BY <1>4, <1>5, <1>6, <1>7, <1>8, <1>9, <1>10, StoreStep, TellStep, FailureStep DEF Step

LEMMA LInvStep == LInv /\ Footing /\ [Next]_vars => LInv'
<1> SUFFICES ASSUME LInv, Footing, [Next]_vars PROVE LInv'
  OBVIOUS
<1>1. CASE UNCHANGED vars
  <2>1. \A l \in Leg : Unstored(l)' = Unstored(l)
    BY <1>1 DEF vars, Unstored
  <2>2. Ledger'
    BY <1>1, <2>1 DEF LInv, Ledger, Unspoiled, vars, history, faults
  <2>3. TypeOK' /\ SoleResolver' /\ FillKnown' /\ ExitKeepsLinks'
    BY <1>1 DEF LInv, TypeOK, SoleResolver, FillKnown, ExitKeepsLinks, Exposed, Ordering, Resolving, Traded,
                vars, row, history, faults
  <2>4. OneLegLinked' /\ HeldAsLinked' /\ ResolvedIsQuiet' /\ ClosesCounted'
    BY <1>1 DEF LInv, OneLegLinked, HeldAsLinked, ResolvedIsQuiet, ClosesCounted, Exposed, Ordering, Resolving,
                Traded, Quiet, Unspoiled, vars, row, history, faults
  <2>5. OpenIsHedged' /\ ClosedEntryIsFlat'
    BY <1>1 DEF LInv, OpenIsHedged, ClosedEntryIsFlat, Unspoiled, vars, row, history, faults
  <2> QED BY <2>2, <2>3, <2>4, <2>5 DEF LInv
<1> QED BY <1>1, CrashStep, TaskSteps DEF Next

LEMMA InitFooting == Init => Footing
<1> SUFFICES ASSUME Init PROVE Footing
  OBVIOUS
<1>1. \A t \in Task : task[t].at = "idle"
  BY DEF Init, Idle
<1>2. \E l \in Leg : linked[l] > 0
  <2>1. CASE origin = "entry"
    <3>1. PICK l \in Leg, n \in 1..size : linked = [k \in Leg |-> IF k = l THEN n ELSE 0]
      BY <2>1 DEF Init, FromEntry
    <3> QED BY <3>1
  <2>2. CASE origin # "entry"
    <3>1. linked \in [Leg -> 1..size] /\ "kalshi" \in Leg
      BY <2>2 DEF Init, FromExit, Leg
    <3> QED BY <3>1
  <2> QED BY <2>1, <2>2
<1> QED BY <1>1, <1>2 DEF Footing

(* The invariant holds in every state, whatever crews are at work.         *)
THEOREM ResolutionInvariant == Spec => [](LInv /\ Footing)
BY InitLInv, InitFooting, LInvStep, FootingStep, PTL DEF Spec

(* However many retries, closes and unwinds race, once nobody is at work   *)
(* the order rows of each leg add up to what is held there.                *)
THEOREM RowsAlwaysMatchVenue == Spec => []RowsMatchVenue
<1>1. LInv => RowsMatchVenue
  <2> SUFFICES ASSUME LInv, Quiet, Unspoiled PROVE held = stored
    BY DEF RowsMatchVenue
  <2>1. held \in [Leg -> Int] /\ stored \in [Leg -> Int] /\ TypeOK
    BY DEF LInv, TypeOK
  <2>2. ASSUME NEW l \in Leg PROVE held[l] = stored[l]
    <3> DEFINE none == [t \in {} |-> Unstored(l)[t]]
    <3>1. Unstored(l) \in [Task -> Int] /\ {} \in SUBSET Task /\ \A t \in Task \ {} : Unstored(l)[t] = 0
      BY <2>1, UnstoredTyped DEF Unstored, Quiet, Ordering
    <3>2. SumFunction(none) = SumFunction(Unstored(l))
      BY <3>1, FiniteTasks, SumSupport
    <3>3. none \in [{} -> Int]
      OBVIOUS
    <3> HIDE DEF none
    <3>4. SumFunction(none) = 0
      BY <3>3, SumEmpty
    <3>5. held[l] = stored[l] + SumFunction(Unstored(l)) /\ stored[l] \in Int
      BY <2>1 DEF LInv, Ledger
    <3>6. SumFunction(Unstored(l)) = 0
      BY <3>2, <3>4
    <3>7. held[l] = stored[l] + 0
      BY <3>5, <3>6
    <3> QED BY <3>5, <3>7
  <2> QED BY <2>1, <2>2
<1> QED BY <1>1, ResolutionInvariant, PTL

(* The status a resolution leaves tells what is held at the venues.        *)
THEOREM StatusAlwaysMeansExposure == Spec => []StatusMeansExposure
<1>1. LInv => StatusMeansExposure
  BY DEF LInv, StatusMeansExposure
<1> QED BY <1>1, ResolutionInvariant, PTL

(* A closed position has given its slot back once.                         *)
THEOREM SlotAlwaysReturnedOnce == Spec => []SlotReturnedOnce
<1>1. LInv => SlotReturnedOnce
  BY DEF LInv, ClosesCounted, SlotReturnedOnce
<1> QED BY <1>1, ResolutionInvariant, PTL

(* Nothing is sold of a position already resolved when the order was       *)
(* decided on, however long the unwind slept.                              *)
THEOREM ResolvedNeverSold == Spec => NeverSellsResolved
<1>1. LInv /\ [Next]_vars => [\A l \in Leg : held'[l] < held[l] => Exposed \/ overlap]_vars
  <2> SUFFICES ASSUME LInv, Next, ~Exposed, ~overlap PROVE \A l \in Leg : ~(held'[l] < held[l])
    OBVIOUS
  <2>1. TypeOK /\ \A t \in Task : task[t].at # "order"
    BY DEF LInv, SoleResolver, Resolving
  <2>2. held' = held
    <3>1. CASE Crash
      <4>1. PICK landed \in SUBSET {t \in crew : At(t, "order")} :
                held' = [l \in Leg |-> held[l] + SumFunction(Late(landed, l))]
        BY <3>1 DEF Crash, Late
      <4>2. landed = {}
        BY <2>1, ResolutionConstants, SMTT(30) DEF At, TypeOK
      <4>3. \A l \in Leg : SumFunction(Late(landed, l)) = 0
        BY <2>1, <4>2, LateTyped, SMTT(30)
      <4> QED BY <2>1, <4>1, <4>3 DEF TypeOK
    <3>2. ASSUME NEW t \in Task, Step(t) PROVE held' = held
      BY <2>1, <3>2 DEF Step, StartUnwind, Recheck, Estimate, BeginRetry, BeginClose, Order, Store,
                        WriteRow, TellRisk, DbFails, At
    <3> QED BY <3>1, <3>2 DEF Next
  <2>3. held \in [Leg -> Int]
    BY <2>1 DEF TypeOK
  <2> QED BY <2>2, <2>3
<1> QED BY <1>1, ResolutionInvariant, PTL DEF Spec, NeverSellsResolved
=============================================================================

------------------------ MODULE PositionExit_proofs ------------------------
(* Proofs about the sale of a position, for any size, any number of chunks *)
(* and of operators, any pending orders, failed writes and crashes.        *)
(*                                                                         *)
(* They suppose what the run exit_race shows the code does not ensure:     *)
(* that a cycle of the monitor sells alone, with no other cycle and no     *)
(* operator at work on the same position.                                  *)
EXTENDS PositionExit, TLAPS

SellersApart == \A C \in Crews : C \subseteq Close \/ \E p \in Poll : C = {p}

USE DEF Leg

-----------------------------------------------------------------------------
(* The inductive invariant.                                                *)

Active(t) == task[t].at \notin {"idle", "wait"}
HasRead(t) == task[t].at \in {"size", "check", "sell", "recordPrimary", "sellSecondary",
                              "recordSecondary", "expose", "write"}
Selling(t) == task[t].at \in {"check", "sell", "recordPrimary", "sellSecondary", "recordSecondary"}
HalfSold(t) == task[t].at \in {"sellSecondary", "recordSecondary"}

(* Nobody writes the row between a task's reading it and its writing it.   *)
RowAsRead(t) ==
    HasRead(t) => Closeable(status) /\ task[t].seen = status /\ task[t].existing = pnl

(* A task that has sold nothing yet remembers no fill, one that has does.  *)
FillsKept(t) ==
    /\ task[t].at \in {"idle", "wait", "read", "size", "check"} => task[t].done = 0 /\ task[t].filled = None
    /\ task[t].done > 0 => task[t].filled # None
    /\ task[t].at = "expose" => task[t].done = 0

(* A chunk in work takes no more of a leg than the cycle has left of it.   *)
ChunkInWork(t) ==
    /\ task[t].at \in {"recordPrimary", "sellSecondary", "recordSecondary"} =>
          /\ task[t].filled["primary"] > 0
          /\ \A l \in Leg : task[t].filled[l] <= task[t].chunk /\ task[t].chunk <= task[t].remaining[l]
    /\ task[t].at \in {"idle", "wait", "read", "size", "check", "sell"} => task[t].rounds < MaxChunks
    /\ task[t].at = "recordPrimary" => task[t].filled["secondary"] = 0
    /\ task[t].at = "recordSecondary" => task[t].filled["secondary"] > 0

(* What the orders of the chunk in work have already taken off a leg.      *)
Recorded(t, l) == IF HalfSold(t) /\ l = "primary" THEN task[t].filled["primary"] ELSE 0

(* What a cycle still means to sell covers what the order rows leave, and  *)
(* is just that unless an exit was cut off before.                         *)
RemainingCovers(t) == \A l \in Leg :
    /\ Selling(t) \/ task[t].at = "write" =>
          entry[l] - exits[l] <= task[t].remaining[l] - Recorded(t, l)
    /\ Selling(t) /\ ~torn => entry[l] - exits[l] = task[t].remaining[l] - Recorded(t, l)

TaskInv(t) == RowAsRead(t) /\ FillsKept(t) /\ ChunkInWork(t) /\ RemainingCovers(t)

(* An OPEN row means that no exit order is stored, but for the cycle that  *)
(* is about to change the row, which remembers its fills.                  *)
Touched(t) == task[t].at \in {"sellSecondary", "recordSecondary", "expose", "write"} \/ task[t].done > 0
OpenUntouched ==
    /\ ~torn /\ status = "OPEN" /\ (\A t \in Task : ~Touched(t)) => exits = None
    /\ status = "OPEN" => \A t \in Task : Touched(t) => task[t].filled # None

(* What the risk manager heard of, and what a cycle has yet to tell it,    *)
(* are the order rows.                                                     *)
Clean == ~(torn \/ lone \/ restarted)
Untold(t) == IF Active(t) THEN task[t].done + Recorded(t, "primary") ELSE 0
SoldIsTold ==
    Clean => /\ (\A t \in Task : ~Active(t)) => told = Total(exits)
             /\ \A t \in Task : Active(t) => Total(exits) = told + Untold(t)

Telling(t) == task[t].at = "tell"
PnlIsTold ==
    ~restarted => /\ (\A t \in Task : ~Telling(t)) => pnl = told
                  /\ \A t \in Task : Telling(t) => pnl = told + task[t].done

ClosesCounted ==
    /\ \A t \in Task : Telling(t) => status # "OPEN" /\ (status = "CLOSED" <=> FullExit(t))
    /\ ~restarted =>
          closes = IF status = "CLOSED" /\ \A t \in Task : ~Telling(t) THEN 1 ELSE 0

ExInv == /\ TypeOK /\ \A t \in Task : TaskInv(t)
         /\ OpenUntouched /\ SoldIsTold /\ PnlIsTold /\ ClosesCounted
         /\ ExitsWithinEntry /\ ClosedMeansExited

(* The same, when no task but t is at work. *)
RestIdle(t) == \A u \in Task \ {t} : ~Active(u)
BookInv(t) ==
    /\ ~torn /\ status = "OPEN" /\ ~Touched(t) => exits = None
    /\ status = "OPEN" /\ Touched(t) => task[t].filled # None
    /\ Clean => Total(exits) = told + Untold(t)
    /\ ~restarted => pnl = told + IF Telling(t) THEN task[t].done ELSE 0
    /\ Telling(t) => status # "OPEN" /\ (status = "CLOSED" <=> FullExit(t))
    /\ ~restarted => closes = IF status = "CLOSED" /\ ~Telling(t) THEN 1 ELSE 0
    /\ ExitsWithinEntry /\ ClosedMeansExited

-----------------------------------------------------------------------------
(* One seller at a time.                                                   *)

LEMMA Sizes == TypeOK => /\ MaxSize \in Nat /\ \A l \in Leg : entry[l] \in Nat \ {0} /\ exits[l] \in Nat
                         /\ None \in [Leg -> 0..MaxSize]
BY ExitConstants DEF TypeOK, None

LEMMA Sole ==
    ASSUME SellersApart, TypeOK, NEW t \in Task, Active(t)
    PROVE  RestIdle(t) /\ t \in crew
<1>1. crew \in Crews /\ \A u \in Task : Active(u) => u \in crew /\ (u \in Close => lock = u)
  BY DEF TypeOK, Active
<1> QED BY <1>1 DEF SellersApart, RestIdle

LEMMA NextSole ==
    ASSUME SellersApart, TypeOK', NEW t \in Task, Active(t)'
    PROVE  RestIdle(t)'
<1>1. crew' \in Crews /\ \A u \in Task : Active(u)' => u \in crew' /\ (u \in Close => lock' = u)
  BY DEF TypeOK, Active
<1> QED BY <1>1 DEF SellersApart, RestIdle

LEMMA TakeApart ==
    ASSUME ExInv, NEW t \in Task, RestIdle(t)
    PROVE  TaskInv(t) /\ BookInv(t)
<1>1. TypeOK /\ TaskInv(t)
  BY DEF ExInv
<1>2. \A u \in Task \ {t} : task[u].done = 0 /\ ~Touched(u) /\ ~Telling(u)
  <2>1. \A u \in Task \ {t} : task[u].at \in {"idle", "wait"} /\ task[u].done = 0
    BY DEF ExInv, TaskInv, RestIdle, Active, FillsKept
  <2> QED BY <2>1 DEF Touched, Telling
<1>3. (\A u \in Task : ~Active(u)) <=> ~Active(t)
  BY DEF RestIdle
<1>4. Clean => Total(exits) = told + Untold(t)
  <2>1. told \in Nat
    BY <1>1 DEF TypeOK
  <2> QED BY <1>3, <2>1 DEF ExInv, SoldIsTold, Untold
<1>5. ~restarted => pnl = told + IF Telling(t) THEN task[t].done ELSE 0
  <2>1. told \in Nat
    BY <1>1 DEF TypeOK
  <2> QED BY <1>2, <2>1 DEF ExInv, PnlIsTold
<1> QED BY <1>1, <1>2, <1>4, <1>5 DEF ExInv, BookInv, OpenUntouched, ClosesCounted

LEMMA PutTogether ==
    ASSUME ExInv, TypeOK', NEW t \in Task, RestIdle(t)', \A u \in Task \ {t} : task'[u] = task[u],
           TaskInv(t)', BookInv(t)'
    PROVE  ExInv'
<1>1. \A u \in Task \ {t} : /\ ~Active(u)' /\ ~Touched(u)' /\ ~Telling(u)' /\ TaskInv(u)'
  <2>1. \A u \in Task \ {t} : /\ task'[u].at \in {"idle", "wait"} /\ task'[u].done = 0
                              /\ task'[u].filled = None /\ task'[u].rounds < MaxChunks
    BY DEF ExInv, TaskInv, RestIdle, Active, FillsKept, ChunkInWork
  <2>2. \A u \in Task \ {t} : ~Active(u)' /\ ~Touched(u)' /\ ~Telling(u)'
    BY <2>1 DEF Active, Touched, Telling
  <2>3. \A u \in Task \ {t} : RowAsRead(u)' /\ FillsKept(u)' /\ ChunkInWork(u)'
    BY <2>1 DEF RowAsRead, FillsKept, ChunkInWork, HasRead
  <2>4. \A u \in Task \ {t} : RemainingCovers(u)'
    BY <2>1 DEF RemainingCovers, Selling
  <2> QED BY <2>2, <2>3, <2>4 DEF TaskInv
<1>2. OpenUntouched'
  BY <1>1 DEF BookInv, OpenUntouched
<1>3. told' \in Nat
  BY DEF TypeOK
<1>4. SoldIsTold'
  BY <1>1, <1>3 DEF BookInv, SoldIsTold, Untold, Clean
<1>5. PnlIsTold'
  BY <1>1, <1>3 DEF BookInv, PnlIsTold
<1>6. ClosesCounted'
  BY <1>1 DEF BookInv, ClosesCounted
<1> QED BY <1>1, <1>2, <1>4, <1>5, <1>6 DEF ExInv, BookInv

-----------------------------------------------------------------------------
(* One lemma per kind of step.                                             *)

VarTypes ==
    /\ status \in Status /\ {pnl, told, closes} \subseteq Nat
    /\ exits \in [Leg -> Nat] /\ held \in [Leg -> Int] /\ resting \in [Leg -> Nat]
    /\ {torn, lone, restarted} \subseteq BOOLEAN /\ {pendings, dbFailures, crashes} \subseteq Nat

(* A step of the task that alone is at work leaves it in state r. *)
Becomes(t, r) ==
    /\ task' = [task EXCEPT ![t] = r] /\ r \in TaskState
    /\ r.at # "idle" => t \in crew
    /\ crew' = crew /\ entry' = entry
    /\ lock' \in Close \cup {NoTask}
    /\ t \in Close /\ r.at \notin {"idle", "wait"} => lock' = t

LEMMA WorkStep ==
    ASSUME ExInv, NEW t \in Task, RestIdle(t), NEW r, Becomes(t, r), VarTypes', TaskInv(t)', BookInv(t)'
    PROVE  ExInv'
<1>1. TypeOK
  BY DEF ExInv
<1>2. task'[t] = r /\ \A u \in Task \ {t} : task'[u] = task[u]
  BY <1>1 DEF Becomes, TypeOK
<1>3. RestIdle(t)'
  BY <1>2 DEF RestIdle, Active
<1>4. task' \in [Task -> TaskState]
  BY <1>1 DEF Becomes, TypeOK
<1>5. ASSUME NEW u \in Task
      PROVE  /\ task'[u].at # "idle" => u \in crew'
             /\ u \in Close /\ task'[u].at \notin {"idle", "wait"} => lock' = u
  <2>1. CASE u = t
    BY <1>2, <2>1 DEF Becomes
  <2>2. CASE u # t
    BY <1>1, <1>2, <1>3, <2>2 DEF Becomes, RestIdle, Active, TypeOK
  <2> QED BY <2>1, <2>2
<1>6. TypeOK'
  BY <1>1, <1>4, <1>5 DEF TypeOK, VarTypes, Becomes
<1> QED BY <1>2, <1>3, <1>6, PutTogether

LEMMA IdleTyped == TypeOK => Idle \in TaskState
BY Sizes, ExitConstants DEF Idle, TaskState, Place, Status

(* What a task that leaves, for whatever reason, has to see to. *)
LEMMA LeaveStep ==
    ASSUME SellersApart, ExInv, NEW t \in Task, Active(t), Leave(t), Unlock(t) \/ lock' = lock,
           crew' = crew, entry' = entry, VarTypes',
           /\ ~torn' /\ status' = "OPEN" => exits' = None
           /\ Clean' => Total(exits') = told'
           /\ ~restarted' => pnl' = told'
           /\ ~restarted' => closes' = IF status' = "CLOSED" THEN 1 ELSE 0
           /\ ExitsWithinEntry' /\ ClosedMeansExited'
    PROVE  ExInv'
<1>1. TypeOK /\ Idle \in TaskState /\ RestIdle(t) /\ t \in crew
  BY Sole, IdleTyped DEF ExInv
<1>2. task'[t] = Idle
  BY <1>1 DEF Leave, TypeOK
<1>3. Becomes(t, Idle)
  BY <1>1 DEF Becomes, Leave, Unlock, Idle, TypeOK
<1>4. task'[t].at = "idle" /\ task'[t].done = 0 /\ task'[t].filled = None /\ task'[t].rounds = 0
  BY <1>2 DEF Idle
<1>5. TaskInv(t)'
  <2>1. RowAsRead(t)' /\ RemainingCovers(t)'
    BY <1>4 DEF RowAsRead, RemainingCovers, HasRead, Selling
  <2>2. FillsKept(t)' /\ ChunkInWork(t)'
    BY <1>4, ExitConstants DEF FillsKept, ChunkInWork
  <2> QED BY <2>1, <2>2 DEF TaskInv
<1>6. BookInv(t)'
  <2>1. told' \in Nat
    BY DEF VarTypes
  <2> QED BY <1>4, <2>1 DEF BookInv, Touched, Untold, Active, Telling
<1> QED BY <1>1, <1>3, <1>5, <1>6, WorkStep

(* Leaving with nothing done. *)
LEMMA GiveUp ==
    ASSUME SellersApart, ExInv, NEW t \in Task, Active(t), Leave(t), Unlock(t) \/ lock' = lock,
           crew' = crew, entry' = entry, VarTypes',
           ~Touched(t), ~Telling(t), UNCHANGED <<row, exits, risk, history>>
    PROVE  ExInv'
<1>1. TypeOK /\ TaskInv(t) /\ BookInv(t)
  BY Sole, TakeApart DEF ExInv
<1>2. task[t].done \in Nat /\ told \in Nat
  BY <1>1 DEF TypeOK, TaskState
<1>3. Recorded(t, "primary") = 0 /\ task[t].done = 0 /\ Untold(t) = 0
  BY <1>2 DEF Touched, Recorded, HalfSold, Untold
<1>4. /\ ~torn /\ status = "OPEN" => exits = None
      /\ Clean => Total(exits) = told
      /\ ~restarted => pnl = told
      /\ ~restarted => closes = IF status = "CLOSED" THEN 1 ELSE 0
      /\ ExitsWithinEntry /\ ClosedMeansExited
  BY <1>1, <1>2, <1>3 DEF BookInv
<1>5. /\ ExitsWithinEntry' /\ ClosedMeansExited' /\ (Clean' <=> Clean)
  BY <1>4 DEF ExitsWithinEntry, ClosedMeansExited, row, history, Clean
<1> QED BY <1>4, <1>5, LeaveStep DEF row, risk, history

(* The monitor's query, and the re-read under the lock. *)
LEMMA ReadStep ==
    ASSUME SellersApart, ExInv, NEW t \in Task, Read(t)
    PROVE  ExInv'
<1> USE DEF row, risk, venue, history, faults
<1>1. TypeOK /\ t \in crew /\ crew \in Crews /\ VarTypes'
  BY DEF ExInv, TypeOK, VarTypes, Read, At
<1>2. RestIdle(t)
  <2>1. CASE t \in Poll
    <3>1. crew = {t}
      BY <1>1, <2>1, ExitConstants DEF SellersApart
    <3> QED BY <1>1, <3>1 DEF RestIdle, Active, TypeOK
  <2>2. CASE t \notin Poll
    BY <1>1, <2>2, Sole DEF Read, At, Active
  <2> QED BY <2>1, <2>2
<1>3. TaskInv(t) /\ BookInv(t) /\ task[t].done = 0 /\ task[t].filled = None /\ ~Touched(t) /\ ~Telling(t)
      /\ task[t].at \in {"idle", "read"}
  <2>1. TaskInv(t) /\ BookInv(t) /\ task[t].at \in {"idle", "read"}
    BY <1>2, TakeApart DEF Read, At
  <2> QED BY <2>1 DEF TaskInv, FillsKept, Touched, Telling
<1>4. CASE Closeable(status)
  <2> DEFINE r == [Idle EXCEPT !.at = "size", !.seen = status, !.existing = pnl]
  <2>1. /\ r.at = "size" /\ r.seen = status /\ r.existing = pnl /\ r.done = 0 /\ r.rounds = 0 /\ r.filled = None
        /\ r \in TaskState
    BY <1>1, IdleTyped DEF Idle, TaskState, Place, TypeOK
  <2>2. task' = [task EXCEPT ![t] = r] /\ lock' = lock /\ UNCHANGED <<crew, row, entry, exits, risk, venue, history, faults>>
    BY <1>4 DEF Read
  <2> HIDE DEF r
  <2>3. task'[t] = r
    BY <1>1, <2>2 DEF TypeOK
  <2>4. Becomes(t, r)
    <3>1. t \in Close => lock = t
      <4>1. t \in Close => task[t].at = "read"
        BY ExitConstants DEF Read, At
      <4> QED BY <1>1, <4>1 DEF TypeOK
    <3> QED BY <1>1, <2>1, <2>2, <3>1 DEF Becomes, TypeOK
  <2>5. TaskInv(t)'
    <3>1. RowAsRead(t)' /\ RemainingCovers(t)'
      BY <1>4, <2>1, <2>2, <2>3 DEF RowAsRead, RemainingCovers, Selling
    <3>2. FillsKept(t)' /\ ChunkInWork(t)'
      BY <2>1, <2>3, ExitConstants DEF FillsKept, ChunkInWork
    <3> QED BY <3>1, <3>2 DEF TaskInv
  <2>6. BookInv(t)'
    <3>1. told \in Nat /\ Untold(t) = 0 /\ Untold(t)' = 0 /\ ~Touched(t)' /\ ~Telling(t)'
      BY <1>1, <1>3, <2>1, <2>3 DEF TypeOK, Untold, Recorded, HalfSold, Touched, Telling
    <3>2. ExitsWithinEntry' /\ ClosedMeansExited' /\ (Clean' <=> Clean)
      BY <1>3, <2>2 DEF BookInv, ExitsWithinEntry, ClosedMeansExited, Clean
    <3> QED BY <1>3, <2>2, <3>1, <3>2 DEF BookInv
  <2> QED BY <1>1, <1>2, <2>4, <2>5, <2>6, WorkStep
<1>5. CASE ~Closeable(status)
  <2>1. t \notin Poll /\ task[t].at = "read" /\ Leave(t) /\ Unlock(t)
        /\ UNCHANGED <<crew, row, entry, exits, risk, venue, history, faults>>
    BY <1>5 DEF Read, Closeable, At
  <2> QED BY <1>1, <1>3, <2>1, GiveUp DEF Active
<1> QED BY <1>4, <1>5

(* Asking for the lock sets nothing to work. *)
LEMMA AskStep ==
    ASSUME ExInv, NEW t \in Task, AskToClose(t)
    PROVE  ExInv'
<1> USE DEF row, risk, venue, history, faults
<1>1. /\ TypeOK /\ t \in crew /\ task[t].at = "idle" /\ task[t] \in TaskState /\ Goto(t, "wait")
      /\ UNCHANGED <<crew, row, entry, exits, lock, risk, venue, history, faults>>
  BY DEF ExInv, TypeOK, AskToClose, At
<1>2. task' = [task EXCEPT ![t] = [task[t] EXCEPT !.at = "wait"]]
  BY <1>1 DEF Goto
<1>3. task'[t] = [task[t] EXCEPT !.at = "wait"] /\ \A u \in Task \ {t} : task'[u] = task[u]
  BY <1>1, <1>2 DEF TypeOK
<1>4. /\ task'[t].at = "wait" /\ task'[t].done = task[t].done /\ task'[t].filled = task[t].filled
      /\ task'[t].rounds = task[t].rounds /\ task'[t] \in TaskState
  BY <1>1, <1>3 DEF TaskState, Place
<1>5. TypeOK'
  <2>1. task' \in [Task -> TaskState]
    BY <1>1, <1>2, <1>3, <1>4 DEF TypeOK
  <2> QED BY <1>1, <1>3, <1>4, <2>1 DEF TypeOK
<1>6. \A u \in Task : /\ (Active(u)' <=> Active(u)) /\ (Telling(u)' <=> Telling(u))
                      /\ (Touched(u)' <=> Touched(u)) /\ task'[u].filled = task[u].filled
                      /\ task'[u].done = task[u].done /\ (Active(u) => task'[u] = task[u])
  BY <1>1, <1>3, <1>4 DEF Active, Telling, Touched
<1>7. ASSUME NEW u \in Task PROVE TaskInv(u)'
  <2>1. TaskInv(u)
    BY DEF ExInv
  <2>2. CASE u = t
    <3>1. RowAsRead(t)' /\ RemainingCovers(t)'
      BY <1>4 DEF RowAsRead, RemainingCovers, HasRead, Selling
    <3>2. FillsKept(t)' /\ ChunkInWork(t)'
      BY <1>1, <1>4, <2>1, <2>2 DEF TaskInv, FillsKept, ChunkInWork
    <3> QED BY <2>2, <3>1, <3>2 DEF TaskInv
  <2>3. CASE u # t
    BY <1>1, <1>3, <2>1, <2>3 DEF TaskInv, RowAsRead, FillsKept, ChunkInWork, RemainingCovers, HasRead, Selling,
                                  Recorded, HalfSold
  <2> QED BY <2>2, <2>3
<1>8. OpenUntouched' /\ ExitsWithinEntry' /\ ClosedMeansExited'
  BY <1>1, <1>6 DEF ExInv, OpenUntouched, ExitsWithinEntry, ClosedMeansExited
<1>9. SoldIsTold'
  <2>1. \A u \in Task : Active(u) => Untold(u)' = Untold(u)
    BY <1>6 DEF Untold, Recorded, HalfSold
  <2> QED BY <1>1, <1>6, <2>1 DEF ExInv, SoldIsTold, Clean
<1>10. PnlIsTold'
  BY <1>1, <1>6 DEF ExInv, PnlIsTold
<1>11. ClosesCounted'
  BY <1>1, <1>6 DEF ExInv, ClosesCounted, FullExit, Telling, Active
<1> QED BY <1>5, <1>7, <1>8, <1>9, <1>10, <1>11 DEF ExInv

LEMMA AcquireStep ==
    ASSUME SellersApart, ExInv, NEW t \in Task, Acquire(t)
    PROVE  ExInv'
<1> USE DEF row, risk, venue, history, faults
<1> DEFINE r == [task[t] EXCEPT !.at = "read"]
<1>1. /\ TypeOK /\ t \in crew /\ t \in Close /\ task[t].at = "wait" /\ task[t] \in TaskState /\ lock = NoTask
      /\ crew \in Crews /\ VarTypes' /\ task' = [task EXCEPT ![t] = r] /\ lock' = t
      /\ UNCHANGED <<crew, row, entry, exits, risk, venue, history, faults>>
  BY DEF ExInv, TypeOK, Acquire, At, Goto, VarTypes
<1>2. RestIdle(t)
  BY <1>1, ExitConstants DEF SellersApart, RestIdle, Active, TypeOK
<1>3. TaskInv(t) /\ BookInv(t)
  BY <1>2, TakeApart
<1>4. /\ r.at = "read" /\ r.done = task[t].done /\ r.filled = task[t].filled
      /\ r.rounds = task[t].rounds /\ r \in TaskState
  BY <1>1 DEF TaskState, Place
<1> HIDE DEF r
<1>5. task'[t] = r /\ Becomes(t, r)
  BY <1>1, <1>4 DEF TypeOK, Becomes
<1>6. task[t].done = 0 /\ task[t].filled = None /\ task[t].rounds < MaxChunks
  BY <1>1, <1>3 DEF TaskInv, FillsKept, ChunkInWork
<1>7. TaskInv(t)'
  <2>1. RowAsRead(t)' /\ RemainingCovers(t)'
    BY <1>4, <1>5 DEF RowAsRead, RemainingCovers, HasRead, Selling
  <2>2. FillsKept(t)' /\ ChunkInWork(t)'
    BY <1>4, <1>5, <1>6 DEF FillsKept, ChunkInWork
  <2> QED BY <2>1, <2>2 DEF TaskInv
<1>8. BookInv(t)'
  <2>1. /\ told \in Nat /\ Untold(t) = 0 /\ Untold(t)' = 0 /\ ~Touched(t)' /\ ~Telling(t)'
        /\ ~Touched(t) /\ ~Telling(t)
    BY <1>1, <1>4, <1>5, <1>6 DEF TypeOK, Untold, Recorded, HalfSold, Touched, Telling, Active
  <2>2. ExitsWithinEntry' /\ ClosedMeansExited' /\ (Clean' <=> Clean)
    BY <1>1, <1>3 DEF BookInv, ExitsWithinEntry, ClosedMeansExited, Clean
  <2> QED BY <1>1, <1>3, <2>1, <2>2 DEF BookInv
<1> QED BY <1>1, <1>2, <1>5, <1>7, <1>8, WorkStep

(* Sizing: what is left of each leg, by the entry or by the order rows.    *)
LEMMA SizeStep ==
    ASSUME SellersApart, ExInv, NEW t \in Task, Size(t)
    PROVE  ExInv'
<1> USE DEF row, risk, venue, history, faults
<1> DEFINE size == ExitSize(task[t].seen)
           place == IF Total(size) = 0 THEN "write" ELSE IF t \in Poll THEN "check" ELSE "sell"
           r == [task[t] EXCEPT !.remaining = size, !.at = place]
<1>1. /\ TypeOK /\ t \in crew /\ task[t].at = "size" /\ task[t] \in TaskState /\ Active(t) /\ VarTypes'
      /\ UNCHANGED <<crew, row, entry, exits, risk, venue, history, faults>>
  BY DEF ExInv, TypeOK, Size, At, VarTypes, Active
<1>2. RestIdle(t) /\ TaskInv(t) /\ BookInv(t)
  BY <1>1, Sole, TakeApart
<1>3. /\ task[t].done = 0 /\ task[t].filled = None /\ task[t].rounds < MaxChunks /\ ~Touched(t) /\ ~Telling(t)
      /\ task[t].seen = status /\ task[t].existing = pnl /\ Closeable(status)
  BY <1>1, <1>2 DEF TaskInv, FillsKept, ChunkInWork, RowAsRead, HasRead, Touched, Telling
<1>4. CASE Total(size) # 0 /\ Smaller(size) = 0
  BY <1>1, <1>3, <1>4, GiveUp DEF Size
<1>5. CASE ~(Total(size) # 0 /\ Smaller(size) = 0)
  <2>1. task' = [task EXCEPT ![t] = r] /\ lock' = lock
    BY <1>5 DEF Size
  <2>2. size \in [Leg -> 0..MaxSize]
    BY <1>1, Sizes DEF ExitSize, Residual, TypeOK
  <2>3. \A l \in Leg : /\ entry[l] - exits[l] <= size[l]
                       /\ ~torn => entry[l] - exits[l] = size[l]
    <3>1. \A l \in Leg : entry[l] \in Nat /\ exits[l] \in Nat /\ (~torn => exits[l] <= entry[l])
      BY <1>1, <1>2, Sizes DEF BookInv, ExitsWithinEntry
    <3>2. CASE status = "EXIT_PARTIAL"
      <4>1. size = Residual
        BY <1>3, <3>2 DEF ExitSize
      <4> HIDE DEF size
      <4> QED BY <3>1, <4>1 DEF Residual
    <3>3. CASE status # "EXIT_PARTIAL"
      <4>1. size = entry /\ status = "OPEN"
        BY <1>3, <3>3 DEF ExitSize, Closeable
      <4>2. ~torn => \A l \in Leg : exits[l] = 0
        BY <1>2, <1>3, <4>1 DEF BookInv, None
      <4> HIDE DEF size
      <4> QED BY <3>1, <4>1, <4>2
    <3> QED BY <3>2, <3>3
  <2>4. /\ r.at = place /\ r.remaining = size /\ r.done = 0 /\ r.filled = None /\ r.rounds = task[t].rounds
        /\ r.seen = status /\ r.existing = pnl
    BY <1>1, <1>3 DEF TaskState
  <2>5. place \in {"write", "check", "sell"} /\ (place = "write" => Total(size) = 0)
    OBVIOUS
  <2>6. place = "write" => status # "OPEN"
    <3>1. status = "OPEN" => size = entry
      BY <1>3 DEF ExitSize
    <3>2. Total(entry) # 0
      BY <1>1, Sizes DEF Total
    <3> QED BY <2>5, <3>1, <3>2
  <2>7. r \in TaskState
    BY <1>1, <2>2, <2>5 DEF TaskState, Place
  <2> HIDE DEF r, place, size
  <2>8. task'[t] = r /\ Becomes(t, r)
    BY <1>1, <2>1, <2>4, <2>5, <2>7 DEF TypeOK, Becomes, Active
  <2>9. TaskInv(t)'
    <3>1. RowAsRead(t)'
      BY <1>1, <1>3, <2>4, <2>8 DEF RowAsRead
    <3>2. FillsKept(t)' /\ ChunkInWork(t)'
      BY <1>3, <2>4, <2>5, <2>8 DEF FillsKept, ChunkInWork
    <3>3. RemainingCovers(t)'
      <4>1. ~HalfSold(t)' /\ \A l \in Leg : Recorded(t, l)' = 0
        BY <2>4, <2>5, <2>8 DEF HalfSold, Recorded
      <4>2. \A l \in Leg : task'[t].remaining[l] - 0 = size[l]
        BY <2>2, <2>4, <2>8
      <4>3. Selling(t)' => ~(place = "write")
        BY <2>4, <2>8 DEF Selling
      <4> QED BY <1>1, <2>3, <4>1, <4>2 DEF RemainingCovers
    <3> QED BY <3>1, <3>2, <3>3 DEF TaskInv
  <2>10. BookInv(t)'
    <3>1. /\ told \in Nat /\ Untold(t) = 0 /\ Untold(t)' = 0 /\ ~Telling(t)'
          /\ (Touched(t)' => status # "OPEN")
      BY <1>1, <1>3, <2>4, <2>5, <2>6, <2>8 DEF TypeOK, Untold, Recorded, HalfSold, Touched, Telling, Active
    <3>2. ExitsWithinEntry' /\ ClosedMeansExited' /\ (Clean' <=> Clean)
      BY <1>1, <1>2 DEF BookInv, ExitsWithinEntry, ClosedMeansExited, Clean
    <3> QED BY <1>1, <1>2, <1>3, <3>1, <3>2 DEF BookInv
  <2> QED BY <1>1, <1>2, <2>8, <2>9, <2>10, WorkStep
<1> QED BY <1>4, <1>5

LEMMA CheckStep ==
    ASSUME SellersApart, ExInv, NEW t \in Task, Check(t)
    PROVE  ExInv'
<1> USE DEF row, risk, venue, history, faults
<1> DEFINE r == [task[t] EXCEPT !.at = "sell"]
<1>1. /\ TypeOK /\ t \in crew /\ task[t].at = "check" /\ task[t] \in TaskState /\ Active(t) /\ VarTypes'
      /\ UNCHANGED <<crew, row, entry, exits, lock, risk, venue, history, faults>>
  BY DEF ExInv, TypeOK, Check, At, VarTypes, Active
<1>2. RestIdle(t) /\ TaskInv(t) /\ BookInv(t)
  BY <1>1, Sole, TakeApart
<1>3. /\ task[t].done = 0 /\ task[t].filled = None /\ task[t].rounds < MaxChunks /\ ~Touched(t) /\ ~Telling(t)
  BY <1>1, <1>2 DEF TaskInv, FillsKept, ChunkInWork, Touched, Telling
<1>4. CASE Leave(t)
  BY <1>1, <1>3, <1>4, GiveUp
<1>5. CASE status \in {"OPEN", "EXIT_PARTIAL"} /\ Goto(t, "sell")
  <2>1. /\ task' = [task EXCEPT ![t] = r] /\ r \in TaskState /\ r.at = "sell" /\ r.seen = task[t].seen
        /\ r.existing = task[t].existing /\ r.remaining = task[t].remaining /\ r.done = 0 /\ r.filled = None
        /\ r.rounds = task[t].rounds
    BY <1>1, <1>3, <1>5 DEF Goto, TaskState, Place
  <2> HIDE DEF r
  <2>2. task'[t] = r /\ Becomes(t, r)
    BY <1>1, <2>1 DEF TypeOK, Becomes
  <2>3. TaskInv(t)'
    <3>1. RowAsRead(t)' /\ FillsKept(t)' /\ ChunkInWork(t)'
      BY <1>1, <1>2, <1>3, <2>1, <2>2 DEF TaskInv, RowAsRead, FillsKept, ChunkInWork, HasRead
    <3>2. RemainingCovers(t)'
      BY <1>1, <1>2, <2>1, <2>2 DEF TaskInv, RemainingCovers, Selling, Recorded, HalfSold
    <3> QED BY <3>1, <3>2 DEF TaskInv
  <2>4. BookInv(t)'
    <3>1. told \in Nat /\ Untold(t) = 0 /\ Untold(t)' = 0 /\ ~Touched(t)' /\ ~Telling(t)'
      BY <1>1, <1>3, <2>1, <2>2 DEF TypeOK, Untold, Recorded, HalfSold, Touched, Telling
    <3>2. ExitsWithinEntry' /\ ClosedMeansExited' /\ (Clean' <=> Clean)
      BY <1>1, <1>2 DEF BookInv, ExitsWithinEntry, ClosedMeansExited, Clean
    <3> QED BY <1>1, <1>2, <1>3, <3>1, <3>2 DEF BookInv
  <2> QED BY <1>1, <1>2, <2>2, <2>3, <2>4, WorkStep
<1> QED BY <1>4, <1>5 DEF Check

(* What the venue does to an order keeps its books' types. *)
LEMMA VenueTypes ==
    ASSUME ExInv, NEW l \in Leg, NEW n \in Nat, NotSold(l, n) \/ \E f \in 1..n : Sold(l, f) /\ UNCHANGED pendings
    PROVE  held' \in [Leg -> Int] /\ resting' \in [Leg -> Nat] /\ pendings' \in Nat
<1>1. held \in [Leg -> Int] /\ resting \in [Leg -> Nat] /\ pendings \in Nat
  BY DEF ExInv, TypeOK
<1>2. CASE UNCHANGED <<venue, pendings>>
  BY <1>1, <1>2 DEF venue
<1>3. CASE LeftPending(l, n)
  <2>1. PICK filled \in 0..(n - 1) : /\ held' = [held EXCEPT ![l] = @ - filled]
                                     /\ resting' = [resting EXCEPT ![l] = @ + n - filled]
    BY <1>3 DEF LeftPending
  <2>2. pendings' = pendings + 1
    BY <1>3 DEF LeftPending
  <2>3. held[l] - filled \in Int /\ resting[l] + n - filled \in Nat
    BY <1>1, <2>1
  <2> QED BY <1>1, <2>1, <2>2, <2>3
<1>4. ASSUME NEW f \in 1..n, Sold(l, f), UNCHANGED pendings
      PROVE  held' \in [Leg -> Int] /\ resting' \in [Leg -> Nat] /\ pendings' \in Nat
  BY <1>1, <1>4 DEF Sold
<1> QED BY <1>2, <1>3, <1>4 DEF NotSold

(* No chunk more: what was done is written, nothing is left alone.         *)
LEMMA StopStep ==
    ASSUME SellersApart, ExInv, NEW t \in Task, At(t, "sell"), NEW n \in Nat, NotSold("primary", n), Stop(t),
           UNCHANGED <<crew, row, entry, exits, risk, history, dbFailures, crashes>>
    PROVE  ExInv'
<1> USE DEF row, risk, history
<1> DEFINE r == [task[t] EXCEPT !.at = "write"]
<1>1. TypeOK /\ t \in crew /\ task[t].at = "sell" /\ task[t] \in TaskState /\ Active(t) /\ VarTypes'
  <2>1. held' \in [Leg -> Int] /\ resting' \in [Leg -> Nat] /\ pendings' \in Nat
    BY VenueTypes
  <2> QED BY <2>1 DEF ExInv, TypeOK, At, VarTypes, Active
<1>2. RestIdle(t) /\ TaskInv(t) /\ BookInv(t)
  BY <1>1, Sole, TakeApart
<1>3. CASE task[t].done = 0
  <2>1. Leave(t) /\ Unlock(t) /\ ~Touched(t) /\ ~Telling(t)
    BY <1>1, <1>3 DEF Stop, Touched, Telling
  <2> QED BY <1>1, <2>1, GiveUp
<1>4. CASE task[t].done # 0
  <2>1. task[t].done > 0 /\ task[t].filled # None
    BY <1>1, <1>2, <1>4 DEF TaskInv, FillsKept, TaskState
  <2>2. /\ task' = [task EXCEPT ![t] = r] /\ r \in TaskState /\ r.at = "write" /\ r.seen = task[t].seen
        /\ r.existing = task[t].existing /\ r.remaining = task[t].remaining /\ r.done = task[t].done
        /\ r.filled = task[t].filled /\ r.rounds = task[t].rounds /\ lock' = lock
    BY <1>1, <2>1 DEF Goto, Stop, TaskState, Place
  <2> HIDE DEF r
  <2>3. task'[t] = r /\ Becomes(t, r)
    BY <1>1, <2>2 DEF TypeOK, Becomes
  <2>4. TaskInv(t)'
    <3>1. RowAsRead(t)' /\ FillsKept(t)' /\ ChunkInWork(t)'
      BY <1>1, <1>2, <2>1, <2>2, <2>3 DEF TaskInv, RowAsRead, FillsKept, ChunkInWork, HasRead
    <3>2. RemainingCovers(t)'
      BY <1>1, <1>2, <2>2, <2>3 DEF TaskInv, RemainingCovers, Selling, Recorded, HalfSold
    <3> QED BY <3>1, <3>2 DEF TaskInv
  <2>5. BookInv(t)'
    <3>1. /\ told \in Nat /\ Untold(t)' = Untold(t) /\ ~Telling(t)' /\ ~Telling(t)
          /\ Touched(t) /\ Touched(t)' /\ task'[t].filled = task[t].filled
      BY <1>1, <2>1, <2>2, <2>3 DEF TypeOK, Untold, Recorded, HalfSold, Active, Touched, Telling
    <3>2. ExitsWithinEntry' /\ ClosedMeansExited' /\ (Clean' <=> Clean)
      BY <1>1, <1>2 DEF BookInv, ExitsWithinEntry, ClosedMeansExited, Clean
    <3> QED BY <1>1, <1>2, <3>1, <3>2 DEF BookInv
  <2> QED BY <1>1, <1>2, <2>3, <2>4, <2>5, WorkStep
<1> QED BY <1>3, <1>4

LEMMA SellPrimaryStep ==
    ASSUME SellersApart, ExInv, NEW t \in Task, At(t, "sell"), NEW n \in Chunks(t), NEW f \in 1..n,
           Sold("primary", f), UNCHANGED <<lock, pendings>>,
           task' = [task EXCEPT ![t] = PrimaryFilled(task[t], n, f)],
           UNCHANGED <<crew, row, entry, exits, risk, history, dbFailures, crashes>>
    PROVE  ExInv'
<1> USE DEF row, risk, history
<1> DEFINE fills == [None EXCEPT !["primary"] = f]
           r == PrimaryFilled(task[t], n, f)
<1>1. TypeOK /\ t \in crew /\ task[t].at = "sell" /\ task[t] \in TaskState /\ Active(t)
  BY DEF ExInv, TypeOK, At, Active
<1>2. RestIdle(t) /\ TaskInv(t) /\ BookInv(t)
  BY <1>1, Sole, TakeApart
<1>3. n \in 0..MaxSize /\ n \in Nat /\ f \in Nat /\ f > 0 /\ f <= n /\ \A l \in Leg : n <= task[t].remaining[l]
  <2>1. \A l \in Leg : task[t].remaining[l] \in 0..MaxSize
    BY <1>1 DEF TaskState
  <2>2. n <= Smaller(task[t].remaining) /\ n \in Nat
    BY <2>1, ExitConstants DEF Chunks, Smaller
  <2>3. \A l \in Leg : n <= task[t].remaining[l]
    BY <2>1, <2>2, ExitConstants DEF Smaller
  <2> QED BY <2>1, <2>2, <2>3, ExitConstants
<1>4. VarTypes'
  <2>1. held' \in [Leg -> Int] /\ resting' \in [Leg -> Nat] /\ pendings' \in Nat
    BY <1>3, VenueTypes
  <2> QED BY <1>1, <2>1 DEF TypeOK, VarTypes
<1>5. /\ fills \in [Leg -> 0..MaxSize] /\ fills["primary"] = f /\ fills["secondary"] = 0 /\ fills # None
  BY <1>3, ExitConstants DEF None
<1>6. /\ r.at = "recordPrimary" /\ r.seen = task[t].seen /\ r.existing = task[t].existing
      /\ r.remaining = task[t].remaining /\ r.done = task[t].done /\ r.filled = fills /\ r.chunk = n
      /\ r \in TaskState
  <2>1. task[t].rounds + 1 \in 0..MaxChunks
    BY <1>1, <1>2, ExitConstants DEF TaskInv, ChunkInWork, TaskState
  <2>2. r = [task[t] EXCEPT !.at = "recordPrimary", !.chunk = n, !.filled = fills,
                          !.rounds = task[t].rounds + 1]
    BY DEF PrimaryFilled
  <2> HIDE DEF r, fills
  <2> QED BY <1>1, <1>3, <1>5, <2>1, <2>2 DEF TaskState, Place
<1>7. task' = [task EXCEPT ![t] = r]
  OBVIOUS
<1> HIDE DEF r, fills
<1>8. task'[t] = r /\ Becomes(t, r)
  BY <1>1, <1>6, <1>7 DEF TypeOK, Becomes, Active
<1>9. TaskInv(t)'
  <2>1. RowAsRead(t)' /\ FillsKept(t)'
    BY <1>1, <1>2, <1>5, <1>6, <1>8 DEF TaskInv, RowAsRead, FillsKept, HasRead
  <2>2. ChunkInWork(t)'
    <3>1. \A l \in Leg : fills[l] <= n
      BY <1>3, <1>5
    <3> QED BY <1>3, <1>5, <1>6, <1>8, <3>1 DEF ChunkInWork
  <2>3. RemainingCovers(t)'
    BY <1>1, <1>2, <1>6, <1>8 DEF TaskInv, RemainingCovers, Selling, Recorded, HalfSold
  <2> QED BY <2>1, <2>2, <2>3 DEF TaskInv
<1>10. BookInv(t)'
  <2>1. Untold(t)' = Untold(t) /\ ~Telling(t)' /\ ~Telling(t)
    BY <1>1, <1>6, <1>8 DEF Untold, Recorded, HalfSold, Active, Telling
  <2>2. (Touched(t)' <=> Touched(t)) /\ task'[t].filled # None
    BY <1>1, <1>5, <1>6, <1>8 DEF Touched
  <2>3. told \in Nat
    BY <1>1 DEF TypeOK
  <2>4. ExitsWithinEntry' /\ ClosedMeansExited' /\ (Clean' <=> Clean)
    BY <1>1, <1>2 DEF BookInv, ExitsWithinEntry, ClosedMeansExited, Clean
  <2> QED BY <1>1, <1>2, <2>1, <2>2, <2>3, <2>4 DEF BookInv
<1> QED BY <1>1, <1>2, <1>4, <1>8, <1>9, <1>10, WorkStep

(* The exit order of the primary leg is stored. *)
LEMMA RecordPrimaryStep ==
    ASSUME SellersApart, ExInv, NEW t \in Task, RecordPrimary(t)
    PROVE  ExInv'
<1> USE DEF row, risk, venue, history, faults
<1> DEFINE f == task[t].filled["primary"]
           r == [task[t] EXCEPT !.at = "sellSecondary"]
<1>1. /\ TypeOK /\ t \in crew /\ task[t].at = "recordPrimary" /\ task[t] \in TaskState /\ Active(t)
      /\ exits' = [exits EXCEPT !["primary"] = @ + f] /\ task' = [task EXCEPT ![t] = r]
      /\ UNCHANGED <<crew, row, entry, lock, risk, venue, history, faults>>
  BY DEF ExInv, TypeOK, RecordPrimary, At, Active, Goto
<1>2. RestIdle(t) /\ TaskInv(t) /\ BookInv(t)
  BY <1>1, Sole, TakeApart
<1>3. /\ f \in Nat /\ f > 0 /\ f <= task[t].chunk /\ task[t].chunk <= task[t].remaining["primary"]
      /\ task[t].chunk \in Nat /\ task[t].filled # None
  BY <1>1, <1>2, ExitConstants DEF TaskInv, ChunkInWork, TaskState, None
<1>4. \A l \in Leg : exits[l] \in Nat /\ entry[l] \in Nat /\ task[t].remaining[l] \in Nat
  BY <1>1, Sizes, ExitConstants DEF TaskState
<1>5. /\ exits' \in [Leg -> Nat] /\ exits'["primary"] = exits["primary"] + f
      /\ exits'["secondary"] = exits["secondary"]
  BY <1>1, <1>3, <1>4 DEF TypeOK
<1>6. VarTypes'
  BY <1>1, <1>5 DEF TypeOK, VarTypes
<1>7. /\ r.at = "sellSecondary" /\ r.seen = task[t].seen /\ r.existing = task[t].existing
      /\ r.remaining = task[t].remaining /\ r.done = task[t].done /\ r.filled = task[t].filled
      /\ r.chunk = task[t].chunk /\ r \in TaskState
  BY <1>1 DEF TaskState, Place
<1> HIDE DEF r
<1>8. task'[t] = r /\ Becomes(t, r)
  BY <1>1, <1>7 DEF TypeOK, Becomes, Active
<1>9. /\ entry["primary"] - exits["primary"] <= task[t].remaining["primary"]
      /\ entry["secondary"] - exits["secondary"] <= task[t].remaining["secondary"]
      /\ ~torn => /\ entry["primary"] - exits["primary"] = task[t].remaining["primary"]
                  /\ entry["secondary"] - exits["secondary"] = task[t].remaining["secondary"]
  BY <1>1, <1>2, <1>4 DEF TaskInv, RemainingCovers, Selling, Recorded, HalfSold
<1>10. TaskInv(t)'
  <2>1. RowAsRead(t)' /\ FillsKept(t)' /\ ChunkInWork(t)'
    BY <1>1, <1>2, <1>7, <1>8 DEF TaskInv, RowAsRead, FillsKept, ChunkInWork, HasRead
  <2>2. RemainingCovers(t)'
    <3>1. Recorded(t, "primary")' = f /\ Recorded(t, "secondary")' = 0
      BY <1>7, <1>8 DEF Recorded, HalfSold
    <3> HIDE DEF f
    <3> QED BY <1>1, <1>3, <1>4, <1>5, <1>7, <1>8, <1>9, <3>1 DEF RemainingCovers
  <2> QED BY <2>1, <2>2 DEF TaskInv
<1>11. BookInv(t)'
  <2>1. status \in {"OPEN", "EXIT_PARTIAL"} /\ ~Telling(t) /\ ~Telling(t)' /\ Touched(t)' /\ task'[t].filled # None
    BY <1>1, <1>2, <1>3, <1>7, <1>8 DEF TaskInv, RowAsRead, HasRead, Closeable, Telling, Touched
  <2>2. told \in Nat /\ task[t].done \in Nat /\ Untold(t) = task[t].done /\ Untold(t)' = task[t].done + f
    BY <1>1, <1>7, <1>8 DEF TypeOK, TaskState, Untold, Recorded, HalfSold, Active
  <2>3. Total(exits') = Total(exits) + f
    BY <1>3, <1>4, <1>5 DEF Total
  <2>4. Clean' => Total(exits') = told' + Untold(t)'
    <3>1. Clean' => Total(exits) = told + Untold(t)
      BY <1>1, <1>2 DEF BookInv, Clean
    <3> HIDE DEF f
    <3> QED BY <1>1, <1>3, <2>2, <2>3, <3>1
  <2>5. ExitsWithinEntry' /\ ClosedMeansExited'
    <3>1. ~torn => exits'["primary"] <= entry["primary"] /\ exits'["secondary"] <= entry["secondary"]
      <4> HIDE DEF f
      <4> QED BY <1>2, <1>3, <1>4, <1>5, <1>9 DEF BookInv, ExitsWithinEntry
    <3> QED BY <1>1, <2>1, <3>1 DEF ExitsWithinEntry, ClosedMeansExited
  <2> QED BY <1>1, <1>2, <2>1, <2>2, <2>4, <2>5 DEF BookInv
<1> QED BY <1>1, <1>2, <1>6, <1>8, <1>10, <1>11, WorkStep

LEMMA SellSecondaryStep ==
    ASSUME SellersApart, ExInv, NEW t \in Task, At(t, "sellSecondary"), NEW f \in 1..task[t].chunk,
           Sold("secondary", f), UNCHANGED <<lone, pendings>>,
           task' = [task EXCEPT ![t] = SecondaryFilled(task[t], f)],
           UNCHANGED <<crew, row, entry, exits, lock, risk, torn, restarted, dbFailures, crashes>>
    PROVE  ExInv'
<1> USE DEF row, risk
<1> DEFINE fills == [task[t].filled EXCEPT !["secondary"] = f]
           r == SecondaryFilled(task[t], f)
<1>1. TypeOK /\ t \in crew /\ task[t].at = "sellSecondary" /\ task[t] \in TaskState /\ Active(t)
  BY DEF ExInv, TypeOK, At, Active
<1>2. RestIdle(t) /\ TaskInv(t) /\ BookInv(t)
  BY <1>1, Sole, TakeApart
<1>3. /\ task[t].chunk \in 0..MaxSize /\ f \in 0..MaxSize /\ f > 0 /\ f <= task[t].chunk /\ task[t].chunk \in Nat
      /\ task[t].filled \in [Leg -> 0..MaxSize] /\ task[t].filled["primary"] \in Nat
      /\ task[t].filled["primary"] > 0
  BY <1>1, <1>2, ExitConstants DEF TaskState, TaskInv, ChunkInWork
<1>4. VarTypes'
  <2>1. held' \in [Leg -> Int] /\ resting' \in [Leg -> Nat] /\ pendings' \in Nat
    BY <1>3, VenueTypes
  <2> QED BY <1>1, <2>1 DEF TypeOK, VarTypes
<1>5. /\ fills \in [Leg -> 0..MaxSize] /\ fills["primary"] = task[t].filled["primary"] /\ fills["secondary"] = f
      /\ fills # None
  BY <1>3 DEF None
<1>6. /\ r.at = "recordSecondary" /\ r.seen = task[t].seen /\ r.existing = task[t].existing
      /\ r.remaining = task[t].remaining /\ r.done = task[t].done /\ r.filled = fills
      /\ r.chunk = task[t].chunk /\ r \in TaskState
  <2>1. r = [task[t] EXCEPT !.at = "recordSecondary", !.filled = fills]
    BY <1>1 DEF SecondaryFilled, TaskState
  <2> HIDE DEF r, fills
  <2> QED BY <1>1, <1>5, <2>1 DEF TaskState, Place
<1> HIDE DEF r, fills
<1>7. task'[t] = r /\ Becomes(t, r)
  BY <1>1, <1>6 DEF TypeOK, Becomes, Active, r
<1>8. TaskInv(t)'
  <2>1. RowAsRead(t)' /\ FillsKept(t)'
    BY <1>1, <1>2, <1>5, <1>6, <1>7 DEF TaskInv, RowAsRead, FillsKept, HasRead
  <2>2. ChunkInWork(t)'
    <3>1. \A l \in Leg : fills[l] <= task[t].chunk /\ task[t].chunk <= task[t].remaining[l]
      BY <1>1, <1>2, <1>3, <1>5 DEF TaskInv, ChunkInWork
    <3> QED BY <1>3, <1>5, <1>6, <1>7, <3>1 DEF ChunkInWork
  <2>3. RemainingCovers(t)'
    BY <1>1, <1>2, <1>5, <1>6, <1>7 DEF TaskInv, RemainingCovers, Selling, Recorded, HalfSold
  <2> QED BY <2>1, <2>2, <2>3 DEF TaskInv
<1>9. BookInv(t)'
  <2>1. Untold(t)' = Untold(t) /\ ~Telling(t)' /\ ~Telling(t)
    BY <1>1, <1>5, <1>6, <1>7 DEF Untold, Recorded, HalfSold, Active, Telling
  <2>2. Touched(t)' /\ Touched(t) /\ task'[t].filled # None
    BY <1>1, <1>5, <1>6, <1>7 DEF Touched
  <2>3. told \in Nat
    BY <1>1 DEF TypeOK
  <2>4. ExitsWithinEntry' /\ ClosedMeansExited' /\ (Clean' <=> Clean)
    BY <1>1, <1>2 DEF BookInv, ExitsWithinEntry, ClosedMeansExited, Clean
  <2> QED BY <1>1, <1>2, <2>1, <2>2, <2>3, <2>4 DEF BookInv
<1> QED BY <1>1, <1>2, <1>4, <1>7, <1>8, <1>9, WorkStep

(* The secondary leg does not sell: the primary leg is left alone.         *)
LEMMA LeftAloneStep ==
    ASSUME SellersApart, ExInv, NEW t \in Task, At(t, "sellSecondary"), NotSold("secondary", task[t].chunk),
           lone' = TRUE, Goto(t, IF task[t].done > 0 THEN "write" ELSE "expose"),
           UNCHANGED <<crew, row, entry, exits, lock, risk, torn, restarted, dbFailures, crashes>>
    PROVE  ExInv'
<1> USE DEF row, risk
<1> DEFINE place == IF task[t].done > 0 THEN "write" ELSE "expose"
           r == [task[t] EXCEPT !.at = place]
<1>1. /\ TypeOK /\ t \in crew /\ task[t].at = "sellSecondary" /\ task[t] \in TaskState /\ Active(t)
      /\ task[t].chunk \in Nat /\ task' = [task EXCEPT ![t] = r] /\ task[t].done \in Nat
      /\ task[t].filled["primary"] \in Nat /\ \A l \in Leg : task[t].remaining[l] \in Nat
  BY ExitConstants DEF ExInv, TypeOK, TaskState, At, Active, Goto
<1>2. RestIdle(t) /\ TaskInv(t) /\ BookInv(t)
  BY <1>1, Sole, TakeApart
<1>3. VarTypes'
  <2>1. held' \in [Leg -> Int] /\ resting' \in [Leg -> Nat] /\ pendings' \in Nat
    BY <1>1, VenueTypes
  <2> QED BY <1>1, <2>1 DEF TypeOK, VarTypes
<1>4. place \in {"write", "expose"} /\ (place = "expose" => task[t].done = 0)
  BY <1>1
<1> HIDE DEF place
<1>5. /\ r.at = place /\ r.seen = task[t].seen /\ r.existing = task[t].existing
      /\ r.remaining = task[t].remaining /\ r.done = task[t].done /\ r.filled = task[t].filled
      /\ r.chunk = task[t].chunk /\ r \in TaskState
  BY <1>1, <1>4 DEF TaskState, Place
<1> HIDE DEF r
<1>6. task'[t] = r /\ Becomes(t, r)
  BY <1>1, <1>5 DEF TypeOK, Becomes, Active
<1>7. TaskInv(t)'
  <2>1. RowAsRead(t)' /\ FillsKept(t)' /\ ChunkInWork(t)'
    BY <1>1, <1>2, <1>4, <1>5, <1>6 DEF TaskInv, RowAsRead, FillsKept, ChunkInWork, HasRead
  <2>2. RemainingCovers(t)'
    <3>1. \A l \in Leg : Recorded(t, l)' = 0 /\ Recorded(t, l) \in Nat
      BY <1>1, <1>4, <1>5, <1>6 DEF Recorded, HalfSold
    <3>2. ~Selling(t)'
      BY <1>4, <1>5, <1>6 DEF Selling
    <3>3. \A l \in Leg : entry[l] - exits[l] <= task[t].remaining[l] - Recorded(t, l)
      BY <1>1, <1>2 DEF TaskInv, RemainingCovers, Selling
    <3>4. \A l \in Leg : entry[l] - exits[l] <= task[t].remaining[l] - 0
      <4>1. \A l \in Leg : entry[l] - exits[l] \in Int
        BY <1>1, Sizes
      <4> QED BY <1>1, <3>1, <3>3, <4>1
    <3> QED BY <1>5, <1>6, <3>1, <3>2, <3>4 DEF RemainingCovers
  <2> QED BY <2>1, <2>2 DEF TaskInv
<1>8. BookInv(t)'
  <2>1. ~Telling(t)' /\ ~Telling(t) /\ Touched(t)' /\ Touched(t) /\ task'[t].filled = task[t].filled /\ ~Clean'
    BY <1>1, <1>4, <1>5, <1>6 DEF Telling, Touched, Clean
  <2>2. ExitsWithinEntry' /\ ClosedMeansExited'
    BY <1>1, <1>2 DEF BookInv, ExitsWithinEntry, ClosedMeansExited
  <2> QED BY <1>1, <1>2, <2>1, <2>2 DEF BookInv
<1> QED BY <1>1, <1>2, <1>3, <1>6, <1>7, <1>8, WorkStep

(* The exit order of the secondary leg is stored, and the chunk is added   *)
(* to what the cycle has done.                                             *)
LEMMA RecordSecondaryStep ==
    ASSUME SellersApart, ExInv, NEW t \in Task, RecordSecondary(t)
    PROVE  ExInv'
<1> USE DEF row, risk, venue, history, faults
<1> DEFINE f == task[t].filled["secondary"]
           left == [l \in Leg |-> task[t].remaining[l] - task[t].filled[l]]
           place == IF t \in Poll /\ Smaller(left) > 0 /\ task[t].rounds < MaxChunks THEN "sell" ELSE "write"
           r == [task[t] EXCEPT !.remaining = left, !.done = DoneAfter(t), !.at = place]
<1>1. /\ TypeOK /\ t \in crew /\ task[t].at = "recordSecondary" /\ task[t] \in TaskState /\ Active(t)
      /\ exits' = [exits EXCEPT !["secondary"] = @ + f] /\ task' = [task EXCEPT ![t] = r]
      /\ UNCHANGED <<crew, row, entry, lock, risk, venue, history, faults>>
  BY DEF ExInv, TypeOK, RecordSecondary, At, Active
<1>2. RestIdle(t) /\ TaskInv(t) /\ BookInv(t)
  BY <1>1, Sole, TakeApart
<1>3. /\ f \in Nat /\ f > 0 /\ task[t].filled["primary"] \in Nat /\ task[t].filled["primary"] > 0
      /\ task[t].done \in Nat /\ task[t].chunk \in Nat
      /\ \A l \in Leg : task[t].remaining[l] \in 0..MaxSize /\ task[t].filled[l] <= task[t].remaining[l]
      /\ \A l \in Leg : task[t].filled[l] \in Nat
  <2>1. /\ \A l \in Leg : task[t].remaining[l] \in 0..MaxSize /\ task[t].filled[l] \in 0..MaxSize
        /\ task[t].chunk \in 0..MaxSize /\ task[t].done \in Nat
    BY <1>1 DEF TaskState
  <2>2. /\ \A l \in Leg : task[t].filled[l] <= task[t].chunk /\ task[t].chunk <= task[t].remaining[l]
        /\ task[t].filled["primary"] > 0 /\ f > 0
    BY <1>1, <1>2 DEF TaskInv, ChunkInWork
  <2> QED BY <2>1, <2>2, ExitConstants
<1>4. \A l \in Leg : exits[l] \in Nat /\ entry[l] \in Nat
  BY <1>1, Sizes
<1>5. /\ exits' \in [Leg -> Nat] /\ exits'["secondary"] = exits["secondary"] + f
      /\ exits'["primary"] = exits["primary"]
  BY <1>1, <1>3, <1>4 DEF TypeOK
<1>6. VarTypes'
  BY <1>1, <1>5 DEF TypeOK, VarTypes
<1>7. /\ left \in [Leg -> 0..MaxSize]
      /\ left["primary"] = task[t].remaining["primary"] - task[t].filled["primary"]
      /\ left["secondary"] = task[t].remaining["secondary"] - f
  BY <1>3, ExitConstants
<1>8. DoneAfter(t) \in Nat /\ DoneAfter(t) > 0 /\ DoneAfter(t) = task[t].done + task[t].filled["primary"] + f
  BY <1>3 DEF DoneAfter, Total
<1>9. place \in {"sell", "write"} /\ (place = "sell" => task[t].rounds < MaxChunks)
  OBVIOUS
<1> HIDE DEF left, place
<1>10. /\ r.at = place /\ r.seen = task[t].seen /\ r.existing = task[t].existing
       /\ r.remaining = left /\ r.done = DoneAfter(t) /\ r.filled = task[t].filled
       /\ r.chunk = task[t].chunk /\ r.rounds = task[t].rounds /\ r \in TaskState
  BY <1>1, <1>7, <1>8, <1>9 DEF TaskState, Place
<1> HIDE DEF r
<1>11. task'[t] = r /\ Becomes(t, r)
  BY <1>1, <1>10 DEF TypeOK, Becomes, Active
<1>12. task[t].filled # None
  BY <1>3 DEF None
<1>13. /\ entry["primary"] - exits["primary"] <= task[t].remaining["primary"] - task[t].filled["primary"]
       /\ entry["secondary"] - exits["secondary"] <= task[t].remaining["secondary"]
       /\ ~torn => /\ entry["primary"] - exits["primary"]
                          = task[t].remaining["primary"] - task[t].filled["primary"]
                   /\ entry["secondary"] - exits["secondary"] = task[t].remaining["secondary"]
  BY <1>1, <1>2, <1>3, <1>4 DEF TaskInv, RemainingCovers, Selling, Recorded, HalfSold
<1>14. TaskInv(t)'
  <2>1. RowAsRead(t)' /\ ChunkInWork(t)'
    BY <1>1, <1>2, <1>9, <1>10, <1>11 DEF TaskInv, RowAsRead, ChunkInWork, HasRead
  <2>2. FillsKept(t)'
    BY <1>9, <1>10, <1>11, <1>12 DEF FillsKept
  <2>3. RemainingCovers(t)'
    <3>1. \A l \in Leg : Recorded(t, l)' = 0
      BY <1>9, <1>10, <1>11 DEF Recorded, HalfSold
    <3>2. /\ entry["primary"] - exits'["primary"] <= left["primary"] - 0
          /\ entry["secondary"] - exits'["secondary"] <= left["secondary"] - 0
          /\ ~torn => /\ entry["primary"] - exits'["primary"] = left["primary"] - 0
                      /\ entry["secondary"] - exits'["secondary"] = left["secondary"] - 0
      <4> HIDE DEF f
      <4>1. \A l \in Leg : task[t].remaining[l] \in Int
        BY <1>3, ExitConstants
      <4> QED BY <1>3, <1>4, <1>5, <1>7, <1>13, <4>1
    <3> QED BY <1>1, <1>10, <1>11, <3>1, <3>2 DEF RemainingCovers
  <2> QED BY <2>1, <2>2, <2>3 DEF TaskInv
<1>15. BookInv(t)'
  <2>1. status \in {"OPEN", "EXIT_PARTIAL"} /\ ~Telling(t) /\ ~Telling(t)' /\ Touched(t)' /\ task'[t].filled # None
    BY <1>1, <1>2, <1>8, <1>9, <1>10, <1>11, <1>12
       DEF TaskInv, RowAsRead, HasRead, Closeable, Telling, Touched
  <2>2. told \in Nat /\ Untold(t) = task[t].done + task[t].filled["primary"] /\ Untold(t)' = DoneAfter(t)
    <3>1. DoneAfter(t) + 0 = DoneAfter(t)
      BY <1>8
    <3> QED BY <1>1, <1>9, <1>10, <1>11, <3>1 DEF TypeOK, Untold, Recorded, HalfSold, Active
  <2>3. Total(exits') = Total(exits) + f
    BY <1>3, <1>4, <1>5 DEF Total
  <2>4. Clean' => Total(exits') = told' + Untold(t)'
    <3>1. Clean' => Total(exits) = told + Untold(t)
      BY <1>1, <1>2 DEF BookInv, Clean
    <3> HIDE DEF f
    <3> QED BY <1>1, <1>3, <1>8, <2>2, <2>3, <3>1
  <2>5. ExitsWithinEntry' /\ ClosedMeansExited'
    <3>1. ~torn => exits'["primary"] <= entry["primary"] /\ exits'["secondary"] <= entry["secondary"]
      <4>1. ~torn => exits["primary"] <= entry["primary"]
        BY <1>2 DEF BookInv, ExitsWithinEntry
      <4>2. f <= task[t].remaining["secondary"] /\ task[t].remaining["secondary"] \in Nat
        BY <1>3, ExitConstants
      <4> HIDE DEF f
      <4> QED BY <1>3, <1>4, <1>5, <1>13, <4>1, <4>2
    <3> QED BY <1>1, <2>1, <3>1 DEF ExitsWithinEntry, ClosedMeansExited
  <2> QED BY <1>1, <1>2, <2>1, <2>2, <2>4, <2>5 DEF BookInv
<1> QED BY <1>1, <1>2, <1>6, <1>11, <1>14, <1>15, WorkStep

(* The row is written: closed only if the order rows show both legs sold.  *)
LEMMA WriteStep ==
    ASSUME SellersApart, ExInv, NEW t \in Task, WriteRow(t)
    PROVE  ExInv'
<1> USE DEF risk, venue, history, faults
<1> DEFINE r == [task[t] EXCEPT !.at = "tell"]
<1>1. /\ TypeOK /\ t \in crew /\ task[t].at = "write" /\ task[t] \in TaskState /\ Active(t)
      /\ status' = (IF FullExit(t) THEN "CLOSED" ELSE "EXIT_PARTIAL") /\ pnl' = task[t].existing + task[t].done
      /\ task' = [task EXCEPT ![t] = r]
      /\ UNCHANGED <<crew, entry, exits, lock, risk, venue, history, faults>>
  BY DEF ExInv, TypeOK, WriteRow, At, Active, Goto, RowPnl
<1>2. RestIdle(t) /\ TaskInv(t) /\ BookInv(t)
  BY <1>1, Sole, TakeApart
<1>3. task[t].done \in Nat /\ task[t].existing \in Nat /\ task[t].existing = pnl /\ status \in {"OPEN", "EXIT_PARTIAL"}
  BY <1>1, <1>2 DEF TaskState, TaskInv, RowAsRead, HasRead, Closeable
<1>4. VarTypes'
  BY <1>1, <1>3 DEF TypeOK, VarTypes, Status
<1>5. /\ r.at = "tell" /\ r.remaining = task[t].remaining /\ r.done = task[t].done /\ r.filled = task[t].filled
      /\ r \in TaskState
  BY <1>1 DEF TaskState, Place
<1> HIDE DEF r
<1>6. task'[t] = r /\ Becomes(t, r)
  BY <1>1, <1>5 DEF TypeOK, Becomes, Active
<1>7. TaskInv(t)'
  <2>1. RowAsRead(t)' /\ FillsKept(t)' /\ ChunkInWork(t)' /\ RemainingCovers(t)'
    BY <1>1, <1>2, <1>5, <1>6 DEF TaskInv, RowAsRead, FillsKept, ChunkInWork, RemainingCovers, HasRead, Selling
  <2> QED BY <2>1 DEF TaskInv
<1>8. BookInv(t)'
  <2>1. /\ Telling(t)' /\ ~Telling(t) /\ status' # "OPEN" /\ (status' = "CLOSED" <=> FullExit(t))
        /\ (FullExit(t)' <=> FullExit(t)) /\ Untold(t)' = Untold(t) /\ (Clean' <=> Clean)
    BY <1>1, <1>5, <1>6 DEF Telling, FullExit, Untold, Recorded, HalfSold, Active, Clean
  <2>2. ClosedMeansExited'
    <3> SUFFICES ASSUME FullExit(t), NEW l \in Leg PROVE exits[l] >= entry[l]
      BY <1>1, <2>1 DEF ClosedMeansExited
    <3>1. \A k \in Leg : task[t].remaining[k] \in Nat
      BY <1>1, ExitConstants DEF TaskState
    <3>2. task[t].remaining[l] = 0
      BY <3>1 DEF FullExit, Total
    <3>3. entry[l] - exits[l] <= 0 - 0
      BY <1>1, <1>2, <3>2 DEF TaskInv, RemainingCovers, Recorded, HalfSold
    <3> QED BY <1>1, <3>3, Sizes
  <2>3. ExitsWithinEntry'
    BY <1>1, <1>2 DEF BookInv, ExitsWithinEntry
  <2>4. ~restarted => pnl' = told + task'[t].done
    <3>1. told \in Nat /\ (~restarted => pnl = told + 0)
      BY <1>1, <1>2, <2>1 DEF BookInv, TypeOK
    <3> QED BY <1>1, <1>3, <1>5, <1>6, <3>1
  <2>5. ~restarted => closes = 0
    BY <1>2, <1>3, <2>1 DEF BookInv
  <2> QED BY <1>1, <1>2, <2>1, <2>2, <2>3, <2>4, <2>5 DEF BookInv
<1> QED BY <1>1, <1>2, <1>4, <1>6, <1>7, <1>8, WorkStep

LEMMA TellStep ==
    ASSUME SellersApart, ExInv, NEW t \in Task, TellRisk(t)
    PROVE  ExInv'
<1> USE DEF row, venue, history, faults
<1>1. /\ TypeOK /\ task[t].at = "tell" /\ task[t] \in TaskState /\ Active(t)
      /\ told' = told + task[t].done /\ closes' = (IF FullExit(t) THEN closes + 1 ELSE closes)
      /\ Leave(t) /\ Unlock(t)
      /\ UNCHANGED <<crew, row, entry, exits, venue, history, faults>>
  BY DEF ExInv, TypeOK, TellRisk, At, Active
<1>2. BookInv(t)
  BY <1>1, Sole, TakeApart
<1>3. task[t].done \in Nat /\ told \in Nat /\ closes \in Nat
  BY <1>1 DEF TypeOK, TaskState
<1>4. VarTypes'
  BY <1>1, <1>3 DEF TypeOK, VarTypes
<1>5. Telling(t) /\ Untold(t) = task[t].done + 0 /\ (Clean' <=> Clean)
  BY <1>1 DEF Telling, Untold, Recorded, HalfSold, Active, Clean
<1>6. /\ status # "OPEN" /\ (status = "CLOSED" <=> FullExit(t))
      /\ Clean => Total(exits) = told + (task[t].done + 0)
      /\ ~restarted => pnl = told + task[t].done
      /\ ~restarted => closes = 0
  BY <1>2, <1>5 DEF BookInv
<1>7. ExitsWithinEntry' /\ ClosedMeansExited'
  BY <1>1, <1>2 DEF BookInv, ExitsWithinEntry, ClosedMeansExited
<1>8. Clean' => Total(exits') = told'
  BY <1>1, <1>3, <1>5, <1>6
<1>9. ~restarted' => closes' = IF status' = "CLOSED" THEN 1 ELSE 0
  BY <1>1, <1>6
<1> QED BY <1>1, <1>4, <1>6, <1>7, <1>8, <1>9, LeaveStep

(* The row says that one leg was left alone. *)
LEMMA ExposeStep ==
    ASSUME SellersApart, ExInv, NEW t \in Task, Expose(t)
    PROVE  ExInv'
<1> USE DEF risk, venue, history, faults
<1>1. /\ TypeOK /\ task[t].at = "expose" /\ task[t] \in TaskState /\ Active(t) /\ VarTypes'
      /\ status' \in {"EXIT_PARTIAL", "SINGLE_LEG_EXPOSED"} /\ Leave(t) /\ Unlock(t)
      /\ UNCHANGED <<crew, pnl, entry, exits, risk, venue, history, faults>>
  BY DEF ExInv, TypeOK, VarTypes, Expose, At, Active, Status
<1>2. TaskInv(t) /\ BookInv(t)
  BY <1>1, Sole, TakeApart
<1>3. task[t].done = 0 /\ told \in Nat /\ status \in {"OPEN", "EXIT_PARTIAL"}
  BY <1>1, <1>2 DEF TypeOK, TaskInv, FillsKept, RowAsRead, HasRead, Closeable
<1>4. ~Telling(t) /\ Untold(t) = 0 /\ (Clean' <=> Clean)
  BY <1>1, <1>3 DEF Telling, Untold, Recorded, HalfSold, Active, Clean
<1>5. /\ Clean => Total(exits) = told
      /\ ~restarted => pnl = told
      /\ ~restarted => closes = 0
  BY <1>2, <1>3, <1>4 DEF BookInv
<1>6. ExitsWithinEntry' /\ ClosedMeansExited'
  BY <1>1, <1>2 DEF BookInv, ExitsWithinEntry, ClosedMeansExited
<1> QED BY <1>1, <1>4, <1>5, <1>6, LeaveStep

(* A write fails after a fill. *)
LEMMA FailureStep ==
    ASSUME SellersApart, ExInv, NEW t \in Task, DbFails(t)
    PROVE  ExInv'
<1> USE DEF row, risk, venue
<1>1. /\ TypeOK /\ task[t].at \in {"recordPrimary", "recordSecondary", "expose", "write"} /\ Active(t)
      /\ torn' = TRUE /\ dbFailures' = dbFailures + 1 /\ Leave(t) /\ Unlock(t)
      /\ UNCHANGED <<crew, row, entry, exits, risk, venue, lone, restarted, pendings, crashes>>
  BY DEF ExInv, DbFails, At, Active
<1>2. TaskInv(t) /\ BookInv(t)
  BY <1>1, Sole, TakeApart
<1>3. VarTypes'
  BY <1>1 DEF TypeOK, VarTypes
<1>4. ~Telling(t) /\ ~Clean' /\ told \in Nat
  BY <1>1 DEF Telling, Clean, TypeOK
<1>5. /\ ~restarted => pnl = told
      /\ ~restarted => closes = IF status = "CLOSED" THEN 1 ELSE 0
  BY <1>2, <1>4 DEF BookInv
<1>6. ExitsWithinEntry' /\ ClosedMeansExited'
  BY <1>1, <1>2 DEF BookInv, ExitsWithinEntry, ClosedMeansExited
<1> QED BY <1>1, <1>3, <1>4, <1>5, <1>6, LeaveStep

(* The process dies: every cycle is forgotten. *)
LEMMA CrashStep ==
    ASSUME ExInv, Crash
    PROVE  ExInv'
<1> USE DEF row, risk, venue
<1>1. /\ TypeOK /\ Idle \in TaskState /\ restarted' = TRUE /\ crashes' = crashes + 1
      /\ torn' = (torn \/ \E t \in crew : task[t].filled # None)
      /\ task' = [t \in Task |-> Idle] /\ lock' = NoTask
      /\ UNCHANGED <<crew, row, entry, exits, risk, venue, lone, pendings, dbFailures>>
  BY IdleTyped DEF ExInv, Crash
<1>2. \A t \in Task : /\ task'[t].at = "idle" /\ task'[t].done = 0
                      /\ task'[t].filled = None /\ task'[t].rounds = 0
  BY <1>1 DEF Idle
<1>3. TypeOK'
  BY <1>1, <1>2 DEF TypeOK
<1>4. \A t \in Task : ~Active(t)' /\ ~Touched(t)' /\ ~Telling(t)'
  BY <1>2 DEF Active, Touched, Telling
<1>5. ASSUME NEW t \in Task PROVE TaskInv(t)'
  <2>1. RowAsRead(t)' /\ RemainingCovers(t)'
    BY <1>2 DEF RowAsRead, RemainingCovers, HasRead, Selling
  <2>2. FillsKept(t)' /\ ChunkInWork(t)'
    BY <1>2, ExitConstants DEF FillsKept, ChunkInWork
  <2> QED BY <2>1, <2>2 DEF TaskInv
<1>6. OpenUntouched'
  <2>1. ASSUME ~torn', status = "OPEN" PROVE exits = None
    <3>1. ~torn /\ \A t \in crew : task[t].filled = None
      BY <1>1, <2>1
    <3>2. \A t \in Task : Touched(t) => t \in crew
      BY <1>1 DEF ExInv, TaskInv, FillsKept, Touched, TypeOK
    <3> QED BY <2>1, <3>1, <3>2 DEF ExInv, OpenUntouched
  <2> QED BY <1>1, <1>4, <2>1 DEF OpenUntouched
<1>7. SoldIsTold' /\ PnlIsTold' /\ ClosesCounted'
  BY <1>1, <1>4 DEF SoldIsTold, PnlIsTold, ClosesCounted, Clean
<1>8. ExitsWithinEntry' /\ ClosedMeansExited'
  BY <1>1 DEF ExInv, ExitsWithinEntry, ClosedMeansExited
<1> QED BY <1>3, <1>5, <1>6, <1>7, <1>8 DEF ExInv

(* What only the venue does, or nobody. *)
LEMMA OutsideStep ==
    ASSUME ExInv, UNCHANGED <<crew, row, entry, exits, task, lock, risk, history, faults>>,
           held' \in [Leg -> Int], resting' \in [Leg -> Nat]
    PROVE  ExInv'
<1> USE DEF row, risk, history, faults
<1>1. TypeOK'
  BY DEF ExInv, TypeOK
<1>2. \A t \in Task : TaskInv(t)'
  BY DEF ExInv, TaskInv, RowAsRead, FillsKept, ChunkInWork, RemainingCovers, HasRead, Selling, Recorded, HalfSold
<1>3. OpenUntouched' /\ ExitsWithinEntry' /\ ClosedMeansExited'
  BY DEF ExInv, OpenUntouched, Touched, ExitsWithinEntry, ClosedMeansExited
<1>4. SoldIsTold'
  BY DEF ExInv, SoldIsTold, Clean, Untold, Active, Recorded, HalfSold
<1>5. PnlIsTold' /\ ClosesCounted'
  BY DEF ExInv, PnlIsTold, ClosesCounted, Telling, FullExit
<1> QED BY <1>1, <1>2, <1>3, <1>4, <1>5 DEF ExInv

LEMMA VenueStep ==
    ASSUME ExInv, NEW l \in Leg, VenueFills(l)
    PROVE  ExInv'
<1>1. held' \in [Leg -> Int] /\ resting' \in [Leg -> Nat]
  BY DEF ExInv, TypeOK, VenueFills
<1> QED BY <1>1, OutsideStep DEF VenueFills

-----------------------------------------------------------------------------
(* The invariant is inductive.                                             *)

LEMMA TaskSteps ==
    ASSUME SellersApart, ExInv, NEW t \in Task, Step(t)
    PROVE  ExInv'
<1>1. CASE AskToClose(t) BY <1>1, AskStep
<1>2. CASE Acquire(t) BY <1>2, AcquireStep
<1>3. CASE Read(t) BY <1>3, ReadStep
<1>4. CASE Size(t) BY <1>4, SizeStep
<1>5. CASE Check(t) BY <1>5, CheckStep
<1>6. CASE SellPrimary(t)
  <2>1. CASE \E n \in Chunks(t) : \E f \in 1..n :
               /\ Sold("primary", f)
               /\ task' = [task EXCEPT ![t] = PrimaryFilled(task[t], n, f)]
               /\ UNCHANGED <<lock, pendings>>
    BY <1>6, <2>1, SellPrimaryStep DEF SellPrimary
  <2>2. CASE \E n \in Chunks(t) : NotSold("primary", n) /\ Stop(t)
    <3>1. Chunks(t) \subseteq Nat
      <4>1. task[t] \in TaskState
        BY DEF ExInv, TypeOK
      <4>2. Smaller(task[t].remaining) \in Nat
        BY <4>1, ExitConstants DEF TaskState, Smaller
      <4> QED BY <4>2 DEF Chunks
    <3> QED BY <1>6, <2>2, <3>1, StopStep DEF SellPrimary
  <2> QED BY <1>6, <2>1, <2>2 DEF SellPrimary
<1>7. CASE RecordPrimary(t) BY <1>7, RecordPrimaryStep
<1>8. CASE SellSecondary(t)
  BY <1>8, SellSecondaryStep, LeftAloneStep DEF SellSecondary
<1>9. CASE RecordSecondary(t) BY <1>9, RecordSecondaryStep
<1>10. CASE Expose(t) BY <1>10, ExposeStep
<1>11. CASE WriteRow(t) BY <1>11, WriteStep
<1>12. CASE TellRisk(t) BY <1>12, TellStep
<1>13. CASE DbFails(t) BY <1>13, FailureStep
<1> QED BY <1>1, <1>2, <1>3, <1>4, <1>5, <1>6, <1>7, <1>8, <1>9, <1>10, <1>11, <1>12, <1>13 DEF Step

LEMMA ExInvStep == SellersApart /\ ExInv /\ [Next]_vars => ExInv'
<1> SUFFICES ASSUME SellersApart, ExInv, [Next]_vars PROVE ExInv'
  OBVIOUS
<1>1. CASE \E t \in Task : Step(t) BY <1>1, TaskSteps
<1>2. CASE Crash BY <1>2, CrashStep
<1>3. CASE \E l \in Leg : VenueFills(l) BY <1>3, VenueStep
<1>4. CASE UNCHANGED vars
  <2>1. held' \in [Leg -> Int] /\ resting' \in [Leg -> Nat]
    BY <1>4 DEF ExInv, TypeOK, vars, venue
  <2> QED BY <1>4, <2>1, OutsideStep DEF vars
<1> QED BY <1>1, <1>2, <1>3, <1>4 DEF Next

LEMMA InitTasks == Init => task \in [Task -> TaskState]
<1> SUFFICES ASSUME Init PROVE task \in [Task -> TaskState]
  OBVIOUS
<1>1. task = [t \in Task |-> Idle]
  BY DEF Init
<1>2. Idle \in TaskState
  BY ExitConstants DEF Idle, None, TaskState, Place, Status
<1> QED BY <1>1, <1>2

LEMMA InitExInv == Init => ExInv
<1> SUFFICES ASSUME Init PROVE ExInv
  OBVIOUS
<1> USE DEF Init
<1>1. /\ entry \in [Leg -> 1..MaxSize] /\ \A l \in Leg : entry[l] \in Nat /\ entry[l] > 0 /\ None[l] = 0
      /\ None \in [Leg -> 0..MaxSize]
  BY ExitConstants DEF None
<1>2. \A t \in Task : /\ task[t].at = "idle" /\ task[t].done = 0 /\ task[t].filled = None /\ task[t].rounds = 0
  BY DEF Idle
<1>3. TypeOK
  <2>1. held \in [Leg -> Int] /\ resting \in [Leg -> Nat] /\ exits \in [Leg -> Nat]
    BY <1>1 DEF None
  <2>2. task \in [Task -> TaskState]
    BY InitTasks
  <2> QED BY <1>1, <1>2, <2>1, <2>2 DEF TypeOK, Status
<1>4. \A t \in Task : ~Active(t) /\ ~Touched(t) /\ ~Telling(t)
  BY <1>2 DEF Active, Touched, Telling
<1>5. ASSUME NEW t \in Task PROVE TaskInv(t)
  <2>1. RowAsRead(t) /\ RemainingCovers(t)
    BY <1>2 DEF RowAsRead, RemainingCovers, HasRead, Selling
  <2>2. FillsKept(t) /\ ChunkInWork(t)
    BY <1>2, ExitConstants DEF FillsKept, ChunkInWork
  <2> QED BY <2>1, <2>2 DEF TaskInv
<1>6. OpenUntouched /\ PnlIsTold /\ ClosesCounted
  BY <1>4 DEF OpenUntouched, PnlIsTold, ClosesCounted
<1>7. SoldIsTold
  BY <1>1, <1>4 DEF SoldIsTold, Total
<1>8. ExitsWithinEntry /\ ClosedMeansExited
  BY <1>1 DEF ExitsWithinEntry, ClosedMeansExited
<1> QED BY <1>3, <1>5, <1>6, <1>7, <1>8 DEF ExInv

-----------------------------------------------------------------------------
(* The theorems.                                                           *)

(* Sizes and fills stay well formed, whatever is pending, fails or         *)
(* crashes, and what a cycle means to sell stays what the order rows       *)
(* leave.                                                                  *)
THEOREM ExitInvariant == ASSUME SellersApart PROVE Spec => []ExInv
<1>1. Init => ExInv
  BY InitExInv
<1>2. ExInv /\ [Next]_vars => ExInv'
  BY ExInvStep
<1> QED BY <1>1, <1>2, PTL DEF Spec

(* The order rows of a position never show more sold than its entry        *)
(* filled, unless an exit was cut off between a fill and the row.          *)
THEOREM ExitsAlwaysWithinEntry == ASSUME SellersApart PROVE Spec => []ExitsWithinEntry
<1>1. ExInv => ExitsWithinEntry
  BY DEF ExInv
<1> QED BY <1>1, ExitInvariant, PTL

(* A position is closed only once its order rows show both legs sold, with *)
(* cut-off exits and restarts before that or not.                          *)
THEOREM ClosedAlwaysExited == ASSUME SellersApart PROVE Spec => []ClosedMeansExited
<1>1. ExInv => ClosedMeansExited
  BY DEF ExInv
<1> QED BY <1>1, ExitInvariant, PTL

(* When a position is closed and its exits are over, the risk manager has  *)
(* heard of exactly what was bought, once; and between exits the P&L of    *)
(* the row is what the risk manager has heard of.                          *)
THEOREM BooksAlwaysAddUp == ASSUME SellersApart PROVE Spec => []BooksAddUp
<1>1. ASSUME ExInv, Quiet PROVE \A t \in Task : ~Active(t) /\ ~Telling(t)
  BY <1>1 DEF Quiet, Active, Telling
<1>2. ExInv => PnlMatchesRisk
  BY <1>1 DEF ExInv, PnlIsTold, PnlMatchesRisk
<1>3. ASSUME ExInv, status = "CLOSED", Quiet, Clean PROVE told = Total(entry) /\ closes = 1
  <2>1. told = Total(exits) /\ closes = 1
    BY <1>1, <1>3 DEF ExInv, SoldIsTold, ClosesCounted, Clean
  <2>2. \A l \in Leg : exits[l] \in Nat /\ entry[l] \in Nat /\ exits[l] <= entry[l] /\ exits[l] >= entry[l]
    BY <1>3, Sizes DEF ExInv, ExitsWithinEntry, ClosedMeansExited, Clean
  <2>3. Total(exits) = Total(entry)
    BY <2>2 DEF Total
  <2> QED BY <2>1, <2>3
<1>4. ExInv => BooksAddUp
  BY <1>2, <1>3 DEF ExInv, BooksAddUp, CloseSettlesCapital, Clean
<1> QED BY <1>4, ExitInvariant, PTL

(* A closed position stays closed: no exit that read it before comes back  *)
(* to write it.                                                            *)
THEOREM ClosedStaysFinal == ASSUME SellersApart PROVE Spec => ClosedIsFinal
<1>1. ASSUME ExInv, [Next]_vars PROVE status = "CLOSED" => status' = "CLOSED"
  <2> SUFFICES ASSUME status = "CLOSED" PROVE status' = "CLOSED"
    OBVIOUS
  <2>1. \A t \in Task : ~At(t, "expose") /\ ~At(t, "write")
    BY <1>1 DEF ExInv, TaskInv, RowAsRead, HasRead, Closeable, At
  <2>2. CASE \E t \in Task : Step(t)
    <3> PICK t \in Task : Step(t) BY <2>2
    <3>1. ~Expose(t) /\ ~WriteRow(t)
      BY <2>1 DEF Expose, WriteRow
    <3> QED BY <3>1 DEF Step, AskToClose, Acquire, Read, Size, Check, SellPrimary, RecordPrimary, SellSecondary,
                        RecordSecondary, TellRisk, DbFails, row
  <2>3. CASE Crash BY <2>3 DEF Crash, row
  <2>4. CASE \E l \in Leg : VenueFills(l) BY <2>4 DEF VenueFills, row
  <2>5. CASE UNCHANGED vars BY <2>5 DEF vars, row
  <2> QED BY <1>1, <2>2, <2>3, <2>4, <2>5 DEF Next
<1>2. ExInv /\ [Next]_vars => [status = "CLOSED" => status' = "CLOSED"]_vars
  BY <1>1
<1> QED BY <1>2, ExitInvariant, PTL DEF Spec, ClosedIsFinal
=============================================================================

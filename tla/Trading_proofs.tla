---------------------------- MODULE Trading_proofs ----------------------------
(***************************************************************************)
(* Proofs about how trading decides: the execution lock for any number of  *)
(* callers; the pair and cluster limits of the trading cycle for any       *)
(* pairs, rows and limits; the exits of the positions of a pair, and when  *)
(* a position is left, for any sizes and prices; what the edge calculator  *)
(* makes of the books of a dislocation, for any books and settings.  And   *)
(* about what trading leans on: the runs of backtests, for any runs and    *)
(* faults, and the computations around them, for any lists and times; the  *)
(* order books of a socket, for any pairs and losses; the chain of the     *)
(* audit trail, for any rows and times.                                    *)
(***************************************************************************)
EXTENDS TradingCycle, ExitMonitor, ExitCriteria, ExecutionLock, EdgeCalculation,
        AuditTrail, MarketFeeds, BacktestRuns, BacktestReports,
        SumTheorems, SequenceTheorems

-----------------------------------------------------------------------------
(* The execution lock.                                                      *)

(* A caller waits at most once. *)
WaitsOnce == \A i, j \in 1 .. Len(waiting) : waiting[i] = waiting[j] => i = j

(* Before a timeout, the one caller that can be inside is the holder.      *)
HolderAlone == ~slipped => inside \subseteq {holder}

LockInv == /\ TypeOK /\ WaitsOnce
           /\ NoOrphanedHold /\ NobodyWaitsForFreeLock /\ HolderAlone

-----------------------------------------------------------------------------

LEMMA NobodyInEmptyQueue == ToSet(<<>>) = {} /\ <<>> \in Seq(Caller) /\ Len(<<>>) = 0
<1>1. <<>> \in Seq(Caller) /\ Len(<<>>) = 0
  BY EmptySeq
<1>2. DOMAIN <<>> = 1 .. 0
  BY <1>1, LenProperties
<1> QED BY <1>1, <1>2 DEF ToSet

(* What the queue loses when its head enters. *)
LEMMA HeadLeaves ==
    ASSUME NEW q \in Seq(Caller), q # <<>>,
           \A i, j \in 1 .. Len(q) : q[i] = q[j] => i = j
    PROVE  /\ Head(q) \in ToSet(q) /\ Head(q) \in Caller /\ Tail(q) \in Seq(Caller)
           /\ ToSet(Tail(q)) \subseteq ToSet(q) /\ Head(q) \notin ToSet(Tail(q))
           /\ \A i, j \in 1 .. Len(Tail(q)) : Tail(q)[i] = Tail(q)[j] => i = j
<1>1. /\ Len(q) \in Nat /\ Len(q) > 0 /\ Head(q) = q[1] /\ Tail(q) \in Seq(Caller)
      /\ Len(Tail(q)) = Len(q) - 1 /\ \A i \in 1 .. Len(q) - 1 : Tail(q)[i] = q[i + 1]
  BY HeadTailProperties, EmptySeq, LenProperties
<1>2. /\ ToSet(q) = {q[i] : i \in 1 .. Len(q)}
      /\ ToSet(Tail(q)) = {Tail(q)[i] : i \in 1 .. Len(q) - 1}
  BY <1>1, LenProperties DEF ToSet
<1>3. \A i \in 1 .. Len(q) - 1 : i + 1 \in 1 .. Len(q) /\ i + 1 # 1
  BY <1>1
<1>4. Head(q) \in ToSet(q) /\ Head(q) \in Caller
  BY <1>1, <1>2, ElementOfSeq
<1>5. ToSet(Tail(q)) \subseteq ToSet(q)
  BY <1>1, <1>2, <1>3
<1>6. Head(q) \notin ToSet(Tail(q))
  BY <1>1, <1>2, <1>3
<1>7. ASSUME NEW i \in 1 .. Len(q) - 1, NEW j \in 1 .. Len(q) - 1, Tail(q)[i] = Tail(q)[j]
      PROVE  i = j
  <2>1. i + 1 \in 1 .. Len(q) /\ j + 1 \in 1 .. Len(q) /\ q[i + 1] = q[j + 1]
    BY <1>1, <1>3, <1>7
  <2>2. i + 1 = j + 1
    BY <2>1
  <2> QED BY <2>2
<1> QED BY <1>1, <1>4, <1>5, <1>6, <1>7

(* The end of a hold keeps the invariant, whoever ends it: the next holder *)
(* comes from the queue, and the others stay where they are.               *)
LEMMA HandOverKeeps ==
    ASSUME LockInv, NEW staying, staying \subseteq inside, HandOver(staying),
           \/ staying = inside \/ holder \notin staying \/ slipped,
           slipped' \in BOOLEAN,
           ~slipped' => ~slipped \/ inside' = {},
           ~slipped' => holder \notin staying
    PROVE  LockInv'
<1> USE NoCallerIsNone DEF LockInv, TypeOK, WaitsOnce, NoOrphanedHold, NobodyWaitsForFreeLock,
                           HolderAlone, HandOver, Grant, Free, Unlocked, lock
<1>1. CASE holder # NoCaller /\ waiting # <<>>
  <2>1. /\ holder' = Head(waiting) /\ timer' = TRUE /\ waiting' = Tail(waiting)
        /\ inside' = staying \cup {Head(waiting)}
    BY <1>1
  <2>2. /\ Head(waiting) \in ToSet(waiting) /\ Head(waiting) \in Caller /\ Tail(waiting) \in Seq(Caller)
        /\ ToSet(Tail(waiting)) \subseteq ToSet(waiting) /\ Head(waiting) \notin ToSet(Tail(waiting))
        /\ \A i, j \in 1 .. Len(Tail(waiting)) : Tail(waiting)[i] = Tail(waiting)[j] => i = j
    BY <1>1, HeadLeaves
  <2>3. TypeOK'
    <3>1. holder' \in Caller /\ timer' = (holder' # NoCaller)
      BY <2>1, <2>2
    <3>2. inside' \subseteq Caller
      BY <2>1, <2>2
    <3>3. inside' \cap ToSet(waiting)' = {}
      BY <2>1, <2>2
    <3> QED BY <2>1, <2>2, <3>1, <3>2, <3>3
  <2>4. HolderAlone'
    BY <2>1
  <2> QED BY <2>1, <2>2, <2>3, <2>4
<1>2. CASE ~(holder # NoCaller /\ waiting # <<>>)
  <2>1. inside' = staying /\ waiting' = waiting /\ holder' = NoCaller /\ timer' = FALSE /\ waiting = <<>>
    BY <1>2
  <2>2. TypeOK'
    <3>1. inside' \cap ToSet(waiting)' = {} /\ inside' \subseteq Caller
      BY <2>1
    <3> QED BY <2>1, <3>1
  <2>3. WaitsOnce' /\ NoOrphanedHold' /\ NobodyWaitsForFreeLock'
    BY <2>1
  <2>4. HolderAlone'
    BY <2>1
  <2> QED BY <2>2, <2>3, <2>4
<1> QED BY <1>1, <1>2

LEMMA LockStep == LockInv /\ [Next]_vars => LockInv'
<1> SUFFICES ASSUME LockInv, [Next]_vars PROVE LockInv'
  OBVIOUS
<1> USE NoCallerIsNone DEF LockInv
<1>1. ASSUME NEW c \in Caller, Acquire(c)
      PROVE  LockInv'
  <2> USE DEF TypeOK, WaitsOnce, NoOrphanedHold, NobodyWaitsForFreeLock, HolderAlone, Acquire, Waits
  <2>1. CASE holder = NoCaller
    <3>1. /\ holder' = c /\ timer' = TRUE /\ inside' = inside \cup {c} /\ waiting' = waiting
          /\ slipped' = slipped
      BY <1>1, <2>1 DEF Grant
    <3>2. waiting = <<>> /\ ToSet(waiting) = {}
      BY <2>1, NobodyInEmptyQueue
    <3>3. TypeOK'
      BY <3>1, <3>2
    <3>4. WaitsOnce' /\ NoOrphanedHold' /\ NobodyWaitsForFreeLock'
      BY <3>1, <3>2
    <3>5. HolderAlone'
      BY <2>1, <3>1
    <3> QED BY <3>3, <3>4, <3>5
  <2>2. CASE holder # NoCaller
    <3>1. waiting' = Append(waiting, c) /\ UNCHANGED <<holder, timer, inside, slipped>>
      BY <1>1, <2>2 DEF lock
    <3>2. /\ waiting' \in Seq(Caller) /\ Len(waiting') = Len(waiting) + 1 /\ Len(waiting) \in Nat
          /\ \A i \in 1 .. Len(waiting) : waiting'[i] = waiting[i]
          /\ waiting'[Len(waiting) + 1] = c
      BY <3>1, AppendProperties, LenProperties
    <3>3. \A i \in 1 .. Len(waiting) : waiting[i] # c
      BY <1>1, LenProperties DEF ToSet
    <3>4. WaitsOnce'
      <4> SUFFICES ASSUME NEW i \in 1 .. Len(waiting) + 1, NEW j \in 1 .. Len(waiting) + 1,
                          waiting'[i] = waiting'[j]
                   PROVE  i = j
        BY <3>2
      <4>1. CASE i \in 1 .. Len(waiting) /\ j \in 1 .. Len(waiting)
        BY <3>2, <4>1
      <4>2. CASE i = Len(waiting) + 1 \/ j = Len(waiting) + 1
        BY <3>2, <3>3, <4>2
      <4> QED BY <3>2, <4>1, <4>2
    <3>5. ToSet(waiting)' \subseteq ToSet(waiting) \cup {c}
      <4>1. ToSet(waiting)' = {waiting'[i] : i \in 1 .. Len(waiting) + 1}
        BY <3>2, LenProperties DEF ToSet
      <4>2. ToSet(waiting) = {waiting[i] : i \in 1 .. Len(waiting)}
        BY LenProperties DEF ToSet
      <4> QED BY <3>2, <4>1, <4>2
    <3>6. c \notin inside
      BY <1>1
    <3>7. TypeOK'
      BY <3>1, <3>2, <3>5, <3>6
    <3> QED BY <2>2, <3>1, <3>4, <3>7
  <2> QED BY <2>1, <2>2
<1>2. ASSUME NEW c \in Caller, Release(c)
      PROVE  LockInv'
  <2>1. /\ c \in inside /\ HandOver(inside \ {c})
        /\ slipped' = (slipped /\ inside' # {}) /\ inside \ {c} \subseteq inside
    BY <1>2 DEF Release
  <2>2. slipped' \in BOOLEAN
    BY <2>1 DEF TypeOK
  <2>3. ~slipped => c = holder
    BY <2>1 DEF HolderAlone
  <2>4. ~slipped' => holder \notin inside \ {c}
    <3>1. CASE ~slipped
      BY <2>3, <3>1
    <3>2. CASE slipped /\ inside' = {}
      BY <2>1, <3>2 DEF HandOver
    <3> QED BY <2>1, <3>1, <3>2
  <2> QED BY <2>1, <2>2, <2>3, <2>4, HandOverKeeps
<1>3. CASE TimerFires
  <2>1. HandOver(inside) /\ slipped' = TRUE /\ timer
    BY <1>3 DEF TimerFires
  <2> QED BY <2>1, HandOverKeeps
<1>4. CASE UNCHANGED vars
  BY <1>4 DEF vars, lock, TypeOK, WaitsOnce, NoOrphanedHold, NobodyWaitsForFreeLock, HolderAlone
<1> QED BY <1>1, <1>2, <1>3, <1>4 DEF Next

LEMMA LockInit == Init => LockInv
<1> SUFFICES ASSUME Init PROVE LockInv
  OBVIOUS
<1>1. waiting \in Seq(Caller) /\ ToSet(waiting) = {} /\ Len(waiting) = 0 /\ waiting = <<>>
  BY NobodyInEmptyQueue DEF Init
<1>2. TypeOK
  BY <1>1 DEF Init, TypeOK
<1>3. WaitsOnce /\ NobodyWaitsForFreeLock
  BY <1>1 DEF WaitsOnce, NobodyWaitsForFreeLock
<1>4. NoOrphanedHold /\ HolderAlone
  BY DEF Init, NoOrphanedHold, HolderAlone
<1> QED BY <1>2, <1>3, <1>4 DEF LockInv

(* At any moment, with any number of callers: a hold belongs to a caller   *)
(* that is still inside, and nobody waits for a free lock.  Neither the    *)
(* timer nor late releases can wedge the engine.                           *)
THEOREM LockNeverWedged == Spec => []LockSound
<1>1. LockInv => LockSound
  BY DEF LockInv, LockSound
<1> QED BY <1>1, LockInit, LockStep, PTL DEF Spec

(* Until the timer ends a hold, and again once everyone has left, no two   *)
(* callers are inside together.                                            *)
THEOREM LockExcludes == Spec => []ExclusiveUntilTimeout
<1>1. LockInv => ExclusiveUntilTimeout
  BY DEF LockInv, HolderAlone, ExclusiveUntilTimeout
<1> QED BY <1>1, LockInit, LockStep, PTL DEF Spec
-----------------------------------------------------------------------------
(* Refinement: the lock implements exclusive access. *)

LEMMA LockInitAccess == Init => Access!Init
<1> QED BY NobodyInEmptyQueue DEF Init, Access!Init

(* What leaves the queue when its head enters, and no more. *)
LEMMA QueueAfterHead ==
    ASSUME NEW q \in Seq(Caller), q # <<>>,
           \A i, j \in 1 .. Len(q) : q[i] = q[j] => i = j
    PROVE  ToSet(Tail(q)) = ToSet(q) \ {Head(q)}
<1>1. /\ Len(q) \in Nat /\ Len(q) > 0 /\ Head(q) = q[1] /\ Tail(q) \in Seq(Caller)
      /\ Len(Tail(q)) = Len(q) - 1 /\ \A i \in 1 .. Len(q) - 1 : Tail(q)[i] = q[i + 1]
  BY HeadTailProperties, EmptySeq, LenProperties
<1>2. /\ ToSet(q) = {q[i] : i \in 1 .. Len(q)}
      /\ ToSet(Tail(q)) = {Tail(q)[i] : i \in 1 .. Len(q) - 1}
  BY <1>1, LenProperties DEF ToSet
<1>3. ToSet(Tail(q)) \subseteq ToSet(q) /\ Head(q) \notin ToSet(Tail(q))
  BY HeadLeaves
<1>4. ASSUME NEW c \in ToSet(q), c # Head(q)
      PROVE  c \in ToSet(Tail(q))
  <2>1. PICK i \in 1 .. Len(q) : c = q[i]
    BY <1>2
  <2>2. i # 1
    BY <1>1, <1>4, <2>1
  <2>3. i - 1 \in 1 .. Len(q) - 1 /\ (i - 1) + 1 = i
    BY <1>1, <2>2
  <2>4. Tail(q)[i - 1] = c
    BY <1>1, <2>1, <2>3
  <2> QED BY <1>2, <2>3, <2>4
<1> QED BY <1>3, <1>4

(* The end of a hold admits one of the callers that ask, if any asks. *)
LEMMA HandOverAdmits ==
    ASSUME LockInv, NEW staying, staying \subseteq inside, HandOver(staying),
           \/ staying = {} \/ slipped' \/ holder = NoCaller
    PROVE  \E next \in Access!NextIn : Access!Admit(next, staying) /\ inside' = staying \cup next
<1> USE DEF LockInv, TypeOK, WaitsOnce
<1>1. CASE holder # NoCaller /\ waiting # <<>>
  <2>1. waiting' = Tail(waiting) /\ inside' = staying \cup {Head(waiting)}
    BY <1>1 DEF HandOver
  <2>2. Head(waiting) \in ToSet(waiting)
    BY <1>1, HeadLeaves
  <2>3. ToSet(Tail(waiting)) = ToSet(waiting) \ {Head(waiting)}
    BY <1>1, QueueAfterHead
  <2>4. {Head(waiting)} \in Access!NextIn
    BY <2>2 DEF Access!NextIn
  <2>5. Access!Admit({Head(waiting)}, staying)
    BY <1>1, <2>1, <2>3 DEF Access!Admit
  <2> QED BY <2>1, <2>4, <2>5
<1>2. CASE ~(holder # NoCaller /\ waiting # <<>>)
  <2>1. inside' = staying /\ waiting' = waiting /\ waiting = <<>>
    BY <1>2 DEF HandOver, NobodyWaitsForFreeLock
  <2>2. {} \in Access!NextIn
    BY <2>1, NobodyInEmptyQueue DEF Access!NextIn
  <2>3. Access!Admit({}, staying)
    BY <2>1 DEF Access!Admit
  <2> QED BY <2>1, <2>2, <2>3
<1> QED BY <1>1, <1>2

LEMMA LockStepAccess == LockInv /\ [Next]_vars => [Access!Next]_Access!accessVars
<1> SUFFICES ASSUME LockInv, [Next]_vars PROVE [Access!Next]_Access!accessVars
  OBVIOUS
<1> USE DEF LockInv
<1>1. ASSUME NEW c \in Caller, Acquire(c)
      PROVE  Access!Next
  <2>0. c \notin inside /\ c \notin ToSet(waiting) /\ slipped' = slipped
    BY <1>1 DEF Acquire, Waits
  <2>1. CASE holder = NoCaller
    <3>1. inside' = inside \cup {c} /\ waiting' = waiting
      BY <1>1, <2>1 DEF Acquire
    <3>2. inside = {} \/ slipped
      BY <2>1, NoCallerIsNone DEF HolderAlone, TypeOK
    <3>3. Access!Enter(c)
      BY <2>0, <3>1, <3>2 DEF Access!Enter
    <3> QED BY <3>3 DEF Access!Next
  <2>2. CASE holder # NoCaller
    <3>1. waiting' = Append(waiting, c) /\ inside' = inside
      BY <1>1, <2>2 DEF Acquire
    <3>2. /\ Len(waiting') = Len(waiting) + 1 /\ Len(waiting) \in Nat /\ waiting' \in Seq(Caller)
          /\ \A i \in 1 .. Len(waiting) : waiting'[i] = waiting[i]
          /\ waiting'[Len(waiting) + 1] = c
      BY <3>1, AppendProperties, LenProperties DEF TypeOK
    <3>3. ToSet(waiting)' = ToSet(waiting) \cup {c}
      <4>1. ToSet(waiting)' = {waiting'[i] : i \in 1 .. Len(waiting) + 1}
        BY <3>2, LenProperties DEF ToSet
      <4>2. ToSet(waiting) = {waiting[i] : i \in 1 .. Len(waiting)}
        BY LenProperties DEF ToSet, TypeOK
      <4>3. \A i \in 1 .. Len(waiting) : i \in 1 .. Len(waiting) + 1
        BY <3>2
      <4>4. \A i \in 1 .. Len(waiting) + 1 : i \in 1 .. Len(waiting) \/ i = Len(waiting) + 1
        BY <3>2
      <4>5. Len(waiting) + 1 \in 1 .. Len(waiting) + 1
        BY <3>2
      <4> QED BY <3>2, <4>1, <4>2, <4>3, <4>4, <4>5
    <3>4. inside # {}
      BY <2>2 DEF NoOrphanedHold
    <3>5. Access!Ask(c)
      BY <2>0, <3>1, <3>3, <3>4 DEF Access!Ask
    <3> QED BY <3>5 DEF Access!Next
  <2> QED BY <2>1, <2>2
<1>2. ASSUME NEW c \in Caller, Release(c)
      PROVE  Access!Next
  <2>1. /\ c \in inside /\ HandOver(inside \ {c})
        /\ slipped' = (slipped /\ inside' # {}) /\ inside \ {c} \subseteq inside
    BY <1>2 DEF Release
  <2>2. inside \ {c} = {} \/ slipped'
    <3>1. CASE ~slipped
      BY <2>1, <3>1 DEF HolderAlone
    <3>2. CASE slipped
      BY <2>1, <3>2 DEF HandOver
    <3> QED BY <3>1, <3>2 DEF TypeOK
  <2>3. PICK next \in Access!NextIn :
            Access!Admit(next, inside \ {c}) /\ inside' = (inside \ {c}) \cup next
    BY <2>1, <2>2, HandOverAdmits
  <2>4. Access!Leave(c)
    BY <2>1, <2>3 DEF Access!Leave
  <2> QED BY <2>4 DEF Access!Next
<1>3. CASE TimerFires
  <2>1. HandOver(inside) /\ slipped' = TRUE /\ timer
    BY <1>3 DEF TimerFires
  <2>2. inside # {}
    BY <2>1 DEF TypeOK, NoOrphanedHold
  <2>3. \E next \in Access!NextIn : Access!Admit(next, inside)
    BY <2>1, HandOverAdmits
  <2>4. Access!Overtake
    BY <2>1, <2>2, <2>3 DEF Access!Overtake
  <2> QED BY <2>4 DEF Access!Next
<1>4. CASE UNCHANGED vars
  BY <1>4 DEF vars, lock, Access!accessVars
<1> QED BY <1>1, <1>2, <1>3, <1>4 DEF Next

(* For any number of callers the lock implements exclusive access: whoever *)
(* leaves lets the next one in, and nobody joins a caller that is inside   *)
(* unless one was overtaken.                                               *)
THEOREM LockImplementsAccess == Spec => ImplementsAccess
<1> QED BY LockInit, LockStep, LockInitAccess, LockStepAccess, PTL
        DEF Spec, ImplementsAccess, Access!Spec

-----------------------------------------------------------------------------
(* The trading cycle.                                                       *)

CycleRow == [pair : Pairs, size : Nat, createdAt : Nat,
        status : Exposed \cup {"RECONCILIATION_REQUIRED", "CLOSED"}]

EachOnce(s) == \A i, j \in DOMAIN s : s[i].pair = s[j].pair => i = j
Apart(s, t) == \A i \in DOMAIN s : \A j \in DOMAIN t : s[i].pair /= t[j].pair

(* What the stages of a cycle hold: pairs still to be read, opportunities   *)
(* still to be validated, and those found, passed or approved.              *)
Shaped(c) ==
    /\ c \in [stage : Stages, todo : Seq(Pairs) \cup Seq(Opportunity), batch : Seq(Opportunity)]
    /\ EachOnce(c.batch)
    /\ c.stage \in {"idle", "ingest"} => c.todo = <<>> /\ c.batch = <<>>
    /\ c.stage \in {"kalshi", "polymarket"} =>
          /\ c.todo \in Seq(Pairs) /\ c.todo /= <<>> /\ IsInjective(c.todo)
          /\ \A i \in DOMAIN c.batch : c.batch[i].pair \notin Range(c.todo)
    /\ c.stage \in {"filter", "execute"} => c.todo = <<>>
    /\ c.stage = "execute" => c.batch /= <<>>
    /\ c.stage = "validate" =>
          /\ c.todo \in Seq(Opportunity) /\ c.todo /= <<>>
          /\ EachOnce(c.todo) /\ Apart(c.todo, c.batch)

TableTyped ==
    /\ clock \in 0 .. MaxTime
    /\ rows \in Seq(CycleRow) /\ Len(rows) <= MaxRows
    /\ \A i \in DOMAIN rows : rows[i].createdAt <= clock

CycleInvTyped ==
    /\ TableTyped
    /\ engine \in [up : BOOLEAN, shuttingDown : BOOLEAN, halted : BOOLEAN,
                   deadline : 0..(MaxTime + ShutdownWait)]
    /\ Shaped(cycle)
    /\ exposures \in [Clusters -> Nat]
    /\ recalcs \in Seq([Clusters -> Nat])
    /\ failedOpen \in BOOLEAN /\ evaded \in BOOLEAN
    /\ ~engine.up => cycle = NoCycle /\ recalcs = <<>>

(* A pair that may open one more position now.                              *)
HasRoom(p) ==
    /\ MaxConcurrent > 0 => OpenCount(p) < MaxConcurrent
    /\ \A i \in DOMAIN rows : rows[i].pair = p => clock - rows[i].createdAt >= Cooldown

(* What passed the filter stays free until its own position is opened.      *)
Admitted ==
    /\ cycle.stage \in {"validate", "execute"} =>
          \A i \in DOMAIN cycle.batch : HasRoom(cycle.batch[i].pair)
    /\ cycle.stage = "validate" => \A i \in DOMAIN cycle.todo : HasRoom(cycle.todo[i].pair)

GatesInv ==
    ~failedOpen => Admitted /\ PairLimitHeld /\ CooldownRespected

(* The exposures the tracker knows once the answers under way have landed.  *)
Latest == IF recalcs = <<>> THEN exposures ELSE recalcs[Len(recalcs)]

(* They miss no capital, and what is approved fits under the limit beside   *)
(* what is open: no two of a batch share a cluster.                         *)
ClustersInv ==
    ~evaded =>
      /\ engine.up => \A c \in Clusters : CapitalIn(c, rows) <= Latest[c]
      /\ cycle.stage \in {"validate", "execute"} =>
            /\ \A i, j \in DOMAIN cycle.batch :
                 ClusterOf[cycle.batch[i].pair] = ClusterOf[cycle.batch[j].pair] => i = j
            /\ \A i \in DOMAIN cycle.batch :
                 CapitalIn(ClusterOf[cycle.batch[i].pair], rows) + cycle.batch[i].size < HardLimit
      /\ ClusterLimitHeld

CycleInv == CycleInvTyped /\ GatesInv /\ ClustersInv


-----------------------------------------------------------------------------
(* What is left of a sequence.                                              *)

LEMMA SuffixOf ==
    ASSUME NEW S, NEW s \in Seq(S), NEW k \in 0 .. Len(s)
    PROVE  /\ SubSeq(s, k + 1, Len(s)) \in Seq(S)
           /\ DOMAIN SubSeq(s, k + 1, Len(s)) = 1 .. (Len(s) - k)
           /\ \A i \in DOMAIN SubSeq(s, k + 1, Len(s)) :
                k + i \in DOMAIN s /\ SubSeq(s, k + 1, Len(s))[i] = s[k + i]
<1> DEFINE n == Len(s)  t == SubSeq(s, k + 1, n)
<1>1. n \in Nat /\ DOMAIN s = 1 .. n /\ \A i \in 1 .. n : s[i] \in S
  BY LenProperties, ElementOfSeq
<1>2. k \in Nat /\ k <= n /\ k + 1 \in Int /\ n \in Int
  BY <1>1
<1>3. \A i \in (k + 1) .. n : s[i] \in S
  BY <1>1, <1>2
<1>4. /\ t \in Seq(S)
      /\ Len(t) = IF k + 1 <= n THEN n - (k + 1) + 1 ELSE 0
      /\ \A i \in 1 .. (n - (k + 1) + 1) : t[i] = s[(k + 1) + i - 1]
  <2> HIDE DEF n
  <2> QED BY <1>2, <1>3, SubSeqProperties
<1> HIDE DEF n, t
<1>5. DOMAIN t = 1 .. Len(t)
  BY <1>4, LenProperties
<1>6. n - (k + 1) + 1 = n - k
  BY <1>2
<1>7. Len(t) = n - k
  BY <1>2, <1>4
<1>8. ASSUME NEW i \in DOMAIN t PROVE k + i \in DOMAIN s /\ t[i] = s[k + i]
  <2>1. i \in 1 .. (n - k)
    BY <1>5, <1>7
  <2>2. t[i] = s[(k + 1) + i - 1]
    BY <1>4, <1>6, <2>1
  <2>3. (k + 1) + i - 1 = k + i /\ k + i \in 1 .. n
    BY <1>2, <2>1
  <2> QED BY <1>1, <2>2, <2>3
<1> QED BY <1>4, <1>5, <1>7, <1>8 DEF n, t

LEMMA TailOnce ==
    ASSUME NEW s \in Seq(Opportunity), s /= <<>>, EachOnce(s)
    PROVE  /\ Head(s) \in Opportunity /\ Head(s) = s[1] /\ 1 \in DOMAIN s
           /\ Tail(s) \in Seq(Opportunity) /\ EachOnce(Tail(s))
           /\ DOMAIN Tail(s) = 1 .. (Len(s) - 1)
           /\ DOMAIN s = 1 .. Len(s) /\ Len(s) \in Nat \ {0}
           /\ \A i \in DOMAIN Tail(s) : i + 1 \in DOMAIN s /\ Tail(s)[i] = s[i + 1]
           /\ \A i \in DOMAIN Tail(s) : Tail(s)[i].pair /= Head(s).pair
<1>1. /\ Head(s) \in Opportunity /\ Tail(s) \in Seq(Opportunity)
      /\ Len(Tail(s)) = Len(s) - 1
      /\ \A i \in 1 .. Len(Tail(s)) : Tail(s)[i] = s[i + 1]
  BY HeadTailProperties
<1>2. Len(s) \in Nat \ {0} /\ DOMAIN s = 1 .. Len(s) /\ Head(s) = s[1]
  BY EmptySeq, LenProperties
<1>3. DOMAIN Tail(s) = 1 .. (Len(s) - 1)
  BY <1>1, LenProperties
<1>4. \A i \in DOMAIN Tail(s) : i + 1 \in DOMAIN s /\ i \in Int /\ i + 1 /= 1 /\ Tail(s)[i] = s[i + 1]
  BY <1>1, <1>2, <1>3
<1>5. EachOnce(Tail(s)) /\ 1 \in DOMAIN s
  BY <1>2, <1>4 DEF EachOnce
<1>6. \A i \in DOMAIN Tail(s) : Tail(s)[i].pair /= Head(s).pair
  BY <1>2, <1>4, <1>5 DEF EachOnce
<1> QED BY <1>1, <1>2, <1>3, <1>4, <1>5, <1>6

LEMMA AppendOnce ==
    ASSUME NEW s \in Seq(Opportunity), EachOnce(s), NEW o \in Opportunity,
           \A i \in DOMAIN s : s[i].pair /= o.pair
    PROVE  /\ Append(s, o) \in Seq(Opportunity) /\ EachOnce(Append(s, o))
           /\ Append(s, o) /= <<>>
           /\ DOMAIN Append(s, o) = DOMAIN s \cup {Len(s) + 1}
           /\ Len(s) + 1 \notin DOMAIN s
           /\ Append(s, o)[Len(s) + 1] = o
           /\ \A i \in DOMAIN s : Append(s, o)[i] = s[i]
<1>1. Len(s) \in Nat /\ DOMAIN s = 1 .. Len(s)
  BY LenProperties
<1>2. /\ Append(s, o) \in Seq(Opportunity) /\ Append(s, o) /= <<>>
      /\ Len(Append(s, o)) = Len(s) + 1
      /\ \A i \in DOMAIN s : Append(s, o)[i] = s[i]
      /\ Append(s, o)[Len(s) + 1] = o
  BY <1>1, AppendProperties
<1>3. DOMAIN Append(s, o) = 1 .. (Len(s) + 1)
  BY <1>2, LenProperties
<1>4. DOMAIN Append(s, o) = DOMAIN s \cup {Len(s) + 1} /\ Len(s) + 1 \notin DOMAIN s
  BY <1>1, <1>3
<1>5. EachOnce(Append(s, o))
  BY <1>2, <1>4 DEF EachOnce
<1> QED BY <1>2, <1>4, <1>5

(* A batch in another order, or some of it, is what the places say.         *)
LEMMA TakenInOrder ==
    ASSUME NEW s \in Seq(Opportunity), EachOnce(s), NEW n \in Nat, NEW order \in [1 .. n -> DOMAIN s],
           IsInjective(order)
    PROVE  /\ Taken(s, order) \in Seq(Opportunity) /\ EachOnce(Taken(s, order))
           /\ DOMAIN Taken(s, order) = 1 .. n /\ Len(Taken(s, order)) = n
           /\ \A i \in 1 .. n : order[i] \in DOMAIN s /\ Taken(s, order)[i] = s[order[i]]
<1>1. s \in [DOMAIN s -> Opportunity]
  BY LenProperties
<1>2. Taken(s, order) \in [1 .. n -> Opportunity]
  BY <1>1 DEF Taken
<1>3. Taken(s, order) \in Seq(Opportunity) /\ Len(Taken(s, order)) = n
  BY <1>2, SeqDef, LenProperties
<1>4. \A i \in 1 .. n : order[i] \in DOMAIN s /\ Taken(s, order)[i] = s[order[i]]
  BY DEF Taken
<1>5. EachOnce(Taken(s, order))
  BY <1>2, <1>4 DEF EachOnce, IsInjective
<1> QED BY <1>2, <1>3, <1>4, <1>5

LEMMA BestFirstInjective ==
    ASSUME NEW s \in Seq(Opportunity), NEW order \in BestFirst(s)
    PROVE  order \in [1 .. Len(s) -> DOMAIN s] /\ IsInjective(order) /\ Len(s) \in Nat
<1>1. DOMAIN s = 1 .. Len(s) /\ Len(s) \in Nat
  BY LenProperties
<1>2. order \in [1 .. Len(s) -> 1 .. Len(s)]
  BY <1>1 DEF BestFirst
<1>3. \A m, n \in 1 .. Len(s) : m < n => order[m] /= order[n]
  <2> SUFFICES ASSUME NEW m \in 1 .. Len(s), NEW n \in 1 .. Len(s), m < n, order[m] = order[n]
               PROVE  FALSE
    OBVIOUS
  <2>1. s[order[m]] \in Opportunity /\ order[m] \in 1 .. Len(s)
    BY <1>1, <1>2, ElementOfSeq
  <2>2. s[order[m]].edge \in Edges /\ Edges \subseteq Nat
    BY <2>1, CycleAssumption DEF Opportunity
  <2>3. \/ s[order[m]].edge > s[order[n]].edge
        \/ s[order[m]].edge = s[order[n]].edge /\ order[m] < order[n]
    BY <1>1, <1>2 DEF BestFirst
  <2>4. s[order[m]].edge \in Nat /\ order[m] \in Nat
    <3>1. s[order[m]].edge \in Nat
      BY <2>2
    <3>2. order[m] \in Nat
      BY <2>1, <1>1
    <3> QED BY <3>1, <3>2
  <2>5. s[order[n]].edge = s[order[m]].edge
    OBVIOUS
  <2>6. ~ (s[order[m]].edge > s[order[n]].edge) /\ ~ (order[m] < order[n])
    BY <2>4, <2>5
  <2> QED BY <2>3, <2>6
<1>4. IsInjective(order)
  BY <1>2, <1>3 DEF IsInjective
<1> QED BY <1>1, <1>2, <1>4

LEMMA AsTheyComeInjective ==
    ASSUME NEW s \in Seq(Opportunity), NEW places \in SUBSET (DOMAIN s), NEW order \in AsTheyCome(places)
    PROVE  /\ order \in [1 .. Cardinality(places) -> DOMAIN s] /\ IsInjective(order)
           /\ Cardinality(places) \in Nat
           /\ \A i \in DOMAIN order : order[i] \in places
<1>1. DOMAIN s = 1 .. Len(s) /\ Len(s) \in Nat
  BY LenProperties
<1>2. IsFiniteSet(places) /\ Cardinality(places) \in Nat
  <2>1. IsFiniteSet(DOMAIN s)
    BY <1>1, FS_Interval
  <2>2. IsFiniteSet(places)
    BY <2>1, FS_Subset
  <2> QED BY <2>2, FS_CardinalityType
<1>3. order \in [1 .. Cardinality(places) -> places]
  BY DEF AsTheyCome
<1>4. \A m, n \in 1 .. Cardinality(places) : m < n => order[m] < order[n]
  BY <1>3 DEF AsTheyCome
<1>5. \A m \in 1 .. Cardinality(places) : order[m] \in Int
  BY <1>1, <1>3
<1>6. IsInjective(order)
  BY <1>2, <1>3, <1>4, <1>5 DEF IsInjective
<1> QED BY <1>2, <1>3, <1>6
-----------------------------------------------------------------------------
(* The stages of a cycle.                                                   *)

LEMMA ShapedNothing == Shaped(NoCycle) /\ Shaped([NoCycle EXCEPT !.stage = "ingest"])
<1>1. <<>> \in Seq(Opportunity) /\ <<>> \in Seq(Pairs) /\ DOMAIN <<>> = {}
  BY EmptySeq
<1> QED BY <1>1 DEF Shaped, NoCycle, Stages, EachOnce

LEMMA DetectShaped ==
    ASSUME NEW todo \in Seq(Pairs), IsInjective(todo),
           NEW batch \in Seq(Opportunity), EachOnce(batch),
           \A i \in DOMAIN batch : batch[i].pair \notin Range(todo),
           Detect(todo, batch)
    PROVE  Shaped(cycle') /\ cycle'.stage \in {"idle", "kalshi", "filter"}
<1>1. Len(todo) \in Nat /\ DOMAIN todo = 1 .. Len(todo)
  BY LenProperties
<1>2. PICK skipped \in 0 .. Len(todo) :
        LET rest == SubSeq(todo, skipped + 1, Len(todo))
        IN  cycle' = [stage |-> IF rest /= <<>> THEN "kalshi"
                                ELSE IF batch = <<>> THEN "idle" ELSE "filter",
                      todo |-> rest, batch |-> batch]
  BY DEF Detect
<1> DEFINE rest == SubSeq(todo, skipped + 1, Len(todo))
<1>3. /\ rest \in Seq(Pairs)
      /\ \A i \in DOMAIN rest : skipped + i \in DOMAIN todo /\ rest[i] = todo[skipped + i]
      /\ DOMAIN rest = 1 .. (Len(todo) - skipped)
  BY SuffixOf
<1>4. cycle' = [stage |-> IF rest /= <<>> THEN "kalshi" ELSE IF batch = <<>> THEN "idle" ELSE "filter",
                todo |-> rest, batch |-> batch]
  BY <1>2
<1> HIDE DEF rest
<1>7. IsInjective(rest)
  BY <1>1, <1>3 DEF IsInjective
<1>8. \A i \in DOMAIN batch : batch[i].pair \notin Range(rest)
  BY <1>3 DEF Range
<1>9. cycle' \in [stage : Stages, todo : Seq(Pairs) \cup Seq(Opportunity), batch : Seq(Opportunity)]
  BY <1>3, <1>4 DEF Stages
<1> QED BY <1>3, <1>4, <1>7, <1>8, <1>9 DEF Shaped

(* What is approved goes to the queue in another order, and nothing else.   *)
LEMMA ValidatingShaped ==
    ASSUME NEW todo \in Seq(Opportunity), EachOnce(todo),
           NEW batch \in Seq(Opportunity), EachOnce(batch), Apart(todo, batch),
           Validating(todo, batch)
    PROVE  /\ Shaped(cycle') /\ cycle'.stage \in {"idle", "validate", "execute"}
           /\ cycle'.stage = "validate" => cycle'.todo = todo
           /\ \E order \in [DOMAIN cycle'.batch -> DOMAIN batch] :
                 IsInjective(order) /\ \A i \in DOMAIN cycle'.batch : cycle'.batch[i] = batch[order[i]]
<1>1. CASE todo /= <<>>
  <2>1. cycle' = [stage |-> "validate", todo |-> todo, batch |-> batch]
    BY <1>1 DEF Validating
  <2>2. Shaped(cycle')
    BY <1>1, <2>1 DEF Shaped, Stages
  <2> DEFINE order == [i \in DOMAIN batch |-> i]
  <2>3. /\ order \in [DOMAIN batch -> DOMAIN batch] /\ IsInjective(order)
        /\ \A i \in DOMAIN batch : batch[i] = batch[order[i]]
    BY DEF IsInjective
  <2> HIDE DEF order
  <2> QED BY <2>1, <2>2, <2>3
<1>2. CASE todo = <<>>
  <2>1. PICK order \in BestFirst(batch) :
          cycle' = [stage |-> IF batch = <<>> THEN "idle" ELSE "execute",
                    todo |-> <<>>, batch |-> Taken(batch, order)]
    BY <1>2 DEF Validating
  <2>2. order \in [1 .. Len(batch) -> DOMAIN batch] /\ IsInjective(order) /\ Len(batch) \in Nat
    BY BestFirstInjective
  <2>3. /\ Taken(batch, order) \in Seq(Opportunity) /\ EachOnce(Taken(batch, order))
        /\ DOMAIN Taken(batch, order) = 1 .. Len(batch) /\ Len(Taken(batch, order)) = Len(batch)
        /\ \A i \in 1 .. Len(batch) : Taken(batch, order)[i] = batch[order[i]]
    BY <2>2, TakenInOrder
  <2>4. /\ batch = <<>> => Taken(batch, order) = <<>>
        /\ batch /= <<>> => Taken(batch, order) /= <<>>
    BY <2>3, EmptySeq
  <2>5. <<>> \in Seq(Pairs)
    BY EmptySeq
  <2>6. Shaped(cycle')
    BY <2>1, <2>3, <2>4, <2>5 DEF Shaped, Stages
  <2> QED BY <2>1, <2>2, <2>3, <2>6
<1> QED BY <1>1, <1>2
-----------------------------------------------------------------------------
(* Capital in a cluster.                                                    *)

LEMMA ShareNatural == ASSUME NEW c, NEW r \in CycleRow PROVE Share(c, r) \in Nat
  BY DEF Share, CycleRow

LEMMA CapitalNatural == ASSUME NEW c, NEW t \in Seq(CycleRow) PROVE CapitalIn(c, t) \in Nat
<1> DEFINE f == [i \in DOMAIN t |-> Share(c, t[i])]
<1>1. Len(t) \in Nat /\ DOMAIN t = 1 .. Len(t) /\ \A i \in 1 .. Len(t) : t[i] \in CycleRow
  BY LenProperties, ElementOfSeq
<1>2. f \in [DOMAIN t -> Nat]
  BY <1>1, ShareNatural
<1>3. IsFiniteSet(DOMAIN t)
  BY <1>1, FS_Interval
<1> HIDE DEF f
<1>4. SumFunction(f) \in Nat
  BY <1>2, <1>3, SumNatural
<1> QED BY <1>4 DEF CapitalIn, f

LEMMA CapitalNone == ASSUME NEW c PROVE CapitalIn(c, <<>>) = 0
<1> DEFINE f == [i \in DOMAIN <<>> |-> Share(c, <<>>[i])]
<1>1. f \in [{} -> Int]
  OBVIOUS
<1> HIDE DEF f
<1> QED BY <1>1, SumEmpty DEF CapitalIn, f

LEMMA CapitalAppend ==
    ASSUME NEW c, NEW t \in Seq(CycleRow), NEW r \in CycleRow
    PROVE  CapitalIn(c, Append(t, r)) = CapitalIn(c, t) + Share(c, r)
<1> DEFINE u == Append(t, r)
           n == Len(t) + 1
           f == [i \in DOMAIN u |-> Share(c, u[i])]
           g == [i \in DOMAIN t |-> Share(c, t[i])]
           h == [i \in DOMAIN t |-> f[i]]
<1>1. Len(t) \in Nat /\ DOMAIN t = 1 .. Len(t)
  BY LenProperties
<1>2. u \in Seq(CycleRow) /\ Len(u) = Len(t) + 1 /\ u[n] = r /\ \A i \in 1 .. Len(t) : u[i] = t[i]
  BY <1>1, AppendProperties
<1>3. DOMAIN u = 1 .. (Len(t) + 1) /\ \A i \in DOMAIN u : u[i] \in CycleRow
  BY <1>2, LenProperties, ElementOfSeq
<1>4. DOMAIN u = DOMAIN t \cup {n} /\ n \notin DOMAIN t /\ IsFiniteSet(DOMAIN t)
  <2>1. IsFiniteSet(DOMAIN t)
    BY <1>1, FS_Interval
  <2>2. DOMAIN u = DOMAIN t \cup {n} /\ n \notin DOMAIN t
    BY <1>1, <1>3
  <2> QED BY <2>1, <2>2
<1> HIDE DEF u, n
<1>5. f \in [DOMAIN t \cup {n} -> Int]
  <2>1. \A i \in DOMAIN u : Share(c, u[i]) \in Int
    BY <1>3, ShareNatural
  <2> QED BY <1>4, <2>1
<1>6. h = g
  BY <1>1, <1>2, <1>4
<1>7. f[n] = Share(c, r)
  BY <1>2, <1>4
<1> HIDE DEF f, g, h
<1>8. SumFunction(f) = f[n] + SumFunction(h)
  BY <1>4, <1>5, SumInsert DEF h
<1>9. SumFunction(f) = Share(c, r) + SumFunction(g)
  BY <1>6, <1>7, <1>8
<1>10. SumFunction(f) = CapitalIn(c, u) /\ SumFunction(g) = CapitalIn(c, t)
  BY DEF CapitalIn, f, g
<1>11. Share(c, r) \in Nat /\ CapitalIn(c, t) \in Nat
  BY ShareNatural, CapitalNatural
<1> QED BY <1>9, <1>10, <1>11 DEF u

LEMMA CapitalLess ==
    ASSUME NEW c, NEW t \in Seq(CycleRow), NEW u \in Seq(CycleRow), DOMAIN u = DOMAIN t,
           \A i \in DOMAIN t : Share(c, u[i]) <= Share(c, t[i])
    PROVE  CapitalIn(c, u) <= CapitalIn(c, t)
<1> DEFINE D == DOMAIN t
           f == [i \in D |-> Share(c, t[i])]
           g == [i \in D |-> Share(c, u[i])]
<1>1. DOMAIN t = 1 .. Len(t) /\ Len(t) \in Nat /\ \A i \in D : t[i] \in CycleRow /\ u[i] \in CycleRow
  BY LenProperties, ElementOfSeq
<1>2. IsFiniteSet(D)
  BY <1>1, FS_Interval
<1>3. f \in [D -> Int] /\ g \in [D -> Int]
  BY <1>1, ShareNatural
<1>4. \A i \in D : g[i] <= f[i]
  OBVIOUS
<1>5. SumFunction(f) = CapitalIn(c, t) /\ SumFunction(g) = CapitalIn(c, u)
  BY DEF CapitalIn
<1>6. D \in SUBSET D /\ \A i \in D \ D : 0 <= f[i]
  OBVIOUS
<1> HIDE DEF f, g, D
<1>7. SumFunction(g) <= SumFunction(f)
  BY <1>2, <1>3, <1>4, <1>6, SumMonotone
<1> QED BY <1>5, <1>7

LEMMA RecalculationTyped == ASSUME NEW t \in Seq(CycleRow) PROVE Recalculation(t) \in [Clusters -> Nat]
  BY CapitalNatural DEF Recalculation

-----------------------------------------------------------------------------
(* The table of positions.                                                  *)

LEMMA OpenCounted ==
    ASSUME TableTyped, NEW p
    PROVE  /\ OpenCount(p) \in Nat /\ IsFiniteSet(RowsOf(Active, p))
           /\ DOMAIN rows = 1 .. Len(rows) /\ Len(rows) \in Nat
           /\ \A i \in DOMAIN rows : rows[i] \in CycleRow
<1>1. DOMAIN rows = 1 .. Len(rows) /\ Len(rows) \in Nat /\ \A i \in DOMAIN rows : rows[i] \in CycleRow
  BY LenProperties, ElementOfSeq DEF TableTyped
<1>2. IsFiniteSet(DOMAIN rows) /\ RowsOf(Active, p) \in SUBSET (DOMAIN rows)
  BY <1>1, FS_Interval DEF RowsOf
<1>3. IsFiniteSet(RowsOf(Active, p))
  BY <1>2, FS_Subset
<1> QED BY <1>1, <1>3, FS_CardinalityType DEF OpenCount

(* A new position counts for its pair and for its cluster.                  *)
LEMMA RowAdded ==
    ASSUME TableTyped, Len(rows) < MaxRows, NEW o \in Opportunity,
           NEW s \in {"OPEN", "SINGLE_LEG_EXPOSED"}, clock' = clock,
           rows' = Append(rows, [pair |-> o.pair, size |-> o.size, status |-> s, createdAt |-> clock])
    PROVE  /\ TableTyped'
           /\ DOMAIN rows' = DOMAIN rows \cup {Len(rows) + 1} /\ Len(rows) + 1 \notin DOMAIN rows
           /\ \A i \in DOMAIN rows : rows'[i] = rows[i] /\ i < Len(rows) + 1
           /\ rows'[Len(rows) + 1].pair = o.pair /\ rows'[Len(rows) + 1].createdAt = clock
           /\ \A p : OpenCount(p)' = OpenCount(p) + (IF p = o.pair THEN 1 ELSE 0)
           /\ \A c : CapitalIn(c, rows') =
                       CapitalIn(c, rows) + (IF ClusterOf[o.pair] = c THEN o.size ELSE 0)
<1> DEFINE r == [pair |-> o.pair, size |-> o.size, status |-> s, createdAt |-> clock]
           n == Len(rows) + 1
<1>1. r \in CycleRow /\ r.pair = o.pair /\ r.createdAt = clock /\ r.status = s /\ r.size = o.size
  BY DEF TableTyped, CycleRow, Opportunity, Exposed
<1>2. rows \in Seq(CycleRow) /\ rows' = Append(rows, r) /\ Len(rows) \in Nat /\ DOMAIN rows = 1 .. Len(rows)
  BY LenProperties DEF TableTyped
<1> HIDE DEF r
<1>3. /\ rows' \in Seq(CycleRow) /\ Len(rows') = n
      /\ \A i \in 1 .. Len(rows) : rows'[i] = rows[i]
      /\ rows'[n] = r
  BY <1>1, <1>2, AppendProperties
<1>4. DOMAIN rows' = 1 .. n
  BY <1>3, LenProperties
<1>5. DOMAIN rows' = DOMAIN rows \cup {n} /\ n \notin DOMAIN rows /\ \A i \in DOMAIN rows : i < n
  BY <1>2, <1>4
<1>6. TableTyped'
  <2>1. Len(rows') <= MaxRows
    BY <1>2, <1>3, CycleAssumption
  <2> HIDE DEF n
  <2>2. \A i \in DOMAIN rows' : rows'[i].createdAt <= clock'
    BY <1>1, <1>2, <1>3, <1>5 DEF TableTyped
  <2>3. clock' \in 0 .. MaxTime
    BY DEF TableTyped
  <2> QED BY <1>3, <2>1, <2>2, <2>3 DEF TableTyped
<1>7. \A p : OpenCount(p)' = OpenCount(p) + (IF p = o.pair THEN 1 ELSE 0)
  <2> SUFFICES ASSUME NEW p PROVE OpenCount(p)' = OpenCount(p) + (IF p = o.pair THEN 1 ELSE 0)
    OBVIOUS
  <2>1. OpenCount(p) \in Nat /\ IsFiniteSet(RowsOf(Active, p))
    BY OpenCounted
  <2>2. s \in Active
    BY DEF Active
  <2> HIDE DEF n
  <2>3. CASE p = o.pair
    <3>1. RowsOf(Active, p)' = RowsOf(Active, p) \cup {n} /\ n \notin RowsOf(Active, p)
      BY <1>1, <1>2, <1>3, <1>5, <2>2, <2>3 DEF RowsOf, Active
    <3> QED BY <2>1, <2>3, <3>1, FS_AddElement DEF OpenCount
  <2>4. CASE p /= o.pair
    <3>1. RowsOf(Active, p)' = RowsOf(Active, p)
      BY <1>1, <1>2, <1>3, <1>5, <2>4 DEF RowsOf, Active
    <3> QED BY <2>1, <2>4, <3>1 DEF OpenCount
  <2> QED BY <2>3, <2>4
<1>8. ASSUME NEW c
      PROVE  CapitalIn(c, rows') = CapitalIn(c, rows) + (IF ClusterOf[o.pair] = c THEN o.size ELSE 0)
  <2>1. CapitalIn(c, rows') = CapitalIn(c, rows) + Share(c, r)
    BY <1>1, <1>2, CapitalAppend
  <2>2. Share(c, r) = IF ClusterOf[o.pair] = c THEN o.size ELSE 0
    BY <1>1 DEF Share, Exposed
  <2> QED BY <2>1, <2>2
<1>9. \A i \in DOMAIN rows : rows'[i] = rows[i]
  BY <1>2, <1>3
<1> QED BY <1>1, <1>3, <1>5, <1>6, <1>7, <1>8, <1>9

(* A change of status frees places and capital, or keeps them: an active    *)
(* position is counted already, unless it was flagged its capital is too.   *)
LEMMA RowChanged ==
    ASSUME TableTyped, NEW i \in DOMAIN rows, rows[i].status \in Active,
           NEW s \in Exposed \cup {"RECONCILIATION_REQUIRED", "CLOSED"}, clock' = clock,
           rows' = [rows EXCEPT ![i].status = s]
    PROVE  /\ TableTyped' /\ DOMAIN rows' = DOMAIN rows
           /\ rows'[i].status = s
           /\ \A j \in DOMAIN rows : rows'[j].pair = rows[j].pair /\ rows'[j].createdAt = rows[j].createdAt
           /\ \A p : OpenCount(p)' <= OpenCount(p)
           /\ (s \in Exposed => rows[i].status \in Exposed) =>
                 \A c : CapitalIn(c, rows') <= CapitalIn(c, rows)
<1>1. DOMAIN rows = 1 .. Len(rows) /\ Len(rows) \in Nat /\ \A j \in DOMAIN rows : rows[j] \in CycleRow
  BY OpenCounted
<1>2. rows[i] \in CycleRow /\ [rows[i] EXCEPT !.status = s] \in CycleRow
  BY <1>1 DEF CycleRow
<1>3. rows' = [rows EXCEPT ![i] = [rows[i] EXCEPT !.status = s]]
  OBVIOUS
<1>4. /\ rows' \in Seq(CycleRow) /\ Len(rows') = Len(rows)
      /\ \A j \in 1 .. Len(rows) : rows'[j] = IF j = i THEN [rows[i] EXCEPT !.status = s] ELSE rows[j]
  BY <1>1, <1>2, <1>3, ExceptSeq DEF TableTyped
<1>5. DOMAIN rows' = DOMAIN rows
  BY <1>1, <1>4, LenProperties
<1>6. \A j \in DOMAIN rows : /\ rows'[j].pair = rows[j].pair /\ rows'[j].createdAt = rows[j].createdAt
                             /\ rows'[j].size = rows[j].size
                             /\ rows'[j].status = IF j = i THEN s ELSE rows[j].status
  <2> SUFFICES ASSUME NEW j \in DOMAIN rows
               PROVE  /\ rows'[j].pair = rows[j].pair /\ rows'[j].createdAt = rows[j].createdAt
                      /\ rows'[j].size = rows[j].size
                      /\ rows'[j].status = IF j = i THEN s ELSE rows[j].status
    OBVIOUS
  <2>1. CASE j = i
    BY <1>1, <1>2, <1>4, <2>1 DEF CycleRow
  <2>2. CASE j /= i
    BY <1>1, <1>4, <2>2
  <2> QED BY <2>1, <2>2
<1>7. TableTyped'
  <2>1. \A j \in DOMAIN rows' : rows'[j].createdAt <= clock'
    BY <1>5, <1>6 DEF TableTyped
  <2> QED BY <1>4, <2>1 DEF TableTyped
<1>8. ASSUME NEW p PROVE OpenCount(p)' <= OpenCount(p)
  <2>1. RowsOf(Active, p)' \in SUBSET RowsOf(Active, p)
    BY <1>5, <1>6 DEF RowsOf, Active
  <2>2. IsFiniteSet(RowsOf(Active, p))
    BY OpenCounted
  <2>3. Cardinality(RowsOf(Active, p)') <= Cardinality(RowsOf(Active, p))
    BY <2>1, <2>2, FS_Subset
  <2> QED BY <2>3 DEF OpenCount
<1>9. ASSUME s \in Exposed => rows[i].status \in Exposed, NEW c
      PROVE  CapitalIn(c, rows') <= CapitalIn(c, rows)
  <2>1. \A j \in DOMAIN rows : Share(c, rows'[j]) <= Share(c, rows[j])
    <3> SUFFICES ASSUME NEW j \in DOMAIN rows PROVE Share(c, rows'[j]) <= Share(c, rows[j])
      OBVIOUS
    <3>1. rows[j].size \in Nat
      BY <1>1 DEF CycleRow
    <3> QED BY <1>6, <1>9, <3>1 DEF Share
  <2> QED BY <1>4, <1>5, <2>1, CapitalLess DEF TableTyped
<1>10. rows'[i].status = s
  BY <1>6
<1> QED BY <1>5, <1>6, <1>7, <1>8, <1>9, <1>10
-----------------------------------------------------------------------------
(* What each step of a cycle leaves of it.                                  *)

LEMMA TaperNatural ==
    ASSUME CycleInvTyped, NEW p \in Pairs, WithinCluster(p)
    PROVE  Taper(p) \in Nat
<1> DEFINE known == exposures[ClusterOf[p]]
           top == HardLimit - known
<1>1. known \in Nat /\ SizeOf[p] \in Nat /\ HardLimit \in Nat /\ SoftLimit \in Nat
  <2>1. ClusterOf[p] \in Clusters
    BY DEF Clusters
  <2>2. known \in Nat
    BY <2>1 DEF CycleInvTyped
  <2>3. SizeOf[p] \in Nat
    BY CycleAssumption DEF Pairs
  <2>4. HardLimit \in Nat /\ SoftLimit \in Nat
    BY CycleAssumption
  <2> QED BY <2>2, <2>3, <2>4
<1>2. known < HardLimit
  BY DEF WithinCluster
<1> HIDE DEF known
<1>3. top \in Nat /\ HardLimit \in Nat \ {0}
  BY <1>1, <1>2
<1> HIDE DEF top
<1>4. SizeOf[p] * top \in Nat
  BY <1>1, <1>3
<1>5. \A n \in Nat, d \in Nat \ {0} : n \div d \in Nat
  OBVIOUS
<1>6. (SizeOf[p] * top) \div HardLimit \in Nat
  BY <1>3, <1>4, <1>5
<1> QED BY <1>1, <1>6 DEF Taper, known, top

LEMMA OpportunityFound ==
    ASSUME NEW p \in Pairs, NEW e \in Edges \ {0}
    PROVE  [pair |-> p, edge |-> e, size |-> SizeOf[p]] \in Opportunity
  BY CycleAssumption DEF Opportunity, Pairs

LEMMA DetectionMoves ==
    ASSUME CycleInvTyped,
           \/ PollingCycle \/ IngestDone \/ IngestFails \/ KalshiAnswers \/ FetchFails
           \/ \E e \in Edges : PolymarketAnswers(e)
    PROVE  Shaped(cycle') /\ cycle'.stage \notin {"validate", "execute"}
<1>1. CASE PollingCycle
  <2>1. cycle' = [NoCycle EXCEPT !.stage = "ingest"]
    BY <1>1 DEF PollingCycle
  <2> QED BY <2>1, ShapedNothing DEF NoCycle
<1>2. CASE IngestDone
  <2>1. Pair \in Seq(Pairs) /\ IsInjective(Pair)
    BY CycleAssumption DEF Pairs
  <2>2. <<>> \in Seq(Opportunity) /\ DOMAIN <<>> = {}
    BY EmptySeq
  <2>3. EachOnce(<<>>) /\ \A i \in DOMAIN <<>> : <<>>[i].pair \notin Range(Pair)
    BY <2>2 DEF EachOnce
  <2>4. Detect(Pair, <<>>)
    BY <1>2 DEF IngestDone
  <2>5. Shaped(cycle') /\ cycle'.stage \in {"idle", "kalshi", "filter"}
    BY <2>1, <2>2, <2>3, <2>4, DetectShaped
  <2> QED BY <2>5
<1>3. CASE IngestFails
  BY <1>3, ShapedNothing DEF IngestFails, NoCycle
<1>4. CASE KalshiAnswers
  BY <1>4 DEF KalshiAnswers, CycleInvTyped, Shaped, Stages
<1>5. ASSUME cycle.stage \in {"kalshi", "polymarket"}
      PROVE  /\ Tail(cycle.todo) \in Seq(Pairs) /\ IsInjective(Tail(cycle.todo))
             /\ Head(cycle.todo) \in Pairs /\ Head(cycle.todo) \notin Range(Tail(cycle.todo))
             /\ Range(Tail(cycle.todo)) \subseteq Range(cycle.todo) /\ Head(cycle.todo) \in Range(cycle.todo)
             /\ cycle.batch \in Seq(Opportunity) /\ EachOnce(cycle.batch)
             /\ \A i \in DOMAIN cycle.batch : cycle.batch[i].pair \notin Range(cycle.todo)
  <2>1. /\ cycle.todo \in Seq(Pairs) /\ cycle.todo /= <<>> /\ IsInjective(cycle.todo)
        /\ cycle.batch \in Seq(Opportunity) /\ EachOnce(cycle.batch)
        /\ \A i \in DOMAIN cycle.batch : cycle.batch[i].pair \notin Range(cycle.todo)
    BY <1>5 DEF CycleInvTyped, Shaped
  <2> DEFINE s == cycle.todo  t == Tail(s)
  <2> HIDE DEF s
  <2>2. s \in Seq(Pairs) /\ s /= <<>> /\ IsInjective(s)
    BY <2>1 DEF s
  <2>3. /\ Head(s) \in Pairs /\ t \in Seq(Pairs) /\ Len(t) = Len(s) - 1
        /\ \A i \in 1 .. Len(t) : t[i] = s[i + 1]
    BY <2>2, HeadTailProperties
  <2>4. Len(s) \in Nat \ {0} /\ DOMAIN s = 1 .. Len(s) /\ Head(s) = s[1]
    BY <2>2, EmptySeq, LenProperties
  <2>5. DOMAIN t = 1 .. (Len(s) - 1)
    BY <2>3, LenProperties
  <2>6. \A i \in DOMAIN t : i \in Int /\ i + 1 \in DOMAIN s /\ i + 1 /= 1 /\ t[i] = s[i + 1]
    BY <2>3, <2>4, <2>5
  <2>7. 1 \in DOMAIN s
    BY <2>4
  <2> HIDE DEF t
  <2>8. IsInjective(t)
    BY <2>2, <2>6 DEF IsInjective
  <2>9. Head(s) \notin Range(t) /\ Range(t) \subseteq Range(s) /\ Head(s) \in Range(s)
    BY <2>2, <2>4, <2>6, <2>7 DEF IsInjective, Range
  <2> QED BY <2>1, <2>3, <2>8, <2>9 DEF s, t
<1>6. CASE FetchFails
  <2>1. cycle.stage \in {"kalshi", "polymarket"} /\ Detect(Tail(cycle.todo), cycle.batch)
    BY <1>6 DEF FetchFails
  <2>2. \A i \in DOMAIN cycle.batch : cycle.batch[i].pair \notin Range(Tail(cycle.todo))
    BY <1>5, <2>1
  <2>3. Shaped(cycle') /\ cycle'.stage \in {"idle", "kalshi", "filter"}
    BY <1>5, <2>1, <2>2, DetectShaped
  <2> QED BY <2>3
<1>7. ASSUME NEW e \in Edges, PolymarketAnswers(e)
      PROVE  Shaped(cycle') /\ cycle'.stage \notin {"validate", "execute"}
  <2> DEFINE o == [pair |-> Head(cycle.todo), edge |-> e, size |-> SizeOf[Head(cycle.todo)]]
             b == IF e = 0 THEN cycle.batch ELSE Append(cycle.batch, o)
             t == Tail(cycle.todo)
  <2>1. cycle.stage = "polymarket" /\ Detect(t, b)
    BY <1>7 DEF PolymarketAnswers
  <2>2. /\ t \in Seq(Pairs) /\ IsInjective(t) /\ Head(cycle.todo) \in Pairs
        /\ Head(cycle.todo) \notin Range(t)
        /\ cycle.batch \in Seq(Opportunity) /\ EachOnce(cycle.batch)
        /\ \A i \in DOMAIN cycle.batch : cycle.batch[i].pair \notin Range(t)
        /\ \A i \in DOMAIN cycle.batch : cycle.batch[i].pair /= Head(cycle.todo)
    BY <1>5, <2>1
  <2>3. b \in Seq(Opportunity) /\ EachOnce(b) /\ \A i \in DOMAIN b : b[i].pair \notin Range(t)
    <3>1. CASE e = 0
      BY <2>2, <3>1
    <3>2. CASE e /= 0
      <4>1. o \in Opportunity
        BY <2>2, <3>2, OpportunityFound
      <4>2. o.pair = Head(cycle.todo)
        OBVIOUS
      <4> HIDE DEF o, t
      <4>3. /\ Append(cycle.batch, o) \in Seq(Opportunity) /\ EachOnce(Append(cycle.batch, o))
            /\ DOMAIN Append(cycle.batch, o) = DOMAIN cycle.batch \cup {Len(cycle.batch) + 1}
            /\ Append(cycle.batch, o)[Len(cycle.batch) + 1] = o
            /\ \A i \in DOMAIN cycle.batch : Append(cycle.batch, o)[i] = cycle.batch[i]
        BY <2>2, <4>1, <4>2, AppendOnce
      <4>4. \A i \in DOMAIN Append(cycle.batch, o) : Append(cycle.batch, o)[i].pair \notin Range(t)
        BY <2>2, <4>2, <4>3
      <4> QED BY <3>2, <4>3, <4>4
    <3> QED BY <3>1, <3>2
  <2> HIDE DEF b, t
  <2>4. Shaped(cycle') /\ cycle'.stage \in {"idle", "kalshi", "filter"}
    BY <2>1, <2>2, <2>3, DetectShaped
  <2> QED BY <2>4
<1> QED BY <1>1, <1>2, <1>3, <1>4, <1>6, <1>7
(* The filter keeps what passes of the batch and starts an empty one.       *)
LEMMA FilterMoves ==
    ASSUME CycleInvTyped, FilterOpportunities
    PROVE  /\ Shaped(cycle') /\ DOMAIN cycle'.batch = {}
           /\ cycle'.stage = "validate" =>
                \A i \in DOMAIN cycle'.todo :
                  \E j \in DOMAIN cycle.batch : cycle'.todo[i] = cycle.batch[j] /\ Passes(cycle.batch[j])
<1> DEFINE passing == {i \in DOMAIN cycle.batch : Passes(cycle.batch[i])}
<1>1. cycle.batch \in Seq(Opportunity) /\ EachOnce(cycle.batch)
  BY DEF CycleInvTyped, Shaped
<1>2. PICK order \in AsTheyCome(passing) : Validating(Taken(cycle.batch, order), <<>>)
  BY DEF FilterOpportunities
<1>3. passing \in SUBSET (DOMAIN cycle.batch)
  OBVIOUS
<1>4. /\ order \in [1 .. Cardinality(passing) -> DOMAIN cycle.batch] /\ IsInjective(order)
      /\ Cardinality(passing) \in Nat /\ \A i \in DOMAIN order : order[i] \in passing
  <2> HIDE DEF passing
  <2> QED BY <1>1, <1>2, <1>3, AsTheyComeInjective
<1> DEFINE t == Taken(cycle.batch, order)
<1>5. /\ t \in Seq(Opportunity) /\ EachOnce(t) /\ DOMAIN t = 1 .. Cardinality(passing)
      /\ \A i \in 1 .. Cardinality(passing) : t[i] = cycle.batch[order[i]]
  <2> HIDE DEF passing
  <2> QED BY <1>1, <1>4, TakenInOrder
<1>6. \A i \in DOMAIN t : \E j \in DOMAIN cycle.batch : t[i] = cycle.batch[j] /\ Passes(cycle.batch[j])
  BY <1>4, <1>5
<1> HIDE DEF t, passing
<1>7. <<>> \in Seq(Opportunity) /\ EachOnce(<<>>) /\ Apart(t, <<>>) /\ Validating(t, <<>>) /\ DOMAIN <<>> = {}
  BY <1>2, EmptySeq DEF EachOnce, Apart, t
<1>8. /\ Shaped(cycle')
      /\ cycle'.stage = "validate" => cycle'.todo = t
      /\ \E o \in [DOMAIN cycle'.batch -> DOMAIN <<>>] : IsInjective(o)
  BY <1>5, <1>7, ValidatingShaped
<1>9. DOMAIN cycle'.batch = {}
  BY <1>7, <1>8
<1> QED BY <1>6, <1>8, <1>9

LEMMA FilterFailsMoves ==
    ASSUME CycleInvTyped, FilterFails
    PROVE  Shaped(cycle') /\ DOMAIN cycle'.batch = {}
<1>1. cycle.batch \in Seq(Opportunity) /\ EachOnce(cycle.batch)
  BY DEF CycleInvTyped, Shaped
<1>2. /\ <<>> \in Seq(Opportunity) /\ EachOnce(<<>>) /\ Apart(cycle.batch, <<>>)
      /\ Validating(cycle.batch, <<>>) /\ DOMAIN <<>> = {}
  BY EmptySeq DEF EachOnce, Apart, FilterFails
<1>3. Shaped(cycle') /\ \E o \in [DOMAIN cycle'.batch -> DOMAIN <<>>] : IsInjective(o)
  BY <1>1, <1>2, ValidatingShaped
<1> QED BY <1>2, <1>3

(* The batch after a validation, before its order changes.                  *)
Approves(refused) == ~refused /\ WithinCluster(Head(cycle.todo).pair)
Reserved == [Head(cycle.todo) EXCEPT !.size = Taper(Head(cycle.todo).pair)]
Validated(refused) == IF Approves(refused) THEN Append(cycle.batch, Reserved) ELSE cycle.batch

LEMMA ValidatedShaped ==
    ASSUME CycleInvTyped, cycle.stage = "validate", NEW refused \in BOOLEAN
    PROVE  /\ Validated(refused) \in Seq(Opportunity) /\ EachOnce(Validated(refused))
           /\ Apart(Tail(cycle.todo), Validated(refused))
           /\ \A i \in DOMAIN Validated(refused) :
                \/ i \in DOMAIN cycle.batch /\ Validated(refused)[i] = cycle.batch[i]
                \/ /\ Approves(refused) /\ i = Len(cycle.batch) + 1 /\ i \notin DOMAIN cycle.batch
                   /\ Validated(refused)[i].pair = Head(cycle.todo).pair
                   /\ Validated(refused)[i].size = Taper(Head(cycle.todo).pair)
<1> DEFINE o == Head(cycle.todo)
<1>1. /\ cycle.todo \in Seq(Opportunity) /\ cycle.todo /= <<>> /\ EachOnce(cycle.todo)
      /\ Apart(cycle.todo, cycle.batch) /\ cycle.batch \in Seq(Opportunity) /\ EachOnce(cycle.batch)
  BY DEF CycleInvTyped, Shaped
<1>2. /\ o \in Opportunity /\ o = cycle.todo[1] /\ 1 \in DOMAIN cycle.todo
      /\ \A i \in DOMAIN Tail(cycle.todo) : i + 1 \in DOMAIN cycle.todo /\ Tail(cycle.todo)[i] = cycle.todo[i + 1]
      /\ \A i \in DOMAIN Tail(cycle.todo) : Tail(cycle.todo)[i].pair /= o.pair
  BY <1>1, TailOnce
<1>3. Apart(Tail(cycle.todo), cycle.batch) /\ \A i \in DOMAIN cycle.batch : cycle.batch[i].pair /= o.pair
  BY <1>1, <1>2 DEF Apart
<1> HIDE DEF o
<1>4. CASE Approves(refused)
  <2>1. o.pair \in Pairs /\ WithinCluster(o.pair)
    BY <1>2, <1>4 DEF Opportunity, Approves, o
  <2>2. Taper(o.pair) \in Nat
    BY <2>1, TaperNatural
  <2>3. Reserved \in Opportunity /\ Reserved.pair = o.pair /\ Reserved.size = Taper(o.pair)
    BY <1>2, <2>2 DEF Opportunity, Reserved, o
  <2> HIDE DEF Reserved
  <2>4. \A i \in DOMAIN cycle.batch : cycle.batch[i].pair /= Reserved.pair
    BY <1>3, <2>3
  <2>5. /\ Append(cycle.batch, Reserved) \in Seq(Opportunity) /\ EachOnce(Append(cycle.batch, Reserved))
        /\ DOMAIN Append(cycle.batch, Reserved) = DOMAIN cycle.batch \cup {Len(cycle.batch) + 1}
        /\ Len(cycle.batch) + 1 \notin DOMAIN cycle.batch
        /\ Append(cycle.batch, Reserved)[Len(cycle.batch) + 1] = Reserved
        /\ \A i \in DOMAIN cycle.batch : Append(cycle.batch, Reserved)[i] = cycle.batch[i]
    BY <1>1, <2>3, <2>4, AppendOnce
  <2>6. Validated(refused) = Append(cycle.batch, Reserved)
    BY <1>4 DEF Validated
  <2>7. Apart(Tail(cycle.todo), Validated(refused))
    BY <1>2, <1>3, <2>3, <2>5, <2>6 DEF Apart
  <2> QED BY <1>4, <2>3, <2>5, <2>6, <2>7 DEF o
<1>5. CASE ~Approves(refused)
  BY <1>1, <1>3, <1>5 DEF Validated
<1> QED BY <1>4, <1>5

LEMMA ValidateMoves ==
    ASSUME CycleInvTyped, NEW refused \in BOOLEAN, ValidatePosition(refused)
    PROVE  /\ Shaped(cycle')
           /\ cycle'.stage = "validate" => cycle'.todo = Tail(cycle.todo)
           /\ \E order \in [DOMAIN cycle'.batch -> DOMAIN Validated(refused)] :
                /\ IsInjective(order)
                /\ \A i \in DOMAIN cycle'.batch : cycle'.batch[i] = Validated(refused)[order[i]]
<1>1. cycle.stage = "validate" /\ Validating(Tail(cycle.todo), Validated(refused))
  BY DEF ValidatePosition, Validated, Approves, Reserved
<1>2. cycle.todo \in Seq(Opportunity) /\ cycle.todo /= <<>> /\ EachOnce(cycle.todo)
  BY <1>1 DEF CycleInvTyped, Shaped
<1>3. Tail(cycle.todo) \in Seq(Opportunity) /\ EachOnce(Tail(cycle.todo))
  BY <1>2, TailOnce
<1>4. /\ Validated(refused) \in Seq(Opportunity) /\ EachOnce(Validated(refused))
      /\ Apart(Tail(cycle.todo), Validated(refused))
  BY <1>1, ValidatedShaped
<1> QED BY <1>1, <1>3, <1>4, ValidatingShaped

(* The queue takes the best and keeps the rest in order.                    *)
LEMMA ExecuteMoves ==
    ASSUME CycleInvTyped, cycle.stage = "execute", Executed
    PROVE  /\ Shaped(cycle') /\ cycle'.stage \in {"idle", "execute"}
           /\ Head(cycle.batch) \in Opportunity /\ Head(cycle.batch) = cycle.batch[1]
           /\ 1 \in DOMAIN cycle.batch
           /\ \A i \in DOMAIN cycle'.batch : /\ i + 1 \in DOMAIN cycle.batch /\ i \in Int /\ i + 1 /= 1
                                             /\ cycle'.batch[i] = cycle.batch[i + 1]
           /\ \A i \in DOMAIN cycle'.batch : cycle'.batch[i].pair /= Head(cycle.batch).pair
<1>1. cycle.batch \in Seq(Opportunity) /\ cycle.batch /= <<>> /\ EachOnce(cycle.batch)
  BY DEF CycleInvTyped, Shaped
<1>2. /\ Head(cycle.batch) \in Opportunity /\ Head(cycle.batch) = cycle.batch[1] /\ 1 \in DOMAIN cycle.batch
      /\ Tail(cycle.batch) \in Seq(Opportunity) /\ EachOnce(Tail(cycle.batch))
      /\ DOMAIN Tail(cycle.batch) = 1 .. (Len(cycle.batch) - 1) /\ Len(cycle.batch) \in Nat \ {0}
      /\ \A i \in DOMAIN Tail(cycle.batch) :
            i + 1 \in DOMAIN cycle.batch /\ Tail(cycle.batch)[i] = cycle.batch[i + 1]
      /\ \A i \in DOMAIN Tail(cycle.batch) : Tail(cycle.batch)[i].pair /= Head(cycle.batch).pair
  BY <1>1, TailOnce
<1>3. CASE Len(cycle.batch) = 1
  <2>1. cycle' = NoCycle /\ DOMAIN cycle'.batch = {} /\ cycle'.stage = "idle"
    BY <1>3, EmptySeq DEF Executed, NoCycle
  <2> QED BY <1>2, <2>1, ShapedNothing
<1>4. CASE Len(cycle.batch) /= 1
  <2>1. cycle' = [cycle EXCEPT !.stage = "execute", !.batch = Tail(cycle.batch)]
    BY <1>4 DEF Executed
  <2>2. Tail(cycle.batch) /= <<>>
    <3>1. 1 \in DOMAIN Tail(cycle.batch)
      <4> DEFINE n == Len(cycle.batch)
      <4>1. n \in Nat \ {0} /\ n /= 1 /\ DOMAIN Tail(cycle.batch) = 1 .. (n - 1)
        BY <1>2, <1>4
      <4> HIDE DEF n
      <4> QED BY <4>1
    <3>2. DOMAIN <<>> = {}
      BY EmptySeq
    <3> QED BY <3>1, <3>2
  <2>3. cycle'.stage = "execute" /\ cycle'.batch = Tail(cycle.batch) /\ cycle'.todo = cycle.todo
    BY <2>1 DEF CycleInvTyped, Shaped
  <2>4. cycle' \in [stage : Stages, todo : Seq(Pairs) \cup Seq(Opportunity), batch : Seq(Opportunity)]
    BY <1>2, <2>1 DEF CycleInvTyped, Shaped, Stages
  <2>5. cycle.todo = <<>>
    BY DEF CycleInvTyped, Shaped
  <2>6. Shaped(cycle')
    BY <1>2, <2>2, <2>3, <2>4, <2>5 DEF Shaped
  <2>7. \A i \in DOMAIN cycle'.batch : i \in Int /\ i + 1 /= 1
    BY <1>2, <2>3
  <2> QED BY <1>2, <2>3, <2>6, <2>7
<1> QED BY <1>3, <1>4
-----------------------------------------------------------------------------
(* Every step keeps the types and the shape of the cycle.                   *)

LEMMA RemovedAt ==
    ASSUME NEW S, NEW s \in Seq(S), NEW i \in DOMAIN s
    PROVE  /\ RemoveAt(s, i) \in Seq(S) /\ s[i] \in S
           /\ i = 1 => IF Len(s) = 1 THEN RemoveAt(s, i) = <<>>
                       ELSE /\ RemoveAt(s, i) /= <<>>
                            /\ RemoveAt(s, i)[Len(RemoveAt(s, i))] = s[Len(s)]
<1> DEFINE n == Len(s)
<1>1. n \in Nat /\ DOMAIN s = 1 .. n /\ s[i] \in S /\ i \in 1 .. n /\ \A j \in 1 .. n : s[j] \in S
  BY LenProperties, ElementOfSeq
<1>2. SubSeq(s, 1, i - 1) \in Seq(S)
  <2>1. 1 \in Int /\ i - 1 \in Int /\ \A j \in 1 .. (i - 1) : s[j] \in S
    BY <1>1
  <2> HIDE DEF n
  <2> QED BY <2>1, SubSeqProperties
<1>3. /\ SubSeq(s, i + 1, n) \in Seq(S)
      /\ DOMAIN SubSeq(s, i + 1, n) = 1 .. (n - i)
      /\ \A j \in DOMAIN SubSeq(s, i + 1, n) : SubSeq(s, i + 1, n)[j] = s[i + j]
  <2>1. i \in 0 .. Len(s)
    BY <1>1
  <2> QED BY <2>1, SuffixOf
<1>4. RemoveAt(s, i) = SubSeq(s, 1, i - 1) \o SubSeq(s, i + 1, n)
  BY DEF RemoveAt
<1>5. RemoveAt(s, i) \in Seq(S)
  BY <1>2, <1>3, <1>4, ConcatProperties
<1>6. ASSUME i = 1
      PROVE  IF n = 1 THEN RemoveAt(s, i) = <<>>
             ELSE RemoveAt(s, i) /= <<>> /\ RemoveAt(s, i)[Len(RemoveAt(s, i))] = s[n]
  <2> DEFINE u == SubSeq(s, i + 1, n)
  <2>1. SubSeq(s, 1, i - 1) = <<>>
    <3>1. i - 1 \in Int /\ 1 \in Int /\ i - 1 < 1
      BY <1>1, <1>6
    <3> QED BY <3>1, SubSeqEmpty
  <2> HIDE DEF n
  <2>2. RemoveAt(s, i) = u
    BY <1>3, <1>4, <2>1, ConcatEmptySeq
  <2>3. u \in Seq(S) /\ DOMAIN u = 1 .. (n - 1) /\ \A j \in DOMAIN u : u[j] = s[1 + j]
    BY <1>3, <1>6
  <2> HIDE DEF u
  <2>4. Len(u) \in Nat /\ DOMAIN u = 1 .. Len(u)
    BY <2>3, LenProperties
  <2>5. n \in Nat /\ 1 .. Len(u) = 1 .. (n - 1) /\ n >= 1
    BY <1>1, <2>3, <2>4
  <2>6. Len(u) = n - 1
    BY <2>4, <2>5
  <2>7. CASE n = 1
    BY <2>2, <2>3, <2>6, <2>7, EmptySeq
  <2>8. CASE n /= 1
    <3>1. n - 1 \in DOMAIN u /\ 1 + (n - 1) = n
      BY <2>3, <2>5, <2>8
    <3>2. u[n - 1] = s[n]
      BY <2>3, <3>1
    <3>3. u /= <<>>
      BY <3>1, EmptySeq
    <3> QED BY <2>2, <2>6, <2>8, <3>2, <3>3
  <2> QED BY <2>7, <2>8
<1> QED BY <1>1, <1>5, <1>6

LEMMA ShapeKept ==
    ASSUME CycleInvTyped, engine.up, Shaped(cycle'),
           UNCHANGED <<clock, engine, rows, exposures, recalcs>>,
           failedOpen' \in BOOLEAN, evaded' \in BOOLEAN
    PROVE  CycleInvTyped'
<1>1. TableTyped'
  BY DEF CycleInvTyped, TableTyped
<1> QED BY <1>1 DEF CycleInvTyped

LEMMA CycleTypedStep ==
    ASSUME CycleInvTyped, [CycleNext]_cycleVars
    PROVE  CycleInvTyped'
<1>1. cycle.stage /= "idle" => engine.up
  BY DEF CycleInvTyped, NoCycle
<1>2. engine.up \in BOOLEAN /\ failedOpen \in BOOLEAN /\ evaded \in BOOLEAN /\ clock \in 0 .. MaxTime
  BY DEF CycleInvTyped, TableTyped
<1>3. MaxTime \in Nat /\ ShutdownWait \in Nat
  BY CycleAssumption
<1>4. CASE PollingCycle \/ IngestDone \/ IngestFails \/ KalshiAnswers \/ FetchFails
           \/ \E e \in Edges : PolymarketAnswers(e)
  <2>1. Shaped(cycle')
    BY <1>4, DetectionMoves
  <2>2. UNCHANGED <<clock, engine, rows, exposures, recalcs, failedOpen, evaded>> /\ engine.up
    BY <1>1, <1>4 DEF PollingCycle, IngestDone, IngestFails, KalshiAnswers, FetchFails, PolymarketAnswers
  <2> QED BY <1>2, <2>1, <2>2, ShapeKept
<1>5. CASE FilterOpportunities
  <2>1. UNCHANGED <<clock, engine, rows, exposures, recalcs, failedOpen, evaded>> /\ engine.up
    BY <1>1, <1>5 DEF FilterOpportunities
  <2> QED BY <1>2, <1>5, <2>1, FilterMoves, ShapeKept
<1>6. CASE FilterFails
  <2>1. UNCHANGED <<clock, engine, rows, exposures, recalcs, evaded>> /\ engine.up /\ failedOpen' = TRUE
    BY <1>1, <1>6 DEF FilterFails
  <2>2. failedOpen' \in BOOLEAN
    BY <2>1, Zenon
  <2> QED BY <1>2, <1>6, <2>1, <2>2, FilterFailsMoves, ShapeKept
<1>7. ASSUME NEW refused \in BOOLEAN, ValidatePosition(refused) PROVE CycleInvTyped'
  <2>1. UNCHANGED <<clock, engine, rows, exposures, recalcs, failedOpen>> /\ engine.up
    BY <1>1, <1>7 DEF ValidatePosition
  <2>2. evaded' \in BOOLEAN
    BY <1>2, <1>7 DEF ValidatePosition
  <2> QED BY <1>2, <1>7, <2>1, <2>2, ValidateMoves, ShapeKept
<1>8. ASSUME NEW s \in {"OPEN", "SINGLE_LEG_EXPOSED"}, Execute(s) PROVE CycleInvTyped'
  <2>1. /\ UNCHANGED <<clock, engine, exposures, failedOpen, evaded>> /\ engine.up
        /\ Shaped(cycle') /\ Head(cycle.batch) \in Opportunity
        /\ recalcs' = Append(recalcs, Recalculation(rows'))
    BY <1>1, <1>8, ExecuteMoves DEF Execute
  <2>2. PICK o \in Opportunity : o = Head(cycle.batch)
    BY <2>1
  <2>3. /\ rows' = Append(rows, [pair |-> o.pair, size |-> o.size, status |-> s, createdAt |-> clock])
        /\ Len(rows) < MaxRows
    BY <1>8, <2>2 DEF Execute, Opened
  <2>4. TableTyped'
    BY <2>1, <2>3, RowAdded DEF CycleInvTyped
  <2>5. recalcs' \in Seq([Clusters -> Nat])
    <3>1. Recalculation(rows') \in [Clusters -> Nat]
      BY <2>4, RecalculationTyped DEF TableTyped
    <3> QED BY <2>1, <3>1, AppendProperties DEF CycleInvTyped
  <2> QED BY <2>1, <2>4, <2>5 DEF CycleInvTyped
<1>9. CASE ExecuteNothing
  <2>1. /\ UNCHANGED <<clock, engine, rows, exposures, recalcs, failedOpen, evaded>> /\ engine.up
        /\ Shaped(cycle')
    BY <1>1, <1>9, ExecuteMoves DEF ExecuteNothing
  <2> QED BY <1>2, <2>1, ShapeKept
<1>10. ASSUME NEW i \in DOMAIN recalcs, RecalculationLands(i) PROVE CycleInvTyped'
  <2>1. recalcs \in Seq([Clusters -> Nat])
    BY DEF CycleInvTyped
  <2>2. recalcs' \in Seq([Clusters -> Nat]) /\ exposures' \in [Clusters -> Nat]
    BY <1>10, <2>1, RemovedAt DEF RecalculationLands
  <2>3. recalcs /= <<>>
    BY <1>10, EmptySeq
  <2>4. evaded' \in BOOLEAN
    BY <1>2, <1>10 DEF RecalculationLands
  <2>5. UNCHANGED <<clock, engine, cycle, rows, failedOpen>>
    BY <1>10 DEF RecalculationLands
  <2>6. TableTyped'
    BY <2>5 DEF CycleInvTyped, TableTyped
  <2>7. engine.up
    BY <2>3 DEF CycleInvTyped
  <2> QED BY <2>2, <2>4, <2>5, <2>6, <2>7 DEF CycleInvTyped
<1>11. CASE TimeHalt \/ InitiateShutdown
  <2>1. engine.up /\ UNCHANGED <<clock, cycle, rows, exposures, recalcs, failedOpen, evaded>>
    BY <1>11 DEF TimeHalt, InitiateShutdown
  <2>2. engine' \in [up : BOOLEAN, shuttingDown : BOOLEAN, halted : BOOLEAN,
                     deadline : 0..(MaxTime + ShutdownWait)]
    <3>1. CASE TimeHalt
      BY <3>1 DEF TimeHalt, CycleInvTyped
    <3>2. CASE InitiateShutdown
      <4>1. clock + ShutdownWait \in 0..(MaxTime + ShutdownWait)
        BY <1>2, <1>3
      <4> QED BY <3>2, <4>1 DEF InitiateShutdown, CycleInvTyped
    <3> QED BY <1>11, <3>1, <3>2
  <2>3. engine'.up
    BY <1>11, <2>1 DEF TimeHalt, InitiateShutdown, CycleInvTyped
  <2>4. TableTyped'
    BY <2>1 DEF CycleInvTyped, TableTyped
  <2> QED BY <2>1, <2>2, <2>3, <2>4 DEF CycleInvTyped
<1>12. CASE ShutdownEnds \/ Crash
  <2>1. Stopped /\ UNCHANGED <<clock, rows, failedOpen, evaded>>
    BY <1>12 DEF ShutdownEnds, Crash
  <2>2. engine' \in [up : BOOLEAN, shuttingDown : BOOLEAN, halted : BOOLEAN,
                     deadline : 0..(MaxTime + ShutdownWait)]
    BY <2>1 DEF Stopped, CycleInvTyped
  <2>3. cycle' = NoCycle /\ recalcs' = <<>> /\ exposures' = NoCapital
    BY <2>1 DEF Stopped
  <2>4. recalcs' \in Seq([Clusters -> Nat]) /\ exposures' \in [Clusters -> Nat]
    BY <2>3, EmptySeq DEF NoCapital
  <2>5. TableTyped'
    BY <2>1 DEF CycleInvTyped, TableTyped
  <2> QED BY <2>1, <2>2, <2>3, <2>4, <2>5, ShapedNothing DEF CycleInvTyped
<1>13. CASE Boot
  <2>1. UNCHANGED <<clock, cycle, rows, exposures, recalcs, failedOpen>>
    BY <1>13 DEF Boot
  <2>2. engine' \in [up : BOOLEAN, shuttingDown : BOOLEAN, halted : BOOLEAN,
                     deadline : 0..(MaxTime + ShutdownWait)]
    BY <1>3, <1>13 DEF Boot
  <2>3. engine'.up
    BY <1>13 DEF Boot
  <2>4. evaded' \in BOOLEAN
    BY <1>2, <1>13 DEF Boot
  <2>5. TableTyped'
    BY <2>1 DEF CycleInvTyped, TableTyped
  <2> QED BY <2>1, <2>2, <2>3, <2>4, <2>5 DEF CycleInvTyped
<1>14. ASSUME NEW i \in DOMAIN rows, ExitTriggered(i) \/ SingleLegResolved(i) \/ Reconciled(i)
       PROVE  CycleInvTyped'
  <2>1. /\ UNCHANGED <<clock, engine, cycle, exposures, failedOpen>>
        /\ evaded' \in BOOLEAN
    BY <1>2, <1>14 DEF ExitTriggered, SingleLegResolved, Reconciled
  <2>2. PICK s \in Exposed \cup {"RECONCILIATION_REQUIRED", "CLOSED"} :
           /\ rows[i].status \in Active
           /\ rows' = [rows EXCEPT ![i].status = s]
    BY <1>14 DEF ExitTriggered, SingleLegResolved, Reconciled, Exposed, Active
  <2>3. TableTyped'
    BY <2>1, <2>2, RowChanged DEF CycleInvTyped
  <2>4. \/ recalcs' = recalcs
        \/ engine.up /\ recalcs' = Append(recalcs, Recalculation(rows'))
    BY <1>14 DEF ExitTriggered, SingleLegResolved, Reconciled
  <2>5. recalcs' \in Seq([Clusters -> Nat])
    <3>1. Recalculation(rows') \in [Clusters -> Nat]
      BY <2>3, RecalculationTyped DEF TableTyped
    <3>2. recalcs \in Seq([Clusters -> Nat])
      BY DEF CycleInvTyped
    <3>3. Append(recalcs, Recalculation(rows')) \in Seq([Clusters -> Nat])
      BY <3>1, <3>2, AppendProperties
    <3> QED BY <2>4, <3>2, <3>3
  <2> QED BY <2>1, <2>3, <2>4, <2>5 DEF CycleInvTyped
<1>15. CASE Advance
  <2>1. clock' \in 0 .. MaxTime /\ clock <= clock'
    BY <1>2, <1>3, <1>15 DEF Advance
  <2>2. UNCHANGED <<engine, cycle, rows, exposures, recalcs, failedOpen, evaded>>
    BY <1>15 DEF Advance
  <2>3. \A i \in DOMAIN rows : rows[i].createdAt \in Nat /\ rows[i].createdAt <= clock
    BY OpenCounted DEF CycleInvTyped, TableTyped, CycleRow
  <2>4. TableTyped'
    BY <1>2, <2>1, <2>2, <2>3 DEF CycleInvTyped, TableTyped
  <2> QED BY <2>2, <2>4 DEF CycleInvTyped
<1>16. CASE UNCHANGED cycleVars
  BY <1>16 DEF cycleVars, CycleInvTyped, TableTyped
<1> QED BY <1>4, <1>5, <1>6, <1>7, <1>8, <1>9, <1>10, <1>11, <1>12, <1>13, <1>14, <1>15, <1>16
     DEF CycleNext, CycleStep
-----------------------------------------------------------------------------
(* What has happened stays in the history.                                  *)

LEMMA HistoryStays ==
    ASSUME [CycleNext]_cycleVars
    PROVE  (failedOpen => failedOpen') /\ (evaded => evaded')
<1>1. CASE PollingCycle \/ IngestDone \/ IngestFails \/ KalshiAnswers \/ FetchFails \/ ExecuteNothing
  BY <1>1 DEF PollingCycle, IngestDone, IngestFails, KalshiAnswers, FetchFails, ExecuteNothing
<1>2. CASE \E e \in Edges : PolymarketAnswers(e)
  BY <1>2 DEF PolymarketAnswers
<1>3. CASE FilterOpportunities \/ FilterFails
  BY <1>3 DEF FilterOpportunities, FilterFails
<1>4. ASSUME NEW refused \in BOOLEAN, ValidatePosition(refused)
      PROVE  (failedOpen => failedOpen') /\ (evaded => evaded')
  BY <1>4 DEF ValidatePosition
<1>5. ASSUME NEW s \in {"OPEN", "SINGLE_LEG_EXPOSED"}, Execute(s)
      PROVE  (failedOpen => failedOpen') /\ (evaded => evaded')
  BY <1>5 DEF Execute
<1>6. ASSUME NEW i \in DOMAIN recalcs, RecalculationLands(i)
      PROVE  (failedOpen => failedOpen') /\ (evaded => evaded')
  BY <1>6 DEF RecalculationLands
<1>7. CASE TimeHalt \/ InitiateShutdown \/ ShutdownEnds \/ Crash \/ Advance
  BY <1>7 DEF TimeHalt, InitiateShutdown, ShutdownEnds, Crash, Advance
<1>10. CASE Boot
  BY <1>10 DEF Boot
<1>8. ASSUME NEW i \in DOMAIN rows, ExitTriggered(i) \/ SingleLegResolved(i) \/ Reconciled(i)
      PROVE  (failedOpen => failedOpen') /\ (evaded => evaded')
  <2>1. CASE ExitTriggered(i)
    BY <2>1 DEF ExitTriggered
  <2>2. CASE SingleLegResolved(i)
    BY <2>2 DEF SingleLegResolved
  <2>3. CASE Reconciled(i)
    BY <2>3 DEF Reconciled
  <2> QED BY <1>8, <2>1, <2>2, <2>3
<1>9. CASE UNCHANGED cycleVars
  BY <1>9 DEF cycleVars
<1> QED BY <1>1, <1>2, <1>3, <1>4, <1>5, <1>6, <1>7, <1>8, <1>9, <1>10 DEF CycleNext, CycleStep

-----------------------------------------------------------------------------
(* What the filter promised of a pair is kept until its position opens.     *)

LEMMA PassesHasRoom ==
    ASSUME CycleInvTyped, NEW o \in Opportunity, Passes(o)
    PROVE  HasRoom(o.pair)
<1>1. TableTyped
  BY DEF CycleInvTyped
<1>2. OpenCount(o.pair) \in Nat /\ \A i \in DOMAIN rows : rows[i] \in CycleRow
  BY <1>1, OpenCounted
<1>3. MaxConcurrent \in Nat /\ Cooldown \in Nat /\ clock \in Nat
  BY <1>1, CycleAssumption DEF TableTyped
<1>4. MaxConcurrent > 0 => OpenCount(o.pair) < MaxConcurrent
  BY <1>2, <1>3 DEF Passes, AtMaxConcurrent
<1>5. ASSUME NEW i \in DOMAIN rows, rows[i].pair = o.pair PROVE clock - rows[i].createdAt >= Cooldown
  <2>1. rows[i].createdAt \in Nat /\ rows[i].createdAt <= clock
    BY <1>1, <1>2 DEF CycleRow, TableTyped
  <2>2. ~(Cooldown > 0 /\ clock - rows[i].createdAt < Cooldown)
    BY <1>5 DEF Passes, CoolingDown
  <2> HIDE DEF TableTyped
  <2> QED BY <1>3, <2>1, <2>2
<1> QED BY <1>4, <1>5 DEF HasRoom

(* A pair is no less free when no row is added, and neither limit is        *)
(* exceeded.                                                                *)
LEMMA GatesRest ==
    ASSUME TableTyped, TableTyped', clock <= clock', DOMAIN rows' = DOMAIN rows,
           \A i \in DOMAIN rows : rows'[i].pair = rows[i].pair /\ rows'[i].createdAt = rows[i].createdAt,
           \A p : OpenCount(p)' <= OpenCount(p)
    PROVE  /\ \A p : HasRoom(p) => HasRoom(p)'
           /\ ~failedOpen /\ PairLimitHeld => PairLimitHeld'
           /\ ~failedOpen /\ CooldownRespected => CooldownRespected'
<1>1. /\ \A p : OpenCount(p) \in Nat /\ OpenCount(p)' \in Nat
      /\ \A i \in DOMAIN rows : rows[i].createdAt \in Nat
      /\ clock \in Nat /\ clock' \in Nat /\ Cooldown \in Nat /\ MaxConcurrent \in Nat
  <2>1. \A p : OpenCount(p) \in Nat /\ \A i \in DOMAIN rows : rows[i] \in CycleRow
    BY OpenCounted
  <2>2. \A p : OpenCount(p)' \in Nat
    <3> SUFFICES ASSUME NEW p PROVE OpenCount(p)' \in Nat
      OBVIOUS
    <3>1. DOMAIN rows' = 1 .. Len(rows') /\ Len(rows') \in Nat
      BY LenProperties DEF TableTyped
    <3>2. IsFiniteSet(DOMAIN rows') /\ RowsOf(Active, p)' \in SUBSET (DOMAIN rows')
      BY <3>1, FS_Interval DEF RowsOf
    <3>3. IsFiniteSet(RowsOf(Active, p)')
      BY <3>2, FS_Subset
    <3> QED BY <3>3, FS_CardinalityType DEF OpenCount
  <2>3. \A i \in DOMAIN rows : rows[i].createdAt \in Nat
    BY <2>1 DEF CycleRow
  <2>4. clock \in Nat /\ clock' \in Nat
    BY DEF TableTyped
  <2>5. Cooldown \in Nat /\ MaxConcurrent \in Nat
    BY CycleAssumption
  <2> QED BY <2>1, <2>2, <2>3, <2>4, <2>5
<1>2. ASSUME NEW p, HasRoom(p) PROVE HasRoom(p)'
  <2>1. MaxConcurrent > 0 => OpenCount(p)' < MaxConcurrent
    BY <1>1, <1>2 DEF HasRoom
  <2>2. ASSUME NEW i \in DOMAIN rows', rows'[i].pair = p PROVE clock' - rows'[i].createdAt >= Cooldown
    <3>1. i \in DOMAIN rows /\ rows[i].pair = p /\ rows'[i].createdAt = rows[i].createdAt
      BY <2>2
    <3>2. clock - rows[i].createdAt >= Cooldown
      BY <1>2, <3>1 DEF HasRoom
    <3> QED BY <1>1, <3>1, <3>2
  <2> QED BY <2>1, <2>2 DEF HasRoom
<1>3. ASSUME ~failedOpen, PairLimitHeld PROVE PairLimitHeld'
  BY <1>1, <1>3 DEF PairLimitHeld
<1>4. ASSUME ~failedOpen, CooldownRespected PROVE CooldownRespected'
  BY <1>4 DEF CooldownRespected
<1> QED BY <1>2, <1>3, <1>4

LEMMA TableRests ==
    ASSUME TableTyped, UNCHANGED <<clock, rows>>
    PROVE  /\ \A p : HasRoom(p) => HasRoom(p)'
           /\ ~failedOpen /\ PairLimitHeld => PairLimitHeld'
           /\ ~failedOpen /\ CooldownRespected => CooldownRespected'
<1>1. TableTyped' /\ clock <= clock'
  BY DEF TableTyped
<1>2. \A p : OpenCount(p)' = OpenCount(p) /\ OpenCount(p) \in Nat
  BY OpenCounted DEF OpenCount, RowsOf
<1>3. \A p : OpenCount(p)' <= OpenCount(p)
  BY <1>2
<1> QED BY <1>1, <1>3, GatesRest

LEMMA AdmittedRests ==
    ASSUME Admitted, cycle' = cycle, \A p : HasRoom(p) => HasRoom(p)'
    PROVE  Admitted'
  BY DEF Admitted

LEMMA CycleGatesStep ==
    ASSUME CycleInvTyped, GatesInv, [CycleNext]_cycleVars
    PROVE  GatesInv'
<1> SUFFICES ASSUME ~failedOpen' PROVE Admitted' /\ PairLimitHeld' /\ CooldownRespected'
  BY DEF GatesInv
<1>1. ~failedOpen
  BY HistoryStays
<1>2. Admitted /\ PairLimitHeld /\ CooldownRespected /\ TableTyped
  BY <1>1 DEF GatesInv, CycleInvTyped
<1>3. ASSUME UNCHANGED <<clock, rows>>, Admitted' PROVE Admitted' /\ PairLimitHeld' /\ CooldownRespected'
  BY <1>1, <1>2, <1>3, TableRests
<1>4. ASSUME UNCHANGED <<clock, rows, cycle>> PROVE Admitted' /\ PairLimitHeld' /\ CooldownRespected'
  <2>1. \A p : HasRoom(p) => HasRoom(p)'
    BY <1>2, <1>4, TableRests
  <2> QED BY <1>2, <1>3, <1>4, <2>1, AdmittedRests
<1>5. CASE PollingCycle \/ IngestDone \/ IngestFails \/ KalshiAnswers \/ FetchFails
           \/ \E e \in Edges : PolymarketAnswers(e)
  <2>1. UNCHANGED <<clock, rows>>
    BY <1>5 DEF PollingCycle, IngestDone, IngestFails, KalshiAnswers, FetchFails, PolymarketAnswers
  <2>2. Admitted'
    BY <1>5, DetectionMoves DEF Admitted
  <2> QED BY <1>3, <2>1, <2>2
<1>6. CASE FilterOpportunities
  <2>1. UNCHANGED <<clock, rows>>
    BY <1>6 DEF FilterOpportunities
  <2>2. \A p : HasRoom(p) => HasRoom(p)'
    BY <1>2, <2>1, TableRests
  <2>3. \A j \in DOMAIN cycle.batch : Passes(cycle.batch[j]) => HasRoom(cycle.batch[j].pair)
    <3>1. cycle.batch \in Seq(Opportunity)
      BY DEF CycleInvTyped, Shaped
    <3>2. \A j \in DOMAIN cycle.batch : cycle.batch[j] \in Opportunity
      BY <3>1, LenProperties, ElementOfSeq
    <3> QED BY <3>2, PassesHasRoom
  <2>4. Admitted'
    BY <1>6, <2>2, <2>3, FilterMoves DEF Admitted
  <2> QED BY <1>3, <2>1, <2>4
<1>7. CASE FilterFails
  BY <1>7 DEF FilterFails
<1>8. ASSUME NEW refused \in BOOLEAN, ValidatePosition(refused)
      PROVE  Admitted' /\ PairLimitHeld' /\ CooldownRespected'
  <2>1. UNCHANGED <<clock, rows>> /\ cycle.stage = "validate"
    BY <1>8 DEF ValidatePosition
  <2>2. \A p : HasRoom(p) => HasRoom(p)'
    BY <1>2, <2>1, TableRests
  <2>3. /\ \A i \in DOMAIN cycle.batch : HasRoom(cycle.batch[i].pair)
        /\ \A i \in DOMAIN cycle.todo : HasRoom(cycle.todo[i].pair)
    BY <1>2, <2>1 DEF Admitted
  <2>4. /\ Head(cycle.todo) = cycle.todo[1] /\ 1 \in DOMAIN cycle.todo
        /\ \A i \in DOMAIN Tail(cycle.todo) : i + 1 \in DOMAIN cycle.todo /\ Tail(cycle.todo)[i] = cycle.todo[i + 1]
    BY <2>1, TailOnce DEF CycleInvTyped, Shaped
  <2>5. \A i \in DOMAIN Validated(refused) : HasRoom(Validated(refused)[i].pair)
    BY <2>1, <2>3, <2>4, ValidatedShaped
  <2>6. \A i \in DOMAIN Tail(cycle.todo) : HasRoom(Tail(cycle.todo)[i].pair)
    BY <2>3, <2>4
  <2>7. \A i \in DOMAIN cycle'.batch :
          \E j \in DOMAIN Validated(refused) : cycle'.batch[i] = Validated(refused)[j]
    BY <1>8, ValidateMoves
  <2>8. \A i \in DOMAIN cycle'.batch : HasRoom(cycle'.batch[i].pair)
    BY <2>5, <2>7
  <2>9. cycle'.stage = "validate" => \A i \in DOMAIN cycle'.todo : HasRoom(cycle'.todo[i].pair)
    BY <1>8, <2>6, ValidateMoves
  <2>10. Admitted'
    BY <2>2, <2>8, <2>9 DEF Admitted
  <2> QED BY <1>3, <2>1, <2>10
<1>9. ASSUME NEW s \in {"OPEN", "SINGLE_LEG_EXPOSED"}, Execute(s)
      PROVE  Admitted' /\ PairLimitHeld' /\ CooldownRespected'
  <2>1. /\ cycle.stage = "execute" /\ Executed /\ Len(rows) < MaxRows
        /\ clock' = clock /\ failedOpen' = failedOpen
    BY <1>9 DEF Execute
  <2>2. /\ Head(cycle.batch) \in Opportunity /\ Head(cycle.batch) = cycle.batch[1] /\ 1 \in DOMAIN cycle.batch
        /\ cycle'.stage \in {"idle", "execute"}
        /\ \A i \in DOMAIN cycle'.batch : i + 1 \in DOMAIN cycle.batch /\ cycle'.batch[i] = cycle.batch[i + 1]
        /\ \A i \in DOMAIN cycle'.batch : cycle'.batch[i].pair /= Head(cycle.batch).pair
    BY <2>1, ExecuteMoves
  <2>3. PICK o \in Opportunity : o = Head(cycle.batch)
    BY <2>2
  <2>4. rows' = Append(rows, [pair |-> o.pair, size |-> o.size, status |-> s, createdAt |-> clock])
    BY <1>9, <2>3 DEF Execute, Opened
  <2> DEFINE n == Len(rows) + 1
  <2>5. /\ TableTyped'
        /\ DOMAIN rows' = DOMAIN rows \cup {n} /\ n \notin DOMAIN rows
        /\ \A i \in DOMAIN rows : rows'[i] = rows[i] /\ i < n
        /\ rows'[n].pair = o.pair /\ rows'[n].createdAt = clock
        /\ \A p : OpenCount(p)' = OpenCount(p) + (IF p = o.pair THEN 1 ELSE 0)
    BY <1>2, <2>1, <2>4, RowAdded
  <2>6. \A p : OpenCount(p) \in Nat
    BY <1>2, OpenCounted
  <2>7. /\ \A i \in DOMAIN cycle.batch : HasRoom(cycle.batch[i].pair)
        /\ HasRoom(o.pair)
    BY <1>2, <2>1, <2>2, <2>3 DEF Admitted
  <2> HIDE DEF n
  <2>8. ASSUME NEW p, p /= o.pair, HasRoom(p) PROVE HasRoom(p)'
    BY <2>1, <2>5, <2>6, <2>8 DEF HasRoom
  <2>9. Admitted'
    BY <2>2, <2>3, <2>7, <2>8 DEF Admitted
  <2>10. PairLimitHeld'
    <3> SUFFICES ASSUME MaxConcurrent > 0, NEW p \in Pairs PROVE OpenCount(p)' <= MaxConcurrent
      BY DEF PairLimitHeld
    <3>1. MaxConcurrent \in Nat /\ OpenCount(p) \in Nat /\ OpenCount(p) <= MaxConcurrent
      BY <1>1, <1>2, <2>6, CycleAssumption DEF PairLimitHeld
    <3>2. p = o.pair => OpenCount(p) < MaxConcurrent
      BY <2>7 DEF HasRoom
    <3>3. OpenCount(p)' = OpenCount(p) + (IF p = o.pair THEN 1 ELSE 0)
      BY <2>5
    <3> QED BY <3>1, <3>2, <3>3
  <2>11. CooldownRespected'
    <3> SUFFICES ASSUME NEW i \in DOMAIN rows', NEW j \in DOMAIN rows', i < j, rows'[i].pair = rows'[j].pair
                 PROVE  rows'[j].createdAt - rows'[i].createdAt >= Cooldown
      BY DEF CooldownRespected
    <3>1. DOMAIN rows = 1 .. Len(rows) /\ Len(rows) \in Nat
      BY <1>2, OpenCounted
    <3>2. CASE j \in DOMAIN rows
      <4>1. i \in DOMAIN rows
        BY <2>5, <3>1, <3>2 DEF n
      <4> QED BY <1>1, <1>2, <2>5, <3>2, <4>1 DEF CooldownRespected
    <3>3. CASE j = n
      <4>1. i \in DOMAIN rows
        BY <2>5, <3>1, <3>3 DEF n
      <4>2. rows[i].pair = o.pair /\ rows'[i] = rows[i] /\ rows'[j].createdAt = clock
        BY <2>5, <3>3, <4>1
      <4>3. clock - rows[i].createdAt >= Cooldown
        BY <2>7, <4>1, <4>2 DEF HasRoom
      <4> QED BY <4>2, <4>3
    <3> QED BY <2>5, <3>2, <3>3
  <2> QED BY <2>9, <2>10, <2>11
<1>10. CASE ExecuteNothing
  <2>1. cycle.stage = "execute" /\ Executed /\ UNCHANGED <<clock, rows>>
    BY <1>10 DEF ExecuteNothing
  <2>2. /\ cycle'.stage \in {"idle", "execute"}
        /\ \A i \in DOMAIN cycle'.batch : i + 1 \in DOMAIN cycle.batch /\ cycle'.batch[i] = cycle.batch[i + 1]
    BY <2>1, ExecuteMoves
  <2>3. \A p : HasRoom(p) => HasRoom(p)'
    BY <1>2, <2>1, TableRests
  <2>4. Admitted'
    BY <1>2, <2>1, <2>2, <2>3 DEF Admitted
  <2> QED BY <1>3, <2>1, <2>4
<1>11. ASSUME NEW i \in DOMAIN recalcs, RecalculationLands(i)
       PROVE  Admitted' /\ PairLimitHeld' /\ CooldownRespected'
  BY <1>4, <1>11 DEF RecalculationLands
<1>12. CASE TimeHalt \/ InitiateShutdown \/ Boot
  BY <1>4, <1>12 DEF TimeHalt, InitiateShutdown, Boot
<1>13. CASE ShutdownEnds \/ Crash
  <2>1. UNCHANGED <<clock, rows>> /\ cycle'.stage = "idle"
    BY <1>13 DEF ShutdownEnds, Crash, Stopped, NoCycle
  <2>2. Admitted'
    BY <2>1 DEF Admitted
  <2> QED BY <1>3, <2>1, <2>2
<1>14. ASSUME NEW i \in DOMAIN rows, ExitTriggered(i) \/ SingleLegResolved(i) \/ Reconciled(i)
       PROVE  Admitted' /\ PairLimitHeld' /\ CooldownRespected'
  <2>1. clock' = clock /\ cycle' = cycle
    BY <1>14 DEF ExitTriggered, SingleLegResolved, Reconciled
  <2>2. PICK s \in Exposed \cup {"RECONCILIATION_REQUIRED", "CLOSED"} :
           rows[i].status \in Active /\ rows' = [rows EXCEPT ![i].status = s]
    BY <1>14 DEF ExitTriggered, SingleLegResolved, Reconciled, Exposed, Active
  <2>3. /\ TableTyped' /\ DOMAIN rows' = DOMAIN rows
        /\ \A j \in DOMAIN rows : rows'[j].pair = rows[j].pair /\ rows'[j].createdAt = rows[j].createdAt
        /\ \A p : OpenCount(p)' <= OpenCount(p)
    BY <1>2, <2>1, <2>2, RowChanged
  <2>4. clock <= clock'
    BY <1>2, <2>1 DEF TableTyped
  <2> QED BY <1>1, <1>2, <2>1, <2>3, <2>4, GatesRest, AdmittedRests
<1>15. CASE Advance
  <2>1. rows' = rows /\ cycle' = cycle /\ clock' = clock + 1
    BY <1>15 DEF Advance
  <2>2. TableTyped' /\ clock <= clock'
    BY <1>2, <2>1, CycleTypedStep DEF CycleInvTyped, TableTyped
  <2>3. \A p : OpenCount(p)' <= OpenCount(p)
    <3>1. \A p : OpenCount(p)' = OpenCount(p) /\ OpenCount(p) \in Nat
      BY <1>2, <2>1, OpenCounted DEF OpenCount, RowsOf
    <3> QED BY <3>1
  <2> QED BY <1>1, <1>2, <2>1, <2>2, <2>3, GatesRest, AdmittedRests
<1>16. CASE UNCHANGED cycleVars
  BY <1>4, <1>16 DEF cycleVars
<1> QED BY <1>5, <1>6, <1>7, <1>8, <1>9, <1>10, <1>11, <1>12, <1>13, <1>14, <1>15, <1>16
     DEF CycleNext, CycleStep
-----------------------------------------------------------------------------
(* The exposures known, and what is approved against them.                  *)

KnownCovers == \A c \in Clusters : CapitalIn(c, rows) <= Latest[c]
OnePerCluster(b) == \A i, j \in DOMAIN b : ClusterOf[b[i].pair] = ClusterOf[b[j].pair] => i = j
Fits(b) == \A i \in DOMAIN b : CapitalIn(ClusterOf[b[i].pair], rows) + b[i].size < HardLimit
Approved == cycle.stage \in {"validate", "execute"} => OnePerCluster(cycle.batch) /\ Fits(cycle.batch)

LEMMA ClustersInvParts ==
    /\ ClustersInv <=> (~evaded => (engine.up => KnownCovers) /\ Approved /\ ClusterLimitHeld)
    /\ ClustersInv' <=> (~evaded' => (engine'.up => KnownCovers') /\ Approved' /\ ClusterLimitHeld')
<1>1. ClustersInv <=> (~evaded => (engine.up => KnownCovers) /\ Approved /\ ClusterLimitHeld)
  BY DEF ClustersInv, KnownCovers, Approved, OnePerCluster, Fits
<1>2. ClustersInv' <=> (~evaded' => (engine'.up => KnownCovers') /\ Approved' /\ ClusterLimitHeld')
  BY DEF ClustersInv, KnownCovers, Approved, OnePerCluster, Fits
<1> QED BY <1>1, <1>2

(* Capital that does not grow stays known, within the limit, and leaves     *)
(* room for what was approved.                                              *)
LEMMA CapitalRests ==
    ASSUME CycleInvTyped, CycleInvTyped', \A c : CapitalIn(c, rows') <= CapitalIn(c, rows)
    PROVE  /\ KnownCovers /\ UNCHANGED <<exposures, recalcs>> => KnownCovers'
           /\ Approved /\ cycle' = cycle => Approved'
           /\ ClusterLimitHeld => ClusterLimitHeld'
<1>1. /\ \A c : CapitalIn(c, rows) \in Nat /\ CapitalIn(c, rows') \in Nat
      /\ HardLimit \in Nat
  BY CapitalNatural, CycleAssumption DEF CycleInvTyped, TableTyped
<1>2. \A c \in Clusters : Latest[c] \in Nat
  <2>1. recalcs /= <<>> => recalcs[Len(recalcs)] \in [Clusters -> Nat]
    BY EmptySeq, ElementOfSeq DEF CycleInvTyped
  <2> QED BY <2>1 DEF Latest, CycleInvTyped
<1>3. ASSUME KnownCovers, UNCHANGED <<exposures, recalcs>> PROVE KnownCovers'
  <2>1. Latest' = Latest
    BY <1>3 DEF Latest
  <2> QED BY <1>1, <1>2, <1>3, <2>1 DEF KnownCovers
<1>4. ASSUME Approved, cycle' = cycle PROVE Approved'
  <2>1. \A i \in DOMAIN cycle.batch : cycle.batch[i].size \in Nat
    <3>1. cycle.batch \in Seq(Opportunity)
      BY DEF CycleInvTyped, Shaped
    <3>2. \A i \in DOMAIN cycle.batch : cycle.batch[i] \in Opportunity
      BY <3>1, LenProperties, ElementOfSeq
    <3> QED BY <3>2 DEF Opportunity
  <2>2. ASSUME Fits(cycle.batch) PROVE Fits(cycle.batch)'
    <3> SUFFICES ASSUME NEW i \in DOMAIN cycle.batch
                 PROVE  CapitalIn(ClusterOf[cycle.batch[i].pair], rows') + cycle.batch[i].size < HardLimit
      BY <1>4 DEF Fits
    <3> DEFINE c == ClusterOf[cycle.batch[i].pair]
    <3>1. CapitalIn(c, rows) + cycle.batch[i].size < HardLimit
      BY <2>2 DEF Fits
    <3> HIDE DEF c
    <3>2. CapitalIn(c, rows') + cycle.batch[i].size < HardLimit
      BY <1>1, <2>1, <3>1
    <3> QED BY <3>2 DEF c
  <2> QED BY <1>4, <2>2 DEF Approved, OnePerCluster
<1>5. ASSUME ClusterLimitHeld PROVE ClusterLimitHeld'
  BY <1>1, <1>5 DEF ClusterLimitHeld
<1> QED BY <1>3, <1>4, <1>5

(* A step that leaves the table and the exposures alone.                    *)
LEMMA TableAlone ==
    ASSUME ClustersInv, ~evaded, engine'.up => engine.up, UNCHANGED <<rows, exposures, recalcs>>,
           Approved => Approved'
    PROVE  ClustersInv'
<1>1. (engine.up => KnownCovers) /\ Approved /\ ClusterLimitHeld
  BY ClustersInvParts
<1>2. KnownCovers => KnownCovers'
  BY DEF KnownCovers, Latest
<1>3. ClusterLimitHeld => ClusterLimitHeld'
  BY DEF ClusterLimitHeld
<1> QED BY <1>1, <1>2, <1>3, ClustersInvParts

(* What is approved now fits beside what is open and shares no cluster.     *)
LEMMA ValidatedFits ==
    ASSUME CycleInvTyped, NEW refused \in BOOLEAN, ValidatePosition(refused), ~evaded', ClustersInv
    PROVE  OnePerCluster(Validated(refused)) /\ Fits(Validated(refused))
<1>1. cycle.stage = "validate" /\ ~evaded
  BY DEF ValidatePosition
<1>2. KnownCovers /\ OnePerCluster(cycle.batch) /\ Fits(cycle.batch)
  <2>1. engine.up
    BY <1>1 DEF CycleInvTyped, NoCycle
  <2> QED BY <1>1, <2>1, ClustersInvParts DEF Approved
<1> DEFINE o == Head(cycle.todo)
           V == Validated(refused)
<1>3. \A i \in DOMAIN V :
        \/ i \in DOMAIN cycle.batch /\ V[i] = cycle.batch[i]
        \/ /\ Approves(refused) /\ i = Len(cycle.batch) + 1 /\ i \notin DOMAIN cycle.batch
           /\ V[i].pair = o.pair /\ V[i].size = Taper(o.pair)
  BY <1>1, ValidatedShaped
<1>4. ASSUME Approves(refused)
      PROVE  /\ CapitalIn(ClusterOf[o.pair], rows) + Taper(o.pair) < HardLimit
             /\ \A i \in DOMAIN cycle.batch : ClusterOf[cycle.batch[i].pair] /= ClusterOf[o.pair]
  <2>1. recalcs = <<>> /\ \A i \in DOMAIN cycle.batch : ClusterOf[cycle.batch[i].pair] /= ClusterOf[o.pair]
    BY <1>1, <1>4 DEF ValidatePosition, Approves
  <2>2. o \in Opportunity
    BY <1>1, TailOnce DEF CycleInvTyped, Shaped
  <2>3. o.pair \in Pairs /\ WithinCluster(o.pair)
    BY <1>4, <2>2 DEF Approves, Opportunity
  <2>4. Taper(o.pair) \in Nat /\ ClusterOf[o.pair] \in Clusters
    BY <2>3, TaperNatural DEF Clusters
  <2>5. exposures[ClusterOf[o.pair]] + Taper(o.pair) < HardLimit
    BY <2>3 DEF WithinCluster
  <2>6. CapitalIn(ClusterOf[o.pair], rows) <= exposures[ClusterOf[o.pair]]
    BY <1>2, <2>1, <2>4 DEF KnownCovers, Latest
  <2>7. /\ CapitalIn(ClusterOf[o.pair], rows) \in Nat /\ exposures[ClusterOf[o.pair]] \in Nat
        /\ HardLimit \in Nat
    BY <2>4, CapitalNatural, CycleAssumption DEF CycleInvTyped, TableTyped
  <2> HIDE DEF o
  <2>8. CapitalIn(ClusterOf[o.pair], rows) + Taper(o.pair) < HardLimit
    BY <2>4, <2>5, <2>6, <2>7
  <2> QED BY <2>1, <2>8 DEF o
<1> HIDE DEF o, V
<1>5. OnePerCluster(V)
  BY <1>2, <1>3, <1>4 DEF OnePerCluster
<1>6. Fits(V)
  BY <1>2, <1>3, <1>4 DEF Fits
<1> QED BY <1>5, <1>6 DEF V
LEMMA CycleClustersStep ==
    ASSUME CycleInvTyped, ClustersInv, [CycleNext]_cycleVars
    PROVE  ClustersInv'
<1> SUFFICES ASSUME ~evaded' PROVE ClustersInv'
  BY ClustersInvParts
<1>1. ~evaded
  BY HistoryStays
<1>2. /\ engine.up => KnownCovers
      /\ Approved
      /\ ClusterLimitHeld
  BY <1>1, ClustersInvParts
<1>3. CycleInvTyped'
  BY CycleTypedStep
<1>4. CASE PollingCycle \/ IngestDone \/ IngestFails \/ KalshiAnswers \/ FetchFails
           \/ \E e \in Edges : PolymarketAnswers(e)
  <2>1. UNCHANGED <<engine, rows, exposures, recalcs>>
    BY <1>4 DEF PollingCycle, IngestDone, IngestFails, KalshiAnswers, FetchFails, PolymarketAnswers
  <2>2. Approved'
    BY <1>4, DetectionMoves DEF Approved
  <2> QED BY <1>1, <2>1, <2>2, TableAlone
<1>5. CASE FilterOpportunities \/ FilterFails
  <2>1. UNCHANGED <<engine, rows, exposures, recalcs>>
    BY <1>5 DEF FilterOpportunities, FilterFails
  <2>2. DOMAIN cycle'.batch = {}
    BY <1>5, FilterMoves, FilterFailsMoves
  <2>3. Approved'
    BY <2>2 DEF Approved, OnePerCluster, Fits
  <2> QED BY <1>1, <2>1, <2>3, TableAlone
<1>6. ASSUME NEW refused \in BOOLEAN, ValidatePosition(refused) PROVE ClustersInv'
  <2>1. UNCHANGED <<engine, rows, exposures, recalcs>>
    BY <1>6 DEF ValidatePosition
  <2>2. OnePerCluster(Validated(refused)) /\ Fits(Validated(refused))
    BY <1>6, ValidatedFits
  <2>3. PICK order \in [DOMAIN cycle'.batch -> DOMAIN Validated(refused)] :
          IsInjective(order) /\ \A i \in DOMAIN cycle'.batch : cycle'.batch[i] = Validated(refused)[order[i]]
    BY <1>6, ValidateMoves
  <2>4. OnePerCluster(cycle.batch)' /\ Fits(cycle.batch)'
    BY <2>1, <2>2, <2>3 DEF OnePerCluster, Fits, IsInjective
  <2>5. Approved'
    BY <2>4 DEF Approved
  <2> QED BY <1>1, <2>1, <2>5, TableAlone
<1>7. ASSUME NEW s \in {"OPEN", "SINGLE_LEG_EXPOSED"}, Execute(s) PROVE ClustersInv'
  <2>1. /\ cycle.stage = "execute" /\ Executed /\ Len(rows) < MaxRows
        /\ clock' = clock /\ recalcs' = Append(recalcs, Recalculation(rows'))
    BY <1>7 DEF Execute
  <2>2. /\ Head(cycle.batch) \in Opportunity /\ Head(cycle.batch) = cycle.batch[1] /\ 1 \in DOMAIN cycle.batch
        /\ cycle'.stage \in {"idle", "execute"}
        /\ \A i \in DOMAIN cycle'.batch : /\ i + 1 \in DOMAIN cycle.batch /\ i \in Int /\ i + 1 /= 1
                                          /\ cycle'.batch[i] = cycle.batch[i + 1]
    BY <2>1, ExecuteMoves
  <2>3. PICK o \in Opportunity : o = Head(cycle.batch)
    BY <2>2
  <2>4. rows' = Append(rows, [pair |-> o.pair, size |-> o.size, status |-> s, createdAt |-> clock])
    BY <1>7, <2>3 DEF Execute, Opened
  <2>5. \A c : CapitalIn(c, rows') = CapitalIn(c, rows) + (IF ClusterOf[o.pair] = c THEN o.size ELSE 0)
    BY <2>1, <2>4, RowAdded DEF CycleInvTyped
  <2>6. OnePerCluster(cycle.batch) /\ Fits(cycle.batch)
    BY <1>2, <2>1 DEF Approved
  <2>7. \A c : CapitalIn(c, rows) \in Nat /\ CapitalIn(c, rows') \in Nat
    BY <1>3, CapitalNatural DEF CycleInvTyped, TableTyped
  <2>8. KnownCovers'
    <3>1. recalcs \in Seq([Clusters -> Nat]) /\ Recalculation(rows') \in [Clusters -> Nat]
      BY <1>3, RecalculationTyped DEF CycleInvTyped, TableTyped
    <3>2. Latest' = Recalculation(rows')
      BY <2>1, <3>1, AppendProperties DEF Latest
    <3> QED BY <2>7, <3>2 DEF KnownCovers, Recalculation
  <2>9. Approved'
    <3>1. \A i \in DOMAIN cycle'.batch :
            /\ i + 1 \in DOMAIN cycle.batch /\ i + 1 /= 1 /\ cycle'.batch[i] = cycle.batch[i + 1]
            /\ ClusterOf[cycle'.batch[i].pair] /= ClusterOf[o.pair]
      BY <2>2, <2>3, <2>6 DEF OnePerCluster
    <3>2. OnePerCluster(cycle.batch)'
      BY <2>2, <2>6, <3>1 DEF OnePerCluster
    <3>3. Fits(cycle.batch)'
      <4> SUFFICES ASSUME NEW i \in DOMAIN cycle'.batch
                   PROVE  CapitalIn(ClusterOf[cycle'.batch[i].pair], rows') + cycle'.batch[i].size < HardLimit
        BY DEF Fits
      <4>1. CapitalIn(ClusterOf[cycle'.batch[i].pair], rows') = CapitalIn(ClusterOf[cycle'.batch[i].pair], rows)
        BY <2>5, <2>7, <3>1
      <4>2. CapitalIn(ClusterOf[cycle'.batch[i].pair], rows) + cycle'.batch[i].size < HardLimit
        BY <2>6, <3>1 DEF Fits
      <4> QED BY <4>1, <4>2
    <3> QED BY <3>2, <3>3 DEF Approved
  <2>10. ClusterLimitHeld'
    <3> SUFFICES ASSUME NEW c \in Clusters PROVE CapitalIn(c, rows') < HardLimit
      BY DEF ClusterLimitHeld
    <3>1. CapitalIn(c, rows') = CapitalIn(c, rows) + (IF ClusterOf[o.pair] = c THEN o.size ELSE 0)
      BY <2>5
    <3>2. CapitalIn(ClusterOf[o.pair], rows) + o.size < HardLimit
      BY <2>2, <2>3, <2>6 DEF Fits
    <3>3. CapitalIn(c, rows) < HardLimit /\ CapitalIn(c, rows) \in Nat
      BY <1>2, <2>7 DEF ClusterLimitHeld
    <3> QED BY <3>1, <3>2, <3>3
  <2> QED BY <2>8, <2>9, <2>10, ClustersInvParts
<1>8. CASE ExecuteNothing
  <2>1. cycle.stage = "execute" /\ Executed /\ UNCHANGED <<engine, rows, exposures, recalcs>>
    BY <1>8 DEF ExecuteNothing
  <2>2. \A i \in DOMAIN cycle'.batch : i \in Int /\ i + 1 \in DOMAIN cycle.batch /\ cycle'.batch[i] = cycle.batch[i + 1]
    BY <2>1, ExecuteMoves
  <2>3. OnePerCluster(cycle.batch) /\ Fits(cycle.batch)
    BY <1>2, <2>1 DEF Approved
  <2>4. Approved'
    <3>1. OnePerCluster(cycle.batch)'
      BY <2>2, <2>3 DEF OnePerCluster
    <3>2. Fits(cycle.batch)'
      BY <2>1, <2>2, <2>3 DEF Fits
    <3> QED BY <3>1, <3>2 DEF Approved
  <2> QED BY <1>1, <2>1, <2>4, TableAlone
<1>9. ASSUME NEW i \in DOMAIN recalcs, RecalculationLands(i) PROVE ClustersInv'
  <2>1. /\ UNCHANGED <<engine, cycle, rows>> /\ i = 1
        /\ exposures' = recalcs[i] /\ recalcs' = RemoveAt(recalcs, i)
    <3>1. Len(recalcs) \in Nat /\ DOMAIN recalcs = 1 .. Len(recalcs)
      BY LenProperties DEF CycleInvTyped
    <3>2. ~(i > 1)
      BY <1>9 DEF RecalculationLands
    <3>3. i = 1
      BY <3>1, <3>2
    <3> QED BY <1>9, <3>3 DEF RecalculationLands
  <2>2. recalcs \in Seq([Clusters -> Nat]) /\ recalcs /= <<>>
    BY <1>9, EmptySeq DEF CycleInvTyped
  <2>3. IF Len(recalcs) = 1 THEN recalcs' = <<>>
        ELSE recalcs' /= <<>> /\ recalcs'[Len(recalcs')] = recalcs[Len(recalcs)]
    BY <2>1, <2>2, RemovedAt
  <2>4. Latest' = Latest
    BY <2>1, <2>2, <2>3 DEF Latest
  <2>5. (engine.up => KnownCovers) => (engine'.up => KnownCovers')
    BY <2>1, <2>4 DEF KnownCovers
  <2>6. Approved' /\ ClusterLimitHeld'
    BY <1>2, <2>1 DEF Approved, Fits, OnePerCluster, ClusterLimitHeld
  <2> QED BY <1>2, <2>5, <2>6, ClustersInvParts
<1>10. CASE TimeHalt \/ InitiateShutdown \/ Advance
  <2>1. UNCHANGED <<cycle, rows, exposures, recalcs>> /\ (engine'.up => engine.up)
    BY <1>10 DEF TimeHalt, InitiateShutdown, Advance
  <2>2. Approved => Approved'
    BY <2>1 DEF Approved, Fits, OnePerCluster
  <2> QED BY <1>1, <2>1, <2>2, TableAlone
<1>11. CASE ShutdownEnds \/ Crash
  <2>1. rows' = rows /\ ~engine'.up /\ cycle'.stage = "idle"
    BY <1>11 DEF ShutdownEnds, Crash, Stopped, NoCycle, CycleInvTyped
  <2>2. Approved' /\ ClusterLimitHeld'
    BY <1>2, <2>1 DEF Approved, ClusterLimitHeld
  <2> QED BY <2>1, <2>2, ClustersInvParts
<1>12. CASE Boot
  <2>1. /\ UNCHANGED <<cycle, rows, exposures, recalcs>> /\ ~engine.up
        /\ Recalculation(rows) = NoCapital
    BY <1>12 DEF Boot
  <2>2. exposures \in [Clusters -> Nat] /\ recalcs = <<>>
    BY <2>1 DEF CycleInvTyped
  <2>3. \A c \in Clusters : CapitalIn(c, rows) = 0
    <3> SUFFICES ASSUME NEW c \in Clusters PROVE CapitalIn(c, rows) = 0
      OBVIOUS
    <3>1. Recalculation(rows)[c] = CapitalIn(c, rows) /\ NoCapital[c] = 0
      BY DEF Recalculation, NoCapital
    <3> QED BY <2>1, <3>1
  <2>4. KnownCovers'
    <3>1. Latest' = exposures
      BY <2>1, <2>2 DEF Latest
    <3> QED BY <2>1, <2>2, <2>3, <3>1 DEF KnownCovers
  <2>5. Approved' /\ ClusterLimitHeld'
    BY <1>2, <2>1 DEF Approved, Fits, OnePerCluster, ClusterLimitHeld
  <2> QED BY <2>4, <2>5, ClustersInvParts
<1>13. ASSUME NEW i \in DOMAIN rows, ExitTriggered(i) \/ SingleLegResolved(i) \/ Reconciled(i)
       PROVE  ClustersInv'
  <2>1. clock' = clock /\ UNCHANGED <<engine, cycle, exposures>>
    BY <1>13 DEF ExitTriggered, SingleLegResolved, Reconciled
  <2>2. PICK s \in Exposed \cup {"RECONCILIATION_REQUIRED", "CLOSED"} :
           /\ rows[i].status \in Active
           /\ rows' = [rows EXCEPT ![i].status = s]
           /\ Reconciled(i) \/ rows[i].status \in Exposed
           /\ s \in Exposed \ {"OPEN"} => rows[i].status \in Exposed
    BY <1>13 DEF ExitTriggered, SingleLegResolved, Reconciled, Exposed, Active
  <2>3. TableTyped /\ rows'[i].status = s
    BY <2>1, <2>2, RowChanged DEF CycleInvTyped
  <2>4. s \in Exposed => rows[i].status \in Exposed
    <3>1. CASE Reconciled(i)
      <4>1. rows'[i].status /= "OPEN"
        BY <3>1 DEF Reconciled
      <4> QED BY <2>2, <2>3, <4>1
    <3>2. CASE ~Reconciled(i)
      BY <2>2, <3>2
    <3> QED BY <3>1, <3>2
  <2>5. \A c : CapitalIn(c, rows') <= CapitalIn(c, rows)
    BY <2>1, <2>2, <2>3, <2>4, RowChanged
  <2>6. \/ recalcs' = recalcs
        \/ recalcs' = Append(recalcs, Recalculation(rows'))
    BY <1>13 DEF ExitTriggered, SingleLegResolved, Reconciled
  <2>7. Approved' /\ ClusterLimitHeld'
    BY <1>2, <1>3, <2>1, <2>5, CapitalRests
  <2>8. ASSUME engine'.up PROVE KnownCovers'
    <3>1. CASE recalcs' = recalcs
      BY <1>2, <1>3, <2>1, <2>5, <2>8, <3>1, CapitalRests
    <3>2. CASE recalcs' = Append(recalcs, Recalculation(rows'))
      <4>1. recalcs \in Seq([Clusters -> Nat]) /\ Recalculation(rows') \in [Clusters -> Nat]
        BY <1>3, RecalculationTyped DEF CycleInvTyped, TableTyped
      <4>2. Latest' = Recalculation(rows')
        BY <3>2, <4>1, AppendProperties DEF Latest
      <4>3. \A c : CapitalIn(c, rows') \in Nat
        BY <1>3, CapitalNatural DEF CycleInvTyped, TableTyped
      <4> QED BY <4>2, <4>3 DEF KnownCovers, Recalculation
    <3> QED BY <2>6, <3>1, <3>2
  <2> QED BY <2>7, <2>8, ClustersInvParts
<1>14. CASE UNCHANGED cycleVars
  <2>1. UNCHANGED <<engine, cycle, rows, exposures, recalcs>>
    BY <1>14 DEF cycleVars
  <2>2. Approved => Approved'
    BY <2>1 DEF Approved, Fits, OnePerCluster
  <2> QED BY <1>1, <2>1, <2>2, TableAlone
<1> QED BY <1>4, <1>5, <1>6, <1>7, <1>8, <1>9, <1>10, <1>11, <1>12, <1>13, <1>14
     DEF CycleNext, CycleStep
LEMMA CycleStarts ==
    ASSUME CycleInit
    PROVE  CycleInvTyped /\ GatesInv /\ (HardLimit > 0 => ClustersInv)
<1> USE DEF CycleInit
<1>1. MaxTime \in Nat /\ ShutdownWait \in Nat /\ MaxRows \in Nat /\ MaxConcurrent \in Nat
  BY CycleAssumption
<1>2. rows = <<>> /\ DOMAIN rows = {} /\ Len(rows) = 0 /\ rows \in Seq(CycleRow)
  BY EmptySeq
<1>3. TableTyped
  BY <1>1, <1>2 DEF TableTyped
<1>4. CycleInvTyped
  <2>1. engine \in [up : BOOLEAN, shuttingDown : BOOLEAN, halted : BOOLEAN,
                    deadline : 0..(MaxTime + ShutdownWait)]
    BY <1>1
  <2>2. recalcs \in Seq([Clusters -> Nat]) /\ exposures \in [Clusters -> Nat]
    BY EmptySeq DEF NoCapital
  <2>3. failedOpen \in BOOLEAN /\ evaded \in BOOLEAN
    BY Zenon
  <2>4. engine.up /\ cycle = NoCycle
    OBVIOUS
  <2> HIDE DEF CycleInit
  <2> QED BY <1>3, <2>1, <2>2, <2>3, <2>4, ShapedNothing DEF CycleInvTyped
<1>5. Admitted /\ CooldownRespected
  BY <1>2 DEF Admitted, CooldownRespected, NoCycle
<1>6. PairLimitHeld
  <2>1. \A p : OpenCount(p) = 0
    <3>1. \A p : RowsOf(Active, p) = {}
      BY <1>2 DEF RowsOf
    <3> QED BY <3>1, FS_EmptySet DEF OpenCount
  <2> QED BY <1>1, <2>1 DEF PairLimitHeld
<1>7. ASSUME HardLimit > 0 PROVE ClustersInv
  <2>1. \A c : CapitalIn(c, rows) = 0
    BY <1>2, CapitalNone
  <2>2. KnownCovers
    BY <2>1 DEF KnownCovers, Latest, NoCapital
  <2>3. Approved /\ ClusterLimitHeld
    BY <1>7, <2>1 DEF Approved, ClusterLimitHeld, NoCycle
  <2> QED BY <2>2, <2>3, ClustersInvParts
<1> QED BY <1>4, <1>5, <1>6, <1>7 DEF GatesInv

LEMMA CycleTyped == CycleInvTyped => CycleTypeOK
<1> SUFFICES ASSUME CycleInvTyped PROVE CycleTypeOK
  OBVIOUS
<1>1. \A i \in DOMAIN rows : rows[i] \in CycleRow
  BY OpenCounted DEF CycleInvTyped
<1>2. \A i \in DOMAIN rows : rows[i].pair \in Pairs /\ rows[i].createdAt \in 0..clock
  BY <1>1 DEF CycleInvTyped, TableTyped, CycleRow
<1>3. \A i \in DOMAIN cycle.batch : cycle.batch[i] \in Opportunity
  <2>1. cycle.batch \in Seq(Opportunity)
    BY DEF CycleInvTyped, Shaped
  <2> QED BY <2>1, LenProperties, ElementOfSeq
<1>4. /\ cycle.stage \in Stages
      /\ cycle.stage \in {"kalshi", "polymarket"} => cycle.todo /= <<>>
      /\ cycle.stage = "execute" => cycle.batch /= <<>>
  BY DEF CycleInvTyped, Shaped
<1> QED BY <1>2, <1>3, <1>4 DEF CycleTypeOK, CycleInvTyped, TableTyped

(* What the filter of a batch promises of a pair holds over later cycles,   *)
(* crashes, flags and their acknowledgement, for any pairs and limits: no   *)
(* pair has more positions than pairMaxConcurrentPositions, and two of a    *)
(* pair are the cooldown apart.                                             *)
THEOREM PairGatesAlwaysHeld == CycleSpec => []PairGatesHeld
<1> DEFINE Inv == CycleInvTyped /\ GatesInv
<1>1. CycleInit => Inv
  BY CycleStarts
<1>2. Inv /\ [CycleNext]_cycleVars => Inv'
  BY CycleTypedStep, CycleGatesStep
<1>3. Inv => PairGatesHeld
  BY CycleTyped DEF GatesInv, PairGatesHeld, PairLimitHeld, CooldownRespected
<1> QED BY <1>1, <1>2, <1>3, PTL DEF CycleSpec

(* The capital of a cluster stays under its limit, for any pairs, clusters, *)
(* sizes and limits, but for the ways around it that the model names: two   *)
(* of a cluster in one batch, exposures lost or landed late, flagged        *)
(* capital that comes back.  A limit of zero refuses every opportunity.     *)
THEOREM ClusterLimitAlwaysExplained ==
    ASSUME HardLimit > 0 PROVE CycleSpec => []ClusterLimitExplained
<1> DEFINE Inv == CycleInvTyped /\ ClustersInv
<1>1. CycleInit => Inv
  BY CycleStarts
<1>2. Inv /\ [CycleNext]_cycleVars => Inv'
  BY CycleTypedStep, CycleClustersStep
<1>3. Inv => ClusterLimitExplained
  BY ClustersInvParts DEF ClusterLimitExplained
<1> QED BY <1>1, <1>2, <1>3, PTL DEF CycleSpec

-----------------------------------------------------------------------------
(* The exit monitor.                                                        *)

(* What is held is what was entered and not sold; only a position that was  *)
(* exited in part has sold anything and is still open.                      *)
HeldIsUnsold ==
    \A p \in Monitored :
        /\ held[p] = (IF row[p] = "none" THEN 0 ELSE EntryFill - exited[p])
        /\ exited[p] <= EntryFill
        /\ row[p] \in {"none", "OPEN"} => exited[p] = 0

(* Within a cycle nobody else changes the status that was read.             *)
TasksAreCurrent == \A t \in round.todo : t[2] = row[t[1]]

LoneIsSold == \A p \in Monitored : row[p] = "CLOSED" /\ Entered = {p} => held[p] = 0

(* The failed rounds are below the threshold, or the next one is skipped.   *)
BreakerCounts ==
    /\ round.going => ~skipNextCycle
    /\ skipNextCycle \/ failedRounds < BreakAfter

MonitorInv == MonitorTypeOK /\ HeldIsUnsold /\ TasksAreCurrent /\ LoneIsSold /\ BreakerCounts

(* A position alone has its own size left; siblings only take from it.      *)
LEMMA ResidualWithinHeld ==
    ASSUME MonitorTypeOK, HeldIsUnsold, NEW p \in Entered
    PROVE  /\ Residual(p) \in Nat /\ Residual(p) <= held[p]
           /\ Entered = {p} => Residual(p) = held[p]
<1> DEFINE own == [q \in Entered |-> exited[q]]
           rest == [q \in Entered \ {p} |-> own[q]]
           siblings == Cardinality(Entered \ {p})
<1>1. p \in Monitored /\ Entered \subseteq Monitored /\ row[p] # "none"
  BY DEF Entered
<1>2. IsFiniteSet(Entered)
  BY <1>1, MonitorConstants, FS_Subset
<1>3. IsFiniteSet(Entered \ {p})
  BY <1>2, FS_Subset
<1>4. siblings \in Nat
  BY <1>3, FS_CardinalityType
<1>5. own \in [Entered -> Int] /\ rest \in [Entered \ {p} -> Nat] /\ own[p] = exited[p]
  BY <1>1 DEF MonitorTypeOK
<1>6. SumFunction(rest) \in Nat
  <2> HIDE DEF rest
  <2> QED BY <1>3, <1>5, SumNatural
<1>7. SumFunction(own) = exited[p] + SumFunction(rest)
  BY <1>2, <1>5, SumRemove
<1>8. Entered = {p} => SumFunction(rest) = 0 /\ siblings = 0
  <2> SUFFICES ASSUME Entered = {p} PROVE SumFunction(rest) = 0 /\ siblings = 0
    OBVIOUS
  <2>1. Entered \ {p} = {}
    OBVIOUS
  <2>2. rest \in [{} -> Int]
    BY <2>1, <1>5
  <2>3. siblings = 0
    BY <2>1, FS_EmptySet
  <2> QED BY <2>2, <2>3, SumEmpty
<1> DEFINE fills == EntryFill * siblings
<1>9. fills \in Nat /\ (siblings = 0 => fills = 0)
  BY <1>4, MonitorConstants
<1>10. held[p] = EntryFill - exited[p] /\ exited[p] <= EntryFill /\ exited[p] \in Nat
  BY <1>1 DEF HeldIsUnsold, MonitorTypeOK
<1>11. Residual(p) = IF EntryFill - (exited[p] + SumFunction(rest)) - fills > 0
                     THEN EntryFill - (exited[p] + SumFunction(rest)) - fills ELSE 0
  BY <1>7 DEF Residual, ExitFills, EntryFillsOfOthers
<1> HIDE DEF own, rest, siblings, fills
<1> QED BY <1>6, <1>8, <1>9, <1>10, <1>11, MonitorConstants

LEMMA MonitorStarts == MonitorInit => MonitorInv
<1> SUFFICES ASSUME MonitorInit PROVE MonitorInv
  OBVIOUS
<1>1. MonitorTypeOK
  <2>1. round \in [todo : SUBSET (Monitored \X {"OPEN", "EXIT_PARTIAL"}),
                  anySucceeded : BOOLEAN, going : BOOLEAN]
    BY DEF MonitorInit, Idle
  <2>2. skipNextCycle \in BOOLEAN
    BY DEF MonitorInit
  <2>3. failedRounds \in 0 .. BreakAfter
    BY MonitorConstants DEF MonitorInit
  <2> QED BY <2>1, <2>2, <2>3 DEF MonitorInit, MonitorTypeOK, Status
<1>2. HeldIsUnsold /\ TasksAreCurrent /\ LoneIsSold
  BY MonitorConstants DEF MonitorInit, HeldIsUnsold, TasksAreCurrent, LoneIsSold, Idle
<1>3. BreakerCounts
  BY MonitorConstants DEF MonitorInit, BreakerCounts, Idle
<1> QED BY <1>1, <1>2, <1>3 DEF MonitorInv

(* What ends with a task: the row of its position moves on, from the size   *)
(* it had to what the sale leaves.                                          *)
LEMMA SaleKeeps ==
    ASSUME MonitorInv, NEW task \in round.todo, NEW n \in Nat, NEW s \in {"CLOSED", "EXIT_PARTIAL"},
           n <= held[task[1]], row[task[1]] \in {"OPEN", "EXIT_PARTIAL"},
           s = "CLOSED" /\ Entered = {task[1]} => n = held[task[1]],
           Evaluated(task),
           row' = [row EXCEPT ![task[1]] = s],
           held' = [held EXCEPT ![task[1]] = @ - n],
           exited' = [exited EXCEPT ![task[1]] = @ + n],
           UNCHANGED <<failedRounds, skipNextCycle>>
    PROVE  MonitorInv'
<1> DEFINE p == task[1]
<1>1. p \in Monitored /\ task[2] \in {"OPEN", "EXIT_PARTIAL"} /\ task = <<p, task[2]>>
  BY DEF MonitorInv, MonitorTypeOK
<1>2. MonitorTypeOK'
  <2>1. row' \in [Monitored -> Status]
    BY <1>1 DEF MonitorInv, MonitorTypeOK, Status
  <2>2. held' \in [Monitored -> Int] /\ exited' \in [Monitored -> Nat]
    BY <1>1 DEF MonitorInv, MonitorTypeOK
  <2>3. round' \in [todo : SUBSET (Monitored \X {"OPEN", "EXIT_PARTIAL"}),
                   anySucceeded : BOOLEAN, going : BOOLEAN]
    BY DEF MonitorInv, MonitorTypeOK, Evaluated
  <2> QED BY <2>1, <2>2, <2>3 DEF MonitorInv, MonitorTypeOK
<1>3. HeldIsUnsold'
  <2> SUFFICES ASSUME NEW q \in Monitored
               PROVE  /\ held'[q] = (IF row'[q] = "none" THEN 0 ELSE EntryFill - exited'[q])
                      /\ exited'[q] <= EntryFill
                      /\ row'[q] \in {"none", "OPEN"} => exited'[q] = 0
    BY DEF HeldIsUnsold
  <2>1. CASE q = p
    <3>1. held'[p] = held[p] - n /\ exited'[p] = exited[p] + n /\ row'[p] = s
      BY <1>1 DEF MonitorInv, MonitorTypeOK
    <3>2. held[p] = EntryFill - exited[p] /\ exited[p] \in Nat /\ held[p] \in Int
      BY <1>1 DEF MonitorInv, MonitorTypeOK, HeldIsUnsold
    <3>3. n <= held[p]
      OBVIOUS
    <3> HIDE DEF p
    <3> QED BY <2>1, <3>1, <3>2, <3>3, MonitorConstants
  <2>2. CASE q # p
    BY <2>2, <1>1 DEF MonitorInv, MonitorTypeOK, HeldIsUnsold
  <2> QED BY <2>1, <2>2
<1>4. TasksAreCurrent'
  <2> SUFFICES ASSUME NEW t \in round'.todo PROVE t[2] = row'[t[1]]
    BY DEF TasksAreCurrent
  <2>1. t \in round.todo /\ t # task
    BY DEF Evaluated, MonitorInv, MonitorTypeOK
  <2>2. t[2] = row[t[1]] /\ task[2] = row[p] /\ t = <<t[1], t[2]>> /\ t[1] \in Monitored
    BY <2>1 DEF MonitorInv, TasksAreCurrent, MonitorTypeOK
  <2>3. t[1] # p
    BY <1>1, <2>1, <2>2
  <2> QED BY <1>1, <2>2, <2>3 DEF MonitorInv, MonitorTypeOK
<1>5. Entered' = Entered
  BY <1>1 DEF Entered, MonitorInv, MonitorTypeOK
<1>6. LoneIsSold'
  <2> SUFFICES ASSUME NEW q \in Monitored, row'[q] = "CLOSED", Entered = {q} PROVE held'[q] = 0
    BY <1>5 DEF LoneIsSold
  <2>1. p \in Entered
    BY <1>1 DEF Entered
  <2>2. q = p /\ s = "CLOSED" /\ held[p] \in Int
    BY <2>1, <1>1 DEF MonitorInv, MonitorTypeOK
  <2>3. held'[p] = held[p] - n
    BY <1>1 DEF MonitorInv, MonitorTypeOK
  <2>4. n = held[p]
    BY <2>2
  <2> QED BY <2>2, <2>3, <2>4
<1>7. BreakerCounts'
  BY DEF MonitorInv, MonitorTypeOK, BreakerCounts, Evaluated
<1> QED BY <1>2, <1>3, <1>4, <1>6, <1>7 DEF MonitorInv

(* A step that leaves the positions alone.                                  *)
LEMMA PositionsRest ==
    ASSUME MonitorInv, UNCHANGED <<row, held, exited>>, MonitorTypeOK',
           round'.todo \subseteq round.todo \cup {<<p, row[p]>> : p \in Monitored}, BreakerCounts'
    PROVE  MonitorInv'
<1>1. HeldIsUnsold' /\ LoneIsSold'
  BY DEF MonitorInv, HeldIsUnsold, LoneIsSold, Entered
<1>2. TasksAreCurrent'
  BY DEF MonitorInv, TasksAreCurrent
<1> QED BY <1>1, <1>2 DEF MonitorInv

LEMMA MonitorStep == MonitorInv /\ [MonitorNext]_monitorVars => MonitorInv'
<1> SUFFICES ASSUME MonitorInv, [MonitorNext]_monitorVars PROVE MonitorInv'
  OBVIOUS
<1> USE MonitorConstants
<1>1. ASSUME NEW p \in Monitored, Enter(p) PROVE MonitorInv'
  <2>1. MonitorTypeOK'
    BY <1>1 DEF Enter, MonitorInv, MonitorTypeOK, Status
  <2>2. HeldIsUnsold'
    BY <1>1 DEF Enter, MonitorInv, MonitorTypeOK, HeldIsUnsold
  <2>3. TasksAreCurrent'
    BY <1>1 DEF Enter, MonitorInv, MonitorTypeOK, TasksAreCurrent
  <2>4. LoneIsSold'
    <3> SUFFICES ASSUME NEW q \in Monitored, row'[q] = "CLOSED", Entered' = {q} PROVE FALSE
      BY DEF LoneIsSold
    <3>1. q # p /\ p \in Entered'
      BY <1>1 DEF Enter, Entered, MonitorInv, MonitorTypeOK
    <3> QED BY <3>1
  <2>5. BreakerCounts'
    BY <1>1 DEF Enter, MonitorInv, BreakerCounts
  <2> QED BY <2>1, <2>2, <2>3, <2>4, <2>5 DEF MonitorInv
<1>2. CASE SkipCycle
  <2>1. /\ skipNextCycle' = FALSE /\ failedRounds' = 0 /\ ~round.going
        /\ UNCHANGED <<row, held, exited, round>>
    BY <1>2 DEF SkipCycle
  <2>2. skipNextCycle' \in BOOLEAN
    BY <2>1, Zenon
  <2>3. MonitorTypeOK'
    BY <2>1, <2>2 DEF MonitorInv, MonitorTypeOK
  <2>4. BreakerCounts'
    BY <2>1 DEF BreakerCounts
  <2> QED BY <2>1, <2>3, <2>4, PositionsRest
<1>3. CASE BeginCycle
  <2> DEFINE active == {p \in Monitored : row[p] \in {"OPEN", "EXIT_PARTIAL"}}
  <2>1. round' = [todo |-> {<<p, row[p]>> : p \in active}, anySucceeded |-> FALSE, going |-> TRUE]
    BY <1>3 DEF BeginCycle
  <2>2. MonitorTypeOK'
    BY <1>3, <2>1 DEF BeginCycle, MonitorInv, MonitorTypeOK
  <2>3. BreakerCounts'
    BY <1>3, <2>1 DEF BeginCycle, MonitorInv, BreakerCounts
  <2> QED BY <1>3, <2>1, <2>2, <2>3, PositionsRest DEF BeginCycle
<1>4. CASE EndCycle
  <2>1. failedRounds < BreakAfter /\ failedRounds \in Nat
    BY <1>4 DEF EndCycle, MonitorInv, BreakerCounts, MonitorTypeOK
  <2>2. MonitorTypeOK'
    BY <1>4, <2>1 DEF EndCycle, MonitorInv, MonitorTypeOK, Idle
  <2>3. BreakerCounts'
    BY <1>4, <2>1 DEF EndCycle, MonitorInv, MonitorTypeOK, BreakerCounts, Idle
  <2> QED BY <1>4, <2>2, <2>3, PositionsRest DEF EndCycle, Idle
<1>5. ASSUME NEW task \in round.todo, EvaluationThrows(task) \/ Hold(task) PROVE MonitorInv'
  <2>1. /\ round'.todo = round.todo \ {task} /\ round'.going = round.going
        /\ UNCHANGED <<row, held, exited, failedRounds, skipNextCycle>>
    BY <1>5 DEF EvaluationThrows, Hold, Evaluated, MonitorInv, MonitorTypeOK
  <2>2. MonitorTypeOK'
    <3>1. round' \in [todo : SUBSET (Monitored \X {"OPEN", "EXIT_PARTIAL"}),
                      anySucceeded : BOOLEAN, going : BOOLEAN]
      <4>1. round \in [todo : SUBSET (Monitored \X {"OPEN", "EXIT_PARTIAL"}),
                       anySucceeded : BOOLEAN, going : BOOLEAN]
        BY DEF MonitorInv, MonitorTypeOK
      <4>2. CASE round' = [round EXCEPT !.todo = @ \ {task}]
        BY <4>1, <4>2
      <4>3. CASE round' = [round EXCEPT !.todo = @ \ {task}, !.anySucceeded = TRUE]
        BY <4>1, <4>3
      <4> QED BY <1>5, <4>2, <4>3, Zenon DEF EvaluationThrows, Hold, Evaluated
    <3> QED BY <2>1, <3>1 DEF MonitorInv, MonitorTypeOK
  <2>3. BreakerCounts'
    BY <2>1 DEF MonitorInv, BreakerCounts
  <2> QED BY <2>1, <2>2, <2>3, PositionsRest
<1>6. ASSUME NEW task \in round.todo PROVE /\ task[1] \in Monitored
                                           /\ task[2] = row[task[1]]
                                           /\ task[1] \in Entered
                                           /\ held[task[1]] \in Int
                                           /\ exited[task[1]] \in Nat
  BY <1>6 DEF MonitorInv, MonitorTypeOK, TasksAreCurrent, Entered
<1>7. ASSUME NEW task \in round.todo, CloseSpent(task) PROVE MonitorInv'
  <2>1. Residual(task[1]) <= held[task[1]] /\ (Entered = {task[1]} => Residual(task[1]) = held[task[1]])
    BY <1>6, ResidualWithinHeld DEF MonitorInv
  <2>2. Residual(task[1]) = 0 /\ row[task[1]] = "EXIT_PARTIAL" /\ Evaluated(task)
    BY <1>6, <1>7 DEF CloseSpent
  <2>3. /\ row' = [row EXCEPT ![task[1]] = "CLOSED"]
        /\ UNCHANGED <<held, exited, failedRounds, skipNextCycle>>
    BY <1>7 DEF CloseSpent
  <2>4. held' = [held EXCEPT ![task[1]] = @ - 0] /\ exited' = [exited EXCEPT ![task[1]] = @ + 0]
    BY <1>6, <2>3 DEF MonitorInv, MonitorTypeOK
  <2>5. 0 <= held[task[1]]
    BY <2>1, <2>2
  <2> QED BY <2>1, <2>2, <2>3, <2>4, <2>5, SaleKeeps
<1>8. ASSUME NEW task \in round.todo, NEW n \in 1 .. EntryFill, Exit(task, n) PROVE MonitorInv'
  <2> DEFINE size == EffectiveSize(task[1], task[2])
             s == IF n = size THEN "CLOSED" ELSE "EXIT_PARTIAL"
  <2>1. /\ row[task[1]] \in {"OPEN", "EXIT_PARTIAL"} /\ n \in 1 .. size /\ Evaluated(task)
        /\ row' = [row EXCEPT ![task[1]] = s]
        /\ held' = [held EXCEPT ![task[1]] = @ - n] /\ exited' = [exited EXCEPT ![task[1]] = @ + n]
        /\ UNCHANGED <<failedRounds, skipNextCycle>>
    BY <1>8 DEF Exit
  <2>2. size \in Nat /\ size <= held[task[1]] /\ (Entered = {task[1]} => size = held[task[1]])
    <3>1. CASE task[2] = "EXIT_PARTIAL"
      BY <3>1, <1>6, ResidualWithinHeld DEF MonitorInv, EffectiveSize
    <3>2. CASE task[2] # "EXIT_PARTIAL"
      <4>1. row[task[1]] = "OPEN"
        BY <3>2, <1>6, <2>1
      <4>2. exited[task[1]] = 0 /\ held[task[1]] = EntryFill - exited[task[1]]
        BY <4>1, <1>6 DEF MonitorInv, HeldIsUnsold
      <4> QED BY <3>2, <4>2 DEF EffectiveSize
    <3> QED BY <3>1, <3>2
  <2> HIDE DEF size
  <2>3. n \in Nat /\ n <= held[task[1]] /\ s \in {"CLOSED", "EXIT_PARTIAL"}
    BY <1>6, <2>1, <2>2
  <2>4. s = "CLOSED" /\ Entered = {task[1]} => n = held[task[1]]
    BY <2>2
  <2> HIDE DEF s
  <2> QED BY <2>1, <2>3, <2>4, SaleKeeps
<1>9. CASE UNCHANGED monitorVars
  BY <1>9 DEF monitorVars, MonitorInv, MonitorTypeOK, HeldIsUnsold, TasksAreCurrent, LoneIsSold,
     BreakerCounts, Entered
<1> QED BY <1>1, <1>2, <1>3, <1>4, <1>5, <1>7, <1>8, <1>9 DEF MonitorNext

LEMMA MonitorInvSound == MonitorInv => MonitorSound
<1> SUFFICES ASSUME MonitorInv PROVE ResidualIsOwn
  BY DEF MonitorInv, MonitorSound
<1>1. \A p \in Monitored : held[p] >= 0
  BY MonitorConstants DEF MonitorInv, MonitorTypeOK, HeldIsUnsold
<1>2. ASSUME Cardinality(Entered) <= 1, NEW p \in Monitored, row[p] = "CLOSED" PROVE held[p] = 0
  <2>1. p \in Entered
    BY <1>2 DEF Entered
  <2>2. IsFiniteSet(Entered)
    BY MonitorConstants, FS_Subset DEF Entered
  <2>3. Cardinality(Entered) \in Nat /\ Cardinality(Entered) # 0
    BY <2>1, <2>2, FS_CardinalityType, FS_EmptySet
  <2>4. Cardinality(Entered) = 1
    BY <1>2, <2>3
  <2>5. Entered = {p}
    BY <2>1, <2>2, <2>4, FS_Singleton
  <2> QED BY <1>2, <2>5 DEF MonitorInv, LoneIsSold
<1> QED BY <1>1, <1>2 DEF ResidualIsOwn

(* No sequence of partial exits sells more of a position than it holds,     *)
(* whatever its siblings have sold, and a position that is alone on its     *)
(* pair is closed only when all of it was sold.                             *)
THEOREM MonitorAlwaysSound == MonitorSpec => []MonitorSound
<1> QED BY MonitorStarts, MonitorStep, MonitorInvSound, PTL DEF MonitorSpec

-----------------------------------------------------------------------------
(* The exit criteria.                                                       *)

HoldingTyped ==
    holding \in [kalshi : Leg, polymarket : Leg, edge : InitialEdges, closeKnown : BOOLEAN]

(* A verdict stays true of the position until a price moves, and that       *)
(* clears it.                                                               *)
VerdictStands ==
    /\ lastVerdict = "stop_loss" => StopLoss
    /\ lastVerdict = "take_profit" => TakeProfit

CriteriaInv == HoldingTyped /\ VerdictStands

(* Every price is what it was on entry, and a spread is a cost.             *)
AsEntered(leg) ==
    /\ leg.now = leg.entryClose
    /\ IF leg.side = "buy" THEN leg.entryClose <= leg.entry ELSE leg.entryClose >= leg.entry

LEMMA LegTyped ==
    ASSUME NEW leg \in Leg
    PROVE  /\ leg.side \in Sides /\ {leg.entry, leg.entryClose, leg.now} \subseteq Nat
           /\ leg.entry \in Nat /\ leg.entryClose \in Nat /\ leg.now \in Nat
<1>1. \A t \in TickPrice : t \in Nat
  BY CriteriaConstants DEF TickPrice
<1> QED BY <1>1 DEF Leg

LEMMA ProductNatural == \A a, b \in Nat : a * b \in Nat
OBVIOUS

(* A leg that could be closed as on entry has lost what its entry cost.     *)
LEMMA EntryCostIsLoss ==
    ASSUME NEW leg \in Leg, AsEntered(leg)
    PROVE  /\ LegPnl(leg) - LegExitFee(leg) = -LegEntryCost(leg)
           /\ LegEntryCost(leg) \in Nat /\ LegPnl(leg) \in Int /\ LegExitFee(leg) \in Int
<1>1. /\ leg.entry \in Nat /\ leg.entryClose \in Nat /\ leg.now = leg.entryClose
      /\ Parts \in Nat /\ Contracts \in Nat /\ ExitFee \in Nat
  BY LegTyped, CriteriaConstants DEF AsEntered
<1> DEFINE x == Spread(leg)
           e == leg.entryClose
<1>2. x \in Nat /\ (IF leg.side = "buy" THEN leg.now - leg.entry ELSE leg.entry - leg.now) = -x
  BY <1>1 DEF Spread, OrZero, AsEntered
<1>3. LegPnl(leg) = Parts * Contracts * (-x) /\ LegExitFee(leg) = ExitFee * Contracts * e
  BY <1>1, <1>2 DEF LegPnl, LegExitFee
<1>4. LegEntryCost(leg) = Contracts * (Parts * x + ExitFee * e)
  BY DEF LegEntryCost
<1> HIDE DEF x
<1>5. Parts * x \in Nat /\ ExitFee * e \in Nat
  BY <1>1, <1>2, ProductNatural
<1>6. Parts * x + ExitFee * e \in Nat
  BY <1>5
<1>7. Contracts * (Parts * x + ExitFee * e) \in Nat
  BY <1>1, <1>6, ProductNatural
<1>8. \A p, c, f, y, z \in Int : p * c * (-y) - f * c * z = -(c * (p * y + f * z))
  OBVIOUS
<1>9. /\ Parts * Contracts * (-x) - ExitFee * Contracts * e = -(Contracts * (Parts * x + ExitFee * e))
      /\ Parts * Contracts * (-x) \in Int /\ ExitFee * Contracts * e \in Int
  BY <1>1, <1>2, <1>8
<1> QED BY <1>3, <1>4, <1>7, <1>9

LEMMA EdgePositive ==
    ASSUME HoldingTyped PROVE ScaledEdge \in Nat /\ ScaledEdge > 0
<1>1. holding.edge \in Nat /\ holding.edge > 0
  <2>1. holding.edge \in Nat \ {0}
    BY CriteriaConstants DEF HoldingTyped
  <2> QED BY <2>1
<1>4. Ticks \in Nat /\ Ticks > 0 /\ Contracts \in Nat /\ Contracts > 0
  BY CriteriaConstants
<1>2. \A a, b \in Nat : a > 0 /\ b > 0 => a * b \in Nat /\ a * b > 0
  OBVIOUS
<1>3. holding.edge * Ticks \in Nat /\ holding.edge * Ticks > 0
  BY <1>1, <1>2, <1>4
<1> QED BY <1>2, <1>3, <1>4 DEF ScaledEdge

LEMMA MoneyTyped == ASSUME HoldingTyped PROVE Pnl \in Int /\ Baseline \in Int
<1> DEFINE k == holding.kalshi
           p == holding.polymarket
<1>1. \A leg \in Leg : LegPnl(leg) \in Int /\ LegExitFee(leg) \in Int /\ LegEntryCost(leg) \in Int
  <2> SUFFICES ASSUME NEW leg \in Leg
               PROVE  LegPnl(leg) \in Int /\ LegExitFee(leg) \in Int /\ LegEntryCost(leg) \in Int
    OBVIOUS
  <2>1. /\ leg.entry \in Nat /\ leg.entryClose \in Nat /\ leg.now \in Nat
        /\ Parts \in Nat /\ Contracts \in Nat /\ ExitFee \in Nat
    BY LegTyped, CriteriaConstants
  <2>2. Spread(leg) \in Nat
    BY <2>1 DEF Spread, OrZero
  <2> QED BY <2>1, <2>2 DEF LegPnl, LegExitFee, LegEntryCost
<1>2. k \in Leg /\ p \in Leg
  BY DEF HoldingTyped
<1> QED BY <1>1, <1>2 DEF Pnl, Baseline, LegReturn

(* A profit is taken above zero: when the baseline outweighs the edge the   *)
(* target falls back to a part of the edge, which is positive.              *)
LEMMA ProfitIsOne == ASSUME HoldingTyped, TakeProfit PROVE Pnl > 0
<1>1. TakeProfitTarget10 > 0
  BY EdgePositive, MoneyTyped DEF TakeProfitTarget10, OrZero
<1>2. TakeProfitTarget10 \in Int
  BY EdgePositive, MoneyTyped DEF TakeProfitTarget10, OrZero, JourneyTarget10
<1> QED BY <1>1, <1>2, MoneyTyped DEF TakeProfit

LEMMA EntryIsNoVerdict ==
    ASSUME HoldingTyped, holding.closeKnown, \A leg \in Legs : AsEntered(leg)
    PROVE  ~StopLoss /\ ~TakeProfit
<1> DEFINE k == holding.kalshi
           p == holding.polymarket
<1>1. k \in Leg /\ p \in Leg /\ AsEntered(k) /\ AsEntered(p)
  BY DEF HoldingTyped, Legs
<1>2. Pnl = (LegPnl(k) - LegExitFee(k)) + (LegPnl(p) - LegExitFee(p))
  BY DEF Pnl, LegReturn
<1>3. Baseline = -(LegEntryCost(k) + LegEntryCost(p))
  BY DEF Baseline
<1>4. Pnl = Baseline /\ Baseline <= 0
  BY <1>1, <1>2, <1>3, EntryCostIsLoss
<1>5. ScaledEdge \in Nat /\ ScaledEdge > 0 /\ Baseline \in Int
  BY EdgePositive, MoneyTyped
<1>6. ~StopLoss
  BY <1>4, <1>5 DEF StopLoss
<1>7. ~TakeProfit
  BY <1>4, <1>5 DEF TakeProfit, TakeProfitTarget10, JourneyTarget10, OrZero
<1> QED BY <1>6, <1>7

(* No criterion of the model mode goes by the name of a fixed threshold.    *)
LEMMA ModelNames ==
    ASSUME NEW c PROVE ModelDriven(c) \notin {"stop_loss", "take_profit"}
<1> DEFINE list == Criteria(c)
           met == {k \in DOMAIN list : list[k].met}
<1>1. /\ DOMAIN list = 1 .. 6
      /\ \A k \in 1 .. 6 : list[k].name \notin {"stop_loss", "take_profit"}
  BY DEF Criteria
<1> DEFINE first == CHOOSE k \in met : \A j \in met : k <= j
<1>2. ModelDriven(c) = IF met = {} THEN "hold" ELSE list[first].name
  BY DEF ModelDriven
<1> HIDE DEF list
<1>3. ASSUME met # {} PROVE \E k \in met : \A j \in met : k <= j
  <2>1. met \subseteq 1 .. 6
    BY <1>1
  <2> HIDE DEF met
  <2>2. \A j \in met : j = 1 \/ j = 2 \/ j = 3 \/ j = 4 \/ j = 5 \/ j = 6
    BY <2>1
  <2> QED BY <1>3, <2>2
<1>4. ASSUME met # {} PROVE first \in met
  BY <1>3, <1>4
<1> HIDE DEF first
<1>5. CASE met = {}
  BY <1>2, <1>5
<1>6. CASE met # {}
  <2>1. first \in 1 .. 6 /\ ModelDriven(c) = list[first].name
    BY <1>1, <1>2, <1>4, <1>6
  <2> QED BY <1>1, <2>1
<1> QED BY <1>5, <1>6

LEMMA CriteriaStarts == CriteriaInit => CriteriaInv
<1> SUFFICES ASSUME CriteriaInit PROVE CriteriaInv
  OBVIOUS
<1>1. PICK k \in Leg, p \in Leg, e \in InitialEdges, known \in BOOLEAN :
         holding = [kalshi |-> k, polymarket |-> p, edge |-> e, closeKnown |-> known]
  BY DEF CriteriaInit
<1>2. lastVerdict = "none"
  BY DEF CriteriaInit
<1> QED BY <1>1, <1>2 DEF CriteriaInv, HoldingTyped, VerdictStands

LEMMA CriteriaStep == CriteriaInv /\ [CriteriaNext]_exitVars => CriteriaInv'
<1> SUFFICES ASSUME CriteriaInv, [CriteriaNext]_exitVars PROVE CriteriaInv'
  OBVIOUS
<1>1. ASSUME NEW k \in TickPrice, NEW p \in TickPrice, PricesMove(k, p) PROVE CriteriaInv'
  <2>1. HoldingTyped'
    BY <1>1 DEF PricesMove, CriteriaInv, HoldingTyped, Leg
  <2>2. lastVerdict' = "none"
    BY <1>1 DEF PricesMove
  <2> QED BY <2>1, <2>2 DEF CriteriaInv, VerdictStands
<1>2. ASSUME NEW mode, ReloadMode(mode) PROVE CriteriaInv'
  BY <1>2 DEF ReloadMode, CriteriaInv, HoldingTyped, VerdictStands
<1>3. ASSUME NEW c \in Context, EvaluateExit(c) PROVE CriteriaInv'
  <2>1. holding' = holding /\ lastVerdict' = IF exitMode = "model" THEN ModelDriven(c) ELSE Fixed(c)
    BY <1>3 DEF EvaluateExit
  <2>2. StopLoss' = StopLoss /\ TakeProfit' = TakeProfit
    BY <2>1 DEF StopLoss, TakeProfit, TakeProfitTarget10, JourneyTarget10, Pnl, Baseline, LegReturn, ScaledEdge
  <2>3. ModelDriven(c) \notin {"stop_loss", "take_profit"}
    BY ModelNames
  <2>4. /\ Fixed(c) = "stop_loss" => StopLoss
        /\ Fixed(c) = "take_profit" => TakeProfit
    BY DEF Fixed
  <2> QED BY <2>1, <2>2, <2>3, <2>4 DEF CriteriaInv, HoldingTyped, VerdictStands
<1>4. ASSUME UNCHANGED <<holding, lastVerdict>> PROVE CriteriaInv'
  BY <1>4 DEF CriteriaInv, HoldingTyped, VerdictStands, StopLoss, TakeProfit, TakeProfitTarget10,
     JourneyTarget10, Pnl, Baseline, LegReturn, ScaledEdge
<1>5. CASE EmitDailySummary \/ UNCHANGED exitVars
  BY <1>4, <1>5 DEF EmitDailySummary, exitVars
<1> QED BY <1>1, <1>2, <1>3, <1>5 DEF CriteriaNext

LEMMA CriteriaInvSound == CriteriaInv => ExitVerdictsSound
<1> SUFFICES ASSUME CriteriaInv PROVE EntryCostsAreNoVerdict /\ TakenProfitIsOne
  BY DEF ExitVerdictsSound
<1>1. TakenProfitIsOne
  BY ProfitIsOne DEF CriteriaInv, VerdictStands, TakenProfitIsOne
<1>2. EntryCostsAreNoVerdict
  <2> SUFFICES ASSUME \A leg \in Legs : AsEntered(leg), holding.closeKnown
               PROVE  lastVerdict \notin {"stop_loss", "take_profit"}
    BY DEF EntryCostsAreNoVerdict, AsEntered
  <2> QED BY EntryIsNoVerdict DEF CriteriaInv, VerdictStands
<1> QED BY <1>1, <1>2

(* For any prices, sizes, fees and edges: the costs of an entry alone are   *)
(* neither a loss to stop nor a profit to take, and a profit that is taken  *)
(* is above zero, however much the baseline outweighs the edge.             *)
THEOREM ExitVerdictsAlwaysSound == CriteriaSpec => []ExitVerdictsSound
<1> QED BY CriteriaStarts, CriteriaStep, CriteriaInvSound, PTL DEF CriteriaSpec

-----------------------------------------------------------------------------
(* The edge calculator: sides of a book.                                    *)

Quoted == [price : Nat \ {0}, qty : Nat \ {0}]
Side == {s \in Seq(Quoted) : s # <<>>}
Distinct(s) == \A i, j \in DOMAIN s : s[i].price = s[j].price => i = j
ByPrice(s, sign) == \A i, j \in DOMAIN s : i < j => sign * s[i].price <= sign * s[j].price

(* A side has a level, and every level a price and contracts.               *)
LEMMA SideShape ==
    ASSUME NEW s \in Side
    PROVE  /\ Len(s) \in Nat \ {0} /\ DOMAIN s = 1..Len(s) /\ IsFiniteSet(1..Len(s))
           /\ \A i \in 1..Len(s) : s[i].price \in Nat /\ s[i].qty \in Nat \ {0}
<1>0. s \in Seq(Quoted) /\ s # <<>>
  BY DEF Side
<1>1. Len(s) \in Nat \ {0} /\ DOMAIN s = 1..Len(s) /\ \A i \in 1..Len(s) : s[i] \in Quoted
  BY <1>0
<1>2. IsFiniteSet(1..Len(s))
  BY <1>1, FS_Interval
<1> QED BY <1>1, <1>2 DEF Quoted

(* The places number the levels in the order of their prices.               *)
LEMMA SortedByPrice ==
    ASSUME NEW s \in Side, Distinct(s), NEW sign \in {-1, 1}
    PROVE  /\ Sorted(s, sign) \in Side /\ Len(Sorted(s, sign)) = Len(s)
           /\ ByPrice(Sorted(s, sign), sign)
<1> DEFINE n == Len(s)
           lower(i) == {j \in 1..n : sign * s[j].price < sign * s[i].price}
           place == [i \in 1..n |-> Place(s, i, sign)]
           origin(k) == CHOOSE i \in 1..n : Place(s, i, sign) = k
           sorted == [k \in 1..n |-> s[origin(k)]]
<1>1. /\ n \in Nat \ {0} /\ DOMAIN s = 1..n /\ IsFiniteSet(1..n)
      /\ \A i \in 1..n : s[i].price \in Nat /\ s[i].qty \in Nat \ {0}
      /\ \A i \in 1..n : s[i] \in Quoted
  <2>1. s \in Seq(Quoted)
    BY DEF Side
  <2>2. \A i \in 1..n : s[i] \in Quoted
    BY <2>1
  <2> QED BY <2>2, SideShape
<1> HIDE DEF n
<1>2. \A i \in 1..n : Place(s, i, sign) = 1 + Cardinality(lower(i))
  BY <1>1 DEF Place
<1>3. \A i \in 1..n : IsFiniteSet(lower(i)) /\ Cardinality(lower(i)) \in Nat
  <2> SUFFICES ASSUME NEW i \in 1..n PROVE IsFiniteSet(lower(i)) /\ Cardinality(lower(i)) \in Nat
    OBVIOUS
  <2>1. lower(i) \subseteq 1..n
    OBVIOUS
  <2> HIDE DEF lower
  <2>2. IsFiniteSet(lower(i))
    BY <1>1, <2>1, FS_Subset
  <2> QED BY <2>2, FS_CardinalityType
<1>4. ASSUME NEW i \in 1..n, NEW j \in 1..n, sign * s[i].price < sign * s[j].price
      PROVE  Cardinality(lower(i)) < Cardinality(lower(j))
  <2>0. \A k \in 1..n : sign * s[k].price \in Int
    <3>1. ASSUME NEW x \in Nat PROVE sign * x \in Int
      <4>1. CASE sign = 1
        BY <4>1
      <4>2. CASE sign = -1
        BY <4>2
      <4> QED BY <4>1, <4>2
    <3>2. \A k \in 1..n : s[k].price \in Nat
      BY <1>1
    <3> QED BY <3>1, <3>2, Zenon
  <2>1. sign * s[i].price \in Int /\ sign * s[j].price \in Int /\ \A k \in 1..n : sign * s[k].price \in Int
    BY <2>0, Zenon
  <2>2. lower(i) \subseteq lower(j) /\ i \in lower(j) /\ i \notin lower(i)
    BY <1>4, <2>1
  <2> HIDE DEF lower
  <2>3. lower(i) # lower(j)
    BY <2>2
  <2>4. IsFiniteSet(lower(j))
    BY <1>3
  <2> QED BY <2>2, <2>3, <2>4, <1>3, FS_Subset
<1>5. \A i, j \in 1..n : i # j =>
         sign * s[i].price < sign * s[j].price \/ sign * s[j].price < sign * s[i].price
  <2> SUFFICES ASSUME NEW i \in 1..n, NEW j \in 1..n, i # j
               PROVE  sign * s[i].price < sign * s[j].price \/ sign * s[j].price < sign * s[i].price
    OBVIOUS
  <2>1. s[i].price # s[j].price /\ s[i].price \in Nat /\ s[j].price \in Nat
    BY <1>1 DEF Distinct
  <2>2. sign = 1 \/ sign = -1
    OBVIOUS
  <2> QED BY <2>1, <2>2
<1> HIDE DEF lower
<1>6. \A i, j \in 1..n : place[i] = place[j] => i = j
  <2> SUFFICES ASSUME NEW i \in 1..n, NEW j \in 1..n, place[i] = place[j], i # j PROVE FALSE
    OBVIOUS
  <2>1. Cardinality(lower(i)) = Cardinality(lower(j))
    BY <1>2, <1>3
  <2> QED BY <1>3, <1>4, <1>5, <2>1
<1>7. \A i \in 1..n : place[i] \in 1..n
  <2> SUFFICES ASSUME NEW i \in 1..n PROVE place[i] \in 1..n
    OBVIOUS
  <2>1. lower(i) \subseteq (1..n) \ {i}
    BY <1>1 DEF lower
  <2>2. IsFiniteSet((1..n) \ {i}) /\ Cardinality((1..n) \ {i}) = n - 1
    <3>1. Cardinality(1..n) = n
      <4>1. 1 <= n /\ 1 \in Int /\ n \in Int
        BY <1>1
      <4>2. Cardinality(1..n) = n - 1 + 1
        BY <4>1, FS_Interval
      <4> QED BY <4>1, <4>2
    <3> QED BY <1>1, <3>1, FS_RemoveElement, ZenonT(60)
  <2>3. Cardinality(lower(i)) <= n - 1
    BY <2>1, <2>2, FS_Subset
  <2> QED BY <1>1, <1>2, <1>3, <2>3
<1>8. {place[i] : i \in 1..n} = 1..n
  <2> DEFINE T == {place[i] : i \in 1..n}
  <2>1. T \subseteq 1..n
    BY <1>7
  <2> HIDE DEF place
  <2>2. Cardinality(T) = Cardinality(1..n)
    BY <1>1, <1>6, ImageCounted
  <2> HIDE DEF T
  <2>3. T = 1..n
    BY <1>1, <2>1, <2>2, FS_Subset
  <2> QED BY <2>3 DEF T
<1>9. \A k \in 1..n : origin(k) \in 1..n /\ Place(s, origin(k), sign) = k
  <2> SUFFICES ASSUME NEW k \in 1..n PROVE \E i \in 1..n : Place(s, i, sign) = k
    OBVIOUS
  <2> QED BY <1>8
<1> HIDE DEF origin, place
<1>10. sorted \in Seq(Quoted) /\ Len(sorted) = n /\ DOMAIN sorted = 1..n
  <2>1. sorted \in [1..n -> Quoted]
    BY <1>1, <1>9
  <2> HIDE DEF sorted
  <2>2. DOMAIN sorted = 1..n /\ n \in Nat
    BY <1>1, <2>1
  <2>3. sorted \in Seq(Quoted)
    BY <2>1, <2>2
  <2> QED BY <2>2, <2>3
<1>11. sorted # <<>>
  BY <1>1, <1>10
<1>12. ASSUME NEW i \in 1..n, NEW j \in 1..n, i < j
       PROVE  sign * sorted[i].price <= sign * sorted[j].price
  <2> DEFINE a == origin(i)
             b == origin(j)
  <2>1. a \in 1..n /\ b \in 1..n /\ Place(s, a, sign) = i /\ Place(s, b, sign) = j
    BY <1>9
  <2>2. sorted[i] = s[a] /\ sorted[j] = s[b]
    OBVIOUS
  <2> HIDE DEF a, b, sorted
  <2>3. Cardinality(lower(a)) < Cardinality(lower(b)) /\ a # b
    BY <1>2, <1>3, <1>12, <2>1
  <2>4. ~ (sign * s[b].price < sign * s[a].price)
    <3> SUFFICES ASSUME sign * s[b].price < sign * s[a].price PROVE FALSE
      OBVIOUS
    <3>1. Cardinality(lower(b)) < Cardinality(lower(a))
      BY <1>4, <2>1
    <3>2. Cardinality(lower(a)) \in Nat /\ Cardinality(lower(b)) \in Nat
      BY <1>3, <2>1
    <3> QED BY <2>3, <3>1, <3>2
  <2>5. sign * s[a].price < sign * s[b].price
    BY <1>5, <2>1, <2>3, <2>4
  <2>6. sign * s[a].price \in Int /\ sign * s[b].price \in Int
    BY <1>1, <2>1, SMTT(30)
  <2> QED BY <2>2, <2>5, <2>6
<1>13. Sorted(s, sign) = sorted
  BY <1>1 DEF Sorted, origin
<1> HIDE DEF sorted
<1> QED BY <1>1, <1>10, <1>11, <1>12, <1>13 DEF Side, ByPrice, n

-----------------------------------------------------------------------------
(* The walk. *)

LEMMA DepthSteps ==
    ASSUME NEW s \in Side
    PROVE  /\ DepthTo(s, 0) = 0
           /\ \A i \in 0..Len(s) : DepthTo(s, i) \in Nat
           /\ \A i \in 1..Len(s) : DepthTo(s, i) = DepthTo(s, i - 1) + s[i].qty
<1> DEFINE n == Len(s)
           upTo(i) == [j \in 1..i |-> s[j].qty]
<1>1. n \in Nat \ {0} /\ \A i \in 1..n : s[i].qty \in Nat \ {0}
  BY SideShape
<1> HIDE DEF n
<1>2. \A i \in 0..n : upTo(i) \in [1..i -> Nat] /\ IsFiniteSet(1..i)
  <2> SUFFICES ASSUME NEW i \in 0..n PROVE upTo(i) \in [1..i -> Nat] /\ IsFiniteSet(1..i)
    OBVIOUS
  <2>1. upTo(i) \in [1..i -> Nat]
    BY <1>1
  <2>2. IsFiniteSet(1..i)
    BY <1>1, FS_Interval
  <2> QED BY <2>1, <2>2
<1>3. \A i : DepthTo(s, i) = SumFunction(upTo(i))
  BY DEF DepthTo
<1>4. DepthTo(s, 0) = 0
  <2>1. upTo(0) \in [{} -> Int]
    OBVIOUS
  <2> HIDE DEF upTo
  <2> QED BY <1>3, <2>1, SumEmpty
<1>5. \A i \in 0..n : DepthTo(s, i) \in Nat
  <2> HIDE DEF upTo
  <2> QED BY <1>2, <1>3, SumNatural
<1>6. ASSUME NEW i \in 1..n PROVE DepthTo(s, i) = DepthTo(s, i - 1) + s[i].qty
  <2>1. (1..(i - 1)) \cup {i} = 1..i /\ i \notin 1..(i - 1) /\ i - 1 \in 0..n /\ i \in 0..n
    BY <1>1
  <2>2. upTo(i)[i] = s[i].qty /\ [y \in 1..(i - 1) |-> upTo(i)[y]] = upTo(i - 1)
    BY <1>1
  <2>3. upTo(i) \in [1..(i - 1 + 1) -> Int] /\ i - 1 \in Nat /\ i - 1 + 1 = i
    BY <1>1, <1>2, <2>1
  <2> HIDE DEF upTo
  <2>4. SumFunction(upTo(i)) = upTo(i)[i - 1 + 1] + SumFunction(upTo(i - 1))
    BY <2>2, <2>3, SumOfFirst
  <2>5. SumFunction(upTo(i)) = upTo(i)[i] + SumFunction(upTo(i - 1))
    BY <2>3, <2>4
  <2>6. DepthTo(s, i) = s[i].qty + DepthTo(s, i - 1)
    BY <1>3, <2>2, <2>5
  <2>7. DepthTo(s, i - 1) \in Nat /\ s[i].qty \in Nat
    BY <1>1, <1>5, <2>1
  <2> QED BY <2>6, <2>7
<1> QED BY <1>4, <1>5, <1>6 DEF n

LEMMA DepthGrows ==
    ASSUME NEW s \in Side, NEW i \in 0..Len(s), NEW j \in 0..Len(s), i <= j
    PROVE  DepthTo(s, i) <= DepthTo(s, j)
<1> DEFINE f == [k \in 1..j |-> s[k].qty]
           g == [k \in 1..i |-> s[k].qty]
<1>1. Len(s) \in Nat \ {0} /\ \A k \in 1..Len(s) : s[k].qty \in Nat \ {0}
  BY SideShape
<1>2. IsFiniteSet(1..j) /\ 1..i \in SUBSET (1..j)
  BY <1>1, FS_Interval
<1>3. f \in [1..j -> Int] /\ g \in [1..i -> Int] /\ (\A k \in 1..i : g[k] <= f[k])
      /\ (\A k \in (1..j) \ (1..i) : 0 <= f[k])
  BY <1>1
<1>4. DepthTo(s, j) = SumFunction(f) /\ DepthTo(s, i) = SumFunction(g)
  BY DEF DepthTo
<1> DEFINE D == 1..j
           E == 1..i
<1>5. IsFiniteSet(D) /\ E \in SUBSET D /\ f \in [D -> Int] /\ g \in [E -> Int]
      /\ (\A k \in E : g[k] <= f[k]) /\ (\A k \in D \ E : 0 <= f[k])
  BY <1>2, <1>3
<1> HIDE DEF f, g, D, E
<1>6. SumFunction(g) <= SumFunction(f)
  BY <1>5, SumMonotone
<1> QED BY <1>4, <1>6

LEMMA FillShape ==
    ASSUME NEW s \in Side, NEW wanted \in Nat, NEW i \in 1..Len(s)
    PROVE  LET fill == FillAt(s, i, wanted) IN
           /\ fill \in Nat /\ fill <= s[i].qty
           /\ DepthTo(s, i) <= wanted => fill = s[i].qty
           /\ wanted <= DepthTo(s, i - 1) => fill = 0
           /\ DepthTo(s, i - 1) <= wanted /\ wanted <= DepthTo(s, i) => fill = wanted - DepthTo(s, i - 1)
<1> DEFINE q == s[i].qty
           before == DepthTo(s, i - 1)
           left == Max({0, wanted - before})
<1>1. q \in Nat \ {0} /\ before \in Nat /\ DepthTo(s, i) = before + q
  <2>1. Len(s) \in Nat \ {0} /\ q \in Nat \ {0} /\ i - 1 \in 0..Len(s)
    BY SideShape
  <2> QED BY <2>1, DepthSteps
<1> HIDE DEF q, before
<1>2. left \in {0, wanted - before} /\ left >= 0 /\ left >= wanted - before /\ left \in Int
  <2>1. 0 \in Int /\ wanted - before \in Int
    BY <1>1
  <2> QED BY <2>1, MaxOfTwo
<1>3. FillAt(s, i, wanted) = Min({q, left})
  BY DEF FillAt, q, before
<1> HIDE DEF left
<1>4. Min({q, left}) \in {q, left} /\ Min({q, left}) <= q /\ Min({q, left}) <= left
  <2>1. q \in Nat /\ left \in Nat
    BY <1>1, <1>2
  <2> QED BY <2>1, MinOfTwo
<1>5. FillAt(s, i, wanted) \in {q, left} /\ FillAt(s, i, wanted) <= q /\ FillAt(s, i, wanted) <= left
  BY <1>3, <1>4
<1> HIDE DEF FillAt
<1> QED BY <1>1, <1>2, <1>5 DEF q, before

LEMMA FillsTyped ==
    ASSUME NEW s \in Side, NEW wanted \in Nat
    PROVE  [i \in 1..Len(s) |-> FillAt(s, i, wanted)] \in [1..Len(s) -> Nat]
BY FillShape

LEMMA FillsAddUp ==
    ASSUME NEW s \in Side, NEW wanted \in Nat
    PROVE  /\ SumFunction([i \in 1..Len(s) |-> FillAt(s, i, wanted)]) = Filled(s, wanted)
           /\ Filled(s, wanted) \in Nat /\ Filled(s, wanted) <= wanted
           /\ Filled(s, wanted) <= Depth(s) /\ Depth(s) \in Nat
           /\ Filled(s, wanted) \in {wanted, Depth(s)}
<1> DEFINE n == Len(s)
           upTo(k) == [i \in 1..k |-> FillAt(s, i, wanted)]
           most(k) == IF wanted <= DepthTo(s, k) THEN wanted ELSE DepthTo(s, k)
           H == {k \in Nat : k <= n => SumFunction(upTo(k)) = most(k)}
<1>1. n \in Nat \ {0} /\ \A k \in 0..n : DepthTo(s, k) \in Nat
  BY SideShape, DepthSteps
<1>2. 0 \in H
  <2>1. upTo(0) \in [{} -> Int]
    OBVIOUS
  <2> HIDE DEF upTo
  <2>2. SumFunction(upTo(0)) = 0
    BY <2>1, SumEmpty
  <2>3. DepthTo(s, 0) = 0
    BY DepthSteps
  <2> QED BY <2>2, <2>3
<1>3. ASSUME NEW k \in Nat, k \in H PROVE k + 1 \in H
  <2> SUFFICES ASSUME k + 1 <= n PROVE SumFunction(upTo(k + 1)) = most(k + 1)
    OBVIOUS
  <2>1. SumFunction(upTo(k)) = most(k) /\ k + 1 \in 1..n /\ k \in 0..n /\ k + 1 - 1 = k /\ k + 1 \in 0..n
    BY <1>1, <1>3
  <2>2. /\ (1..k) \cup {k + 1} = 1..(k + 1) /\ k + 1 \notin 1..k
        /\ [y \in 1..k |-> upTo(k + 1)[y]] = upTo(k) /\ upTo(k + 1)[k + 1] = FillAt(s, k + 1, wanted)
    OBVIOUS
  <2>3. upTo(k + 1) \in [1..(k + 1) -> Int]
    <3>1. \A i \in 1..(k + 1) : FillAt(s, i, wanted) \in Int
      <4> SUFFICES ASSUME NEW i \in 1..(k + 1) PROVE FillAt(s, i, wanted) \in Int
        OBVIOUS
      <4>1. i \in 1..Len(s)
        BY <1>1, <2>1
      <4>2. FillAt(s, i, wanted) \in Nat
        BY <4>1, FillShape
      <4> QED BY <4>2
    <3> QED BY <2>2, <3>1
  <2>4. IsFiniteSet(1..k)
    BY FS_Interval
  <2>5. LET fill == FillAt(s, k + 1, wanted) IN
        /\ fill \in Nat /\ fill <= s[k + 1].qty
        /\ DepthTo(s, k + 1) <= wanted => fill = s[k + 1].qty
        /\ wanted <= DepthTo(s, k) => fill = 0
        /\ DepthTo(s, k) <= wanted /\ wanted <= DepthTo(s, k + 1) => fill = wanted - DepthTo(s, k)
    <3>j. PICK j : j = k + 1
      OBVIOUS
    <3>1. j \in 1..Len(s) /\ j - 1 = k
      BY <2>1, <3>j
    <3>2. LET fill == FillAt(s, j, wanted) IN
          /\ fill \in Nat /\ fill <= s[j].qty
          /\ DepthTo(s, j) <= wanted => fill = s[j].qty
          /\ wanted <= DepthTo(s, j - 1) => fill = 0
          /\ DepthTo(s, j - 1) <= wanted /\ wanted <= DepthTo(s, j) => fill = wanted - DepthTo(s, j - 1)
      BY <3>1, FillShape, Zenon
    <3> QED BY <3>1, <3>2, <3>j, Zenon
  <2>6. DepthTo(s, k + 1) = DepthTo(s, k) + s[k + 1].qty /\ s[k + 1].qty \in Nat /\ DepthTo(s, k) \in Nat
        /\ DepthTo(s, k + 1) \in Nat
    <3>1. s[k + 1].qty \in Nat
      BY <2>1, SideShape
    <3>2. \A i \in 1..n : DepthTo(s, i) = DepthTo(s, i - 1) + s[i].qty
      BY DepthSteps
    <3>j. PICK j : j = k + 1
      OBVIOUS
    <3>3. j \in 1..n /\ j - 1 = k
      BY <2>1, <3>j
    <3>4. DepthTo(s, j) = DepthTo(s, j - 1) + s[j].qty
      BY <3>2, <3>3, Zenon
    <3>5. DepthTo(s, j) = DepthTo(s, k) + s[j].qty
      BY <3>3, <3>4, Zenon
    <3>6. DepthTo(s, k) \in Nat /\ DepthTo(s, k + 1) \in Nat
      BY <1>1, <2>1, Zenon
    <3> QED BY <3>1, <3>5, <3>6, <3>j, Zenon
  <2> HIDE DEF upTo
  <2>7. SumFunction(upTo(k + 1)) = FillAt(s, k + 1, wanted) + SumFunction(upTo(k))
    <3>1. SumFunction(upTo(k + 1)) = upTo(k + 1)[k + 1] + SumFunction(upTo(k))
      <4>1. upTo(k) = [y \in 1..k |-> upTo(k + 1)[y]]
        BY <2>2
      <4> QED BY <2>3, <4>1, SumOfFirst, ZenonT(30)
    <3> QED BY <2>2, <3>1, Zenon
  <2>8. FillAt(s, k + 1, wanted) + most(k) = most(k + 1)
    <3>p. PICK fill, qty, from, upto : /\ fill = FillAt(s, k + 1, wanted) /\ qty = s[k + 1].qty
                                       /\ from = DepthTo(s, k) /\ upto = DepthTo(s, k + 1)
      OBVIOUS
    <3>1. /\ fill \in Nat /\ fill <= qty
          /\ upto <= wanted => fill = qty
          /\ wanted <= from => fill = 0
          /\ from <= wanted /\ wanted <= upto => fill = wanted - from
      BY <2>5, <3>p, Zenon
    <3>2. upto = from + qty /\ qty \in Nat /\ from \in Nat /\ upto \in Nat
      BY <2>6, <3>p, Zenon
    <3>3. most(k) = (IF wanted <= from THEN wanted ELSE from)
          /\ most(k + 1) = IF wanted <= upto THEN wanted ELSE upto
      BY <3>p, Zenon
    <3> HIDE DEF most
    <3>4. fill + (IF wanted <= from THEN wanted ELSE from) = IF wanted <= upto THEN wanted ELSE upto
      BY <3>1, <3>2
    <3> QED BY <3>3, <3>4, <3>p, Zenon
  <2> HIDE DEF most
  <2> QED BY <2>1, <2>7, <2>8
<1>4. n \in H
  <2> HIDE DEF H
  <2> QED BY <1>1, <1>2, <1>3, NatInductionOnSets
<1>5. /\ Depth(s) = DepthTo(s, n) /\ Depth(s) \in Nat
      /\ Filled(s, wanted) \in {wanted, Depth(s)} /\ Filled(s, wanted) <= wanted
      /\ Filled(s, wanted) <= Depth(s)
  <2>1. Depth(s) = DepthTo(s, n) /\ Depth(s) \in Nat
    BY <1>1 DEF Depth
  <2>2. Min({wanted, Depth(s)}) \in {wanted, Depth(s)} /\ Min({wanted, Depth(s)}) <= wanted
        /\ Min({wanted, Depth(s)}) <= Depth(s)
    BY <2>1, MinOfTwo
  <2> QED BY <2>1, <2>2 DEF Filled
<1>6. Filled(s, wanted) = most(n)
  <2> HIDE DEF n
  <2> QED BY <1>5
<1> QED BY <1>1, <1>4, <1>5, <1>6

LEMMA FillMore ==
    ASSUME NEW s \in Side, NEW few \in Nat, NEW many \in Nat, few <= many, NEW i \in 1..Len(s)
    PROVE  FillAt(s, i, few) <= FillAt(s, i, many)
<1>1. /\ DepthTo(s, i - 1) \in Nat /\ DepthTo(s, i) \in Nat /\ s[i].qty \in Nat
      /\ DepthTo(s, i) = DepthTo(s, i - 1) + s[i].qty
  <2>1. Len(s) \in Nat /\ s[i].qty \in Nat
    BY SideShape
  <2>2. i - 1 \in 0..Len(s) /\ i \in 0..Len(s)
    BY <2>1
  <2> QED BY <2>1, <2>2, DepthSteps
<1>2. LET fill == FillAt(s, i, few) IN
      /\ fill \in Nat /\ fill <= s[i].qty
      /\ DepthTo(s, i) <= few => fill = s[i].qty
      /\ few <= DepthTo(s, i - 1) => fill = 0
      /\ DepthTo(s, i - 1) <= few /\ few <= DepthTo(s, i) => fill = few - DepthTo(s, i - 1)
  BY FillShape
<1>3. LET fill == FillAt(s, i, many) IN
      /\ fill \in Nat /\ fill <= s[i].qty
      /\ DepthTo(s, i) <= many => fill = s[i].qty
      /\ many <= DepthTo(s, i - 1) => fill = 0
      /\ DepthTo(s, i - 1) <= many /\ many <= DepthTo(s, i) => fill = many - DepthTo(s, i - 1)
  BY FillShape
<1> QED BY <1>1, <1>2, <1>3

(* The walk ends at one level: those before it are taken whole, those       *)
(* behind it are left alone.                                                *)
LEMMA LastLevel ==
    ASSUME NEW s \in Side, NEW wanted \in Nat
    PROVE  \E m \in 1..Len(s) : \A i \in 1..Len(s) :
              /\ i < m => FillAt(s, i, wanted) = s[i].qty
              /\ i > m => FillAt(s, i, wanted) = 0
<1> DEFINE n == Len(s)
           used == {i \in 1..n : DepthTo(s, i) < wanted}
           Ends(m) == /\ \A i \in 1..n : i < m => DepthTo(s, i) <= wanted
                      /\ \A i \in 1..n : i > m => wanted <= DepthTo(s, i - 1)
<1>1. n \in Nat \ {0} /\ \A i \in 0..n : DepthTo(s, i) \in Nat
  BY SideShape, DepthSteps
<1>2. \A i \in 1..n : i \notin used => wanted <= DepthTo(s, i)
  <2> SUFFICES ASSUME NEW i \in 1..n, i \notin used PROVE wanted <= DepthTo(s, i)
    OBVIOUS
  <2>1. ~ (DepthTo(s, i) < wanted) /\ i \in 0..n
    BY <1>1
  <2>2. DepthTo(s, i) \in Nat
    BY <1>1, <2>1
  <2> QED BY <2>1, <2>2
<1>3. \A i, j \in 1..n : i <= j /\ j \in used => DepthTo(s, i) <= wanted
  <2> SUFFICES ASSUME NEW i \in 1..n, NEW j \in 1..n, i <= j, j \in used PROVE DepthTo(s, i) <= wanted
    OBVIOUS
  <2>1. i \in 0..Len(s) /\ j \in 0..Len(s) /\ DepthTo(s, j) < wanted
    BY <1>1
  <2>2. DepthTo(s, i) <= DepthTo(s, j)
    BY <2>1, DepthGrows
  <2>3. DepthTo(s, i) \in Nat /\ DepthTo(s, j) \in Nat
    BY <1>1, <2>1
  <2> QED BY <2>1, <2>2, <2>3
<1>4. used \in SUBSET (1..n)
  OBVIOUS
<1> HIDE DEF used, n
<1>5. \E m \in 1..n : Ends(m)
  <2>1. CASE used = {}
    <3>1. Ends(1)
      <4>1. ASSUME NEW i \in 1..n, i > 1 PROVE wanted <= DepthTo(s, i - 1)
        <5>1. i - 1 \in 1..n
          BY <1>1, <4>1
        <5> QED BY <1>2, <2>1, <5>1
      <4> QED BY <1>1, <4>1
    <3> QED BY <1>1, <3>1
  <2>2. CASE used # {}
    <3>1. PICK top \in used : \A y \in used : top >= y
      <4>1. Max(used) \in used /\ \A y \in used : Max(used) >= y
        BY <1>1, <1>4, <2>2, MaxOfSet
      <4> QED BY <4>1
    <3>2. top \in 1..n
      BY <1>4
    <3>3. CASE top = n
      <4>1. Ends(n)
        BY <1>1, <1>3, <3>3, <3>2
      <4> QED BY <1>1, <4>1
    <3>4. CASE top # n
      <4>1. top + 1 \in 1..n
        BY <1>1, <3>2, <3>4
      <4>2. \A i \in 1..n : i < top + 1 => DepthTo(s, i) <= wanted
        BY <1>1, <1>3, <3>2
      <4>3. ASSUME NEW i \in 1..n, i > top + 1 PROVE wanted <= DepthTo(s, i - 1)
        <5>1. i - 1 \in 1..n /\ i - 1 \notin used
          BY <1>1, <3>1, <3>2, <4>3
        <5> QED BY <1>2, <5>1
      <4> QED BY <4>1, <4>2, <4>3
    <3> QED BY <3>3, <3>4
  <2> QED BY <2>1, <2>2
<1>6. PICK m \in 1..n : Ends(m)
  BY <1>5
<1>7. ASSUME NEW i \in 1..n
      PROVE  /\ i < m => FillAt(s, i, wanted) = s[i].qty
             /\ i > m => FillAt(s, i, wanted) = 0
  <2>1. LET fill == FillAt(s, i, wanted) IN
        /\ DepthTo(s, i) <= wanted => fill = s[i].qty
        /\ wanted <= DepthTo(s, i - 1) => fill = 0
    BY FillShape DEF n
  <2> QED BY <1>6, <2>1
<1> QED BY <1>6, <1>7 DEF n

(* What is taken more where the price is above c, and less where it is      *)
(* below, costs c each at least.                                            *)
LEMMA Exchange ==
    ASSUME NEW D, IsFiniteSet(D), NEW f \in [D -> Int], NEW t \in [D -> Int], NEW p \in [D -> Int],
           NEW c \in Int, \A i \in D : (t[i] - f[i]) * (p[i] - c) >= 0
    PROVE  /\ SumFunction(f) \in Int /\ SumFunction(t) \in Int
           /\ SumFunction([i \in D |-> f[i] * p[i]]) \in Int
           /\ SumFunction([i \in D |-> t[i] * p[i]]) \in Int
           /\ SumFunction([i \in D |-> f[i] * p[i]]) + c * (SumFunction(t) - SumFunction(f))
                 <= SumFunction([i \in D |-> t[i] * p[i]])
<1> DEFINE fp == [i \in D |-> f[i] * p[i]]
           tp == [i \in D |-> t[i] * p[i]]
           more == [i \in D |-> t[i] - f[i]]
           dear == [i \in D |-> tp[i] - fp[i]]
           ground == [i \in D |-> c * more[i]]
           rest == [i \in D |-> dear[i] - ground[i]]
<1>1. \A i \in D : f[i] \in Int /\ t[i] \in Int /\ p[i] \in Int
  OBVIOUS
<1>2. \A i \in D : f[i] * p[i] \in Int /\ t[i] * p[i] \in Int /\ c * (t[i] - f[i]) \in Int
  BY <1>1
<1>3. fp \in [D -> Int] /\ tp \in [D -> Int] /\ more \in [D -> Int]
  BY <1>1, <1>2
<1>4. /\ \A i \in D : fp[i] = f[i] * p[i] /\ tp[i] = t[i] * p[i] /\ more[i] = t[i] - f[i]
      /\ \A i \in D : dear[i] = tp[i] - fp[i] /\ ground[i] = c * more[i] /\ rest[i] = dear[i] - ground[i]
  OBVIOUS
<1> HIDE DEF fp, tp, more
<1>5. dear \in [D -> Int] /\ ground \in [D -> Int]
  BY <1>3
<1> HIDE DEF dear, ground
<1>6. rest \in [D -> Int]
  BY <1>5
<1> HIDE DEF rest
<1>7. \A i \in D : rest[i] >= 0
  <2> SUFFICES ASSUME NEW i \in D PROVE rest[i] >= 0
    OBVIOUS
  <2>1. rest[i] = (t[i] * p[i] - f[i] * p[i]) - c * (t[i] - f[i])
    BY <1>4
  <2>2. (t[i] - f[i]) * (p[i] - c) >= 0
    OBVIOUS
  <2>3. (t[i] - f[i]) * (p[i] - c) = (t[i] * p[i] - f[i] * p[i]) - c * (t[i] - f[i])
    BY <1>1
  <2> QED BY <2>1, <2>2, <2>3
<1>8. SumFunction(rest) >= 0
  BY <1>6, <1>7, SumAboveZero
<1>9. SumFunction(rest) = SumFunction(dear) - SumFunction(ground)
  <2>1. \A i \in D : rest[i] = dear[i] - ground[i]
    BY <1>4
  <2> QED BY <1>5, <1>6, <2>1, SumDifference
<1>10. SumFunction(dear) = SumFunction(tp) - SumFunction(fp)
  <2>1. \A i \in D : dear[i] = tp[i] - fp[i]
    BY <1>4
  <2> QED BY <1>3, <1>5, <2>1, SumDifference
<1>11. SumFunction(more) = SumFunction(t) - SumFunction(f)
  BY <1>3, <1>4, SumDifference, SMTT(30)
<1>12. SumFunction(ground) = c * SumFunction(more)
  <2>1. \A i \in D : ground[i] = c * more[i]
    BY <1>4
  <2>2. IsFiniteSet(D) /\ more \in [D -> Int] /\ ground \in [D -> Int] /\ c \in Int
    BY <1>3, <1>5
  <2> QED BY <2>1, <2>2, SumScaled
<1>13. /\ SumFunction(f) \in Int /\ SumFunction(t) \in Int /\ SumFunction(fp) \in Int
       /\ SumFunction(tp) \in Int
  BY <1>3, SumInteger
<1>14. SumFunction(fp) + c * (SumFunction(t) - SumFunction(f)) <= SumFunction(tp)
  <2>1. c * (SumFunction(t) - SumFunction(f)) \in Int
    BY <1>13
  <2> QED BY <1>8, <1>9, <1>10, <1>11, <1>12, <1>13, <2>1
<1> QED BY <1>13, <1>14 DEF fp, tp

LEMMA Scaling ==
    ASSUME NEW x \in Int, NEW y \in Int, NEW z \in Int, x <= y, z >= 0
    PROVE  x * z <= y * z
<1>1. (y - x) * z >= 0
  <2>1. y - x >= 0 /\ y - x \in Int
    OBVIOUS
  <2> QED BY <2>1
<1>2. (y - x) * z = y * z - x * z
  OBVIOUS
<1> QED BY <1>1, <1>2

LEMMA Unscaling ==
    ASSUME NEW x \in Int, NEW y \in Int, NEW z \in Int, z > 0, x * z <= y * z
    PROVE  x <= y
<1>1. ASSUME x > y PROVE FALSE
  <2>1. (x - y) * z > 0
    <3>1. x - y > 0 /\ x - y \in Int
      BY <1>1
    <3> QED BY <3>1
  <2>2. (x - y) * z = x * z - y * z
    OBVIOUS
  <2> QED BY <2>1, <2>2
<1> QED BY <1>1

LEMMA PriceShape ==
    ASSUME NEW s \in Side, NEW t \in [1..Len(s) -> Nat]
    PROVE  /\ Price(s, t) \in Nat
           /\ \A sign \in Int :
                 SumFunction([i \in 1..Len(s) |-> t[i] * (sign * s[i].price)]) = sign * Price(s, t)
<1>1. PICK D : D = 1..Len(s)
  OBVIOUS
<1>2. DOMAIN s = D /\ IsFiniteSet(D) /\ \A i \in D : s[i].price \in Nat
  BY <1>1, SideShape
<1>3. \A i \in D : t[i] \in Nat
  BY <1>1
<1>4. \A i \in D : t[i] * s[i].price \in Nat
  BY <1>2, <1>3
<1>5. PICK plain \in [D -> Nat] : plain = [i \in D |-> t[i] * s[i].price]
  <2>1. [i \in D |-> t[i] * s[i].price] \in [D -> Nat]
    BY <1>4
  <2> QED BY <2>1
<1>6. Price(s, t) = SumFunction(plain)
  BY <1>2, <1>5 DEF Price
<1>7. SumFunction(plain) \in Nat
  BY <1>2, SumNatural
<1>8. ASSUME NEW sign \in Int
      PROVE  SumFunction([i \in D |-> t[i] * (sign * s[i].price)]) = sign * SumFunction(plain)
  <2>1. \A i \in D : /\ t[i] * (sign * s[i].price) = sign * (t[i] * s[i].price)
                     /\ t[i] * (sign * s[i].price) \in Int
    BY <1>2, <1>3
  <2>2. PICK signed \in [D -> Int] : signed = [i \in D |-> t[i] * (sign * s[i].price)]
    <3>1. [i \in D |-> t[i] * (sign * s[i].price)] \in [D -> Int]
      BY <2>1
    <3> QED BY <3>1
  <2>3. \A i \in D : signed[i] = sign * plain[i]
    BY <1>5, <2>1, <2>2
  <2>4. plain \in [D -> Int]
    OBVIOUS
  <2>5. SumFunction(signed) = sign * SumFunction(plain)
    BY <1>2, <2>3, <2>4, SumScaled
  <2> QED BY <2>2, <2>5
<1> QED BY <1>1, <1>6, <1>7, <1>8

Fills(s, wanted) == [i \in 1..Len(s) |-> FillAt(s, i, wanted)]

LEMMA CostIsPrice ==
    ASSUME NEW s \in Side, NEW wanted \in Nat
    PROVE  Cost(s, wanted) = Price(s, Fills(s, wanted)) /\ Cost(s, wanted) \in Nat
<1>1. DOMAIN s = 1..Len(s)
  BY SideShape
<1>2. Cost(s, wanted) = Price(s, Fills(s, wanted))
  BY <1>1 DEF Cost, Price, Fills
<1>3. Fills(s, wanted) \in [1..Len(s) -> Nat]
  BY FillsTyped DEF Fills
<1> QED BY <1>2, <1>3, PriceShape

(* Takings that exceed the walk only behind its last level and fall short   *)
(* of it only before, priced against that level.                            *)
LEMMA Shifted ==
    ASSUME NEW s \in Side, NEW sign \in {-1, 1}, ByPrice(s, sign), NEW wanted \in Nat,
           NEW m \in 1..Len(s), NEW t \in [1..Len(s) -> Nat],
           \A i \in 1..Len(s) : /\ i < m => t[i] <= FillAt(s, i, wanted)
                                /\ i > m => t[i] >= FillAt(s, i, wanted)
    PROVE  sign * Cost(s, wanted) + (sign * s[m].price) * (SumFunction(t) - Filled(s, wanted))
              <= sign * Price(s, t)
<1> DEFINE D == 1..Len(s)
           f == Fills(s, wanted)
           p == [i \in D |-> sign * s[i].price]
           c == sign * s[m].price
<1>1. /\ Len(s) \in Nat \ {0} /\ DOMAIN s = D /\ IsFiniteSet(D)
      /\ \A i \in D : s[i].price \in Nat /\ sign * s[i].price \in Int
  BY SideShape
<1>2. f \in [D -> Nat] /\ f \in [D -> Int] /\ t \in [D -> Int] /\ \A i \in D : f[i] = FillAt(s, i, wanted)
  <2>1. f \in [D -> Nat] /\ \A i \in D : f[i] = FillAt(s, i, wanted)
    BY FillsTyped DEF Fills
  <2> HIDE DEF f
  <2> QED BY <2>1
<1>3. p \in [D -> Int] /\ c \in Int /\ p[m] = c
  BY <1>1
<1>4. \A i \in D : p[i] = sign * s[i].price /\ p[i] \in Int /\ t[i] \in Nat /\ f[i] \in Nat
  BY <1>1, <1>2
<1>5. \A i \in D : (i < m => p[i] <= c) /\ (i > m => p[i] >= c)
  BY <1>1 DEF ByPrice
<1>6. SumFunction(f) = Filled(s, wanted)
  BY FillsAddUp DEF Fills
<1>7. SumFunction([i \in D |-> f[i] * p[i]]) = sign * Cost(s, wanted)
  <2>1. [i \in D |-> f[i] * p[i]] = [i \in D |-> f[i] * (sign * s[i].price)]
    BY <1>4
  <2>2. SumFunction([i \in D |-> f[i] * (sign * s[i].price)]) = sign * Price(s, f)
    <3>1. \A k \in Int : SumFunction([i \in D |-> f[i] * (k * s[i].price)]) = k * Price(s, f)
      BY <1>2, PriceShape
    <3>2. sign \in Int
      OBVIOUS
    <3> QED BY <3>1, <3>2
  <2> QED BY <2>1, <2>2, CostIsPrice
<1>8. SumFunction([i \in D |-> t[i] * p[i]]) = sign * Price(s, t)
  <2>1. [i \in D |-> t[i] * p[i]] = [i \in D |-> t[i] * (sign * s[i].price)]
    BY <1>4
  <2>2. SumFunction([i \in D |-> t[i] * (sign * s[i].price)]) = sign * Price(s, t)
    <3>1. \A k \in Int : SumFunction([i \in D |-> t[i] * (k * s[i].price)]) = k * Price(s, t)
      BY PriceShape
    <3>2. sign \in Int
      OBVIOUS
    <3> QED BY <3>1, <3>2
  <2> QED BY <2>1, <2>2
<1> HIDE DEF f, p, c
<1>9. \A i \in D : (t[i] - f[i]) * (p[i] - c) >= 0
  <2> SUFFICES ASSUME NEW i \in D PROVE (t[i] - f[i]) * (p[i] - c) >= 0
    OBVIOUS
  <2> DEFINE x == t[i] - f[i]
             y == p[i] - c
  <2>1. x \in Int /\ y \in Int
    BY <1>3, <1>4
  <2>2. (x <= 0 /\ y <= 0) \/ y = 0 \/ (x >= 0 /\ y >= 0)
    <3>1. i < m \/ i = m \/ i > m
      BY <1>1
    <3>2. CASE i < m
      BY <1>2, <1>3, <1>4, <1>5, <3>2
    <3>3. CASE i = m
      BY <1>3, <3>3
    <3>4. CASE i > m
      BY <1>2, <1>3, <1>4, <1>5, <3>4
    <3> QED BY <3>1, <3>2, <3>3, <3>4
  <2> HIDE DEF x, y
  <2>3. x * y >= 0
    BY <2>1, <2>2
  <2> QED BY <2>3 DEF x, y
<1>10. SumFunction([i \in D |-> f[i] * p[i]]) + c * (SumFunction(t) - SumFunction(f))
          <= SumFunction([i \in D |-> t[i] * p[i]])
  <2> HIDE DEF D
  <2>1. IsFiniteSet(D) /\ f \in [D -> Int] /\ t \in [D -> Int] /\ p \in [D -> Int] /\ c \in Int
    BY <1>1, <1>2, <1>3
  <2> QED BY <1>9, <2>1, Exchange
<1> QED BY <1>6, <1>7, <1>8, <1>10 DEF c

(* No way of taking as many contracts beats the walk.                       *)
LEMMA BestWalk ==
    ASSUME NEW s \in Side, NEW sign \in {-1, 1}, ByPrice(s, sign), NEW wanted \in Nat,
           NEW t \in [1..Len(s) -> Nat], \A i \in 1..Len(s) : t[i] <= s[i].qty,
           SumFunction(t) = Filled(s, wanted)
    PROVE  sign * Cost(s, wanted) <= sign * Price(s, t)
<1>1. PICK m \in 1..Len(s) : \A i \in 1..Len(s) :
              /\ i < m => FillAt(s, i, wanted) = s[i].qty
              /\ i > m => FillAt(s, i, wanted) = 0
  BY LastLevel
<1>2. \A i \in 1..Len(s) : /\ i < m => t[i] <= FillAt(s, i, wanted)
                           /\ i > m => t[i] >= FillAt(s, i, wanted)
  BY <1>1
<1>3. sign * Cost(s, wanted) + (sign * s[m].price) * (SumFunction(t) - Filled(s, wanted))
              <= sign * Price(s, t)
  BY <1>2, Shifted
<1>4. SumFunction(t) - Filled(s, wanted) = 0 /\ sign * s[m].price \in Int
  <2>1. Filled(s, wanted) \in Nat
    BY FillsAddUp
  <2>2. s[m].price \in Nat
    BY SideShape
  <2> QED BY <2>1, <2>2
<1>5. Cost(s, wanted) \in Nat /\ Price(s, t) \in Nat
  BY CostIsPrice, PriceShape
<1>6. sign * Cost(s, wanted) \in Int
  BY <1>5
<1> QED BY <1>3, <1>4, <1>6

(* The more contracts are walked for, the worse they are priced on average. *)
LEMMA AverageWorsens ==
    ASSUME NEW s \in Side, NEW sign \in {-1, 1}, ByPrice(s, sign),
           NEW few \in Nat, NEW many \in Nat, few <= many
    PROVE  sign * Cost(s, few) * Filled(s, many) <= sign * Cost(s, many) * Filled(s, few)
<1> DEFINE D == 1..Len(s)
           none == [i \in D |-> 0]
           f == Fills(s, few)
           g == Fills(s, many)
           F == Filled(s, few)
           G == Filled(s, many)
           x == sign * Cost(s, few)
           y == sign * Cost(s, many)
<1>1. PICK m \in D : \A i \in D :
              /\ i < m => FillAt(s, i, few) = s[i].qty
              /\ i > m => FillAt(s, i, few) = 0
  BY LastLevel
<1> DEFINE c == sign * s[m].price
<1>2. f \in [D -> Nat] /\ g \in [D -> Nat] /\ none \in [D -> Nat]
  BY FillsTyped DEF Fills
<1>3. \A i \in D : f[i] <= g[i] /\ f[i] = FillAt(s, i, few) /\ g[i] = FillAt(s, i, many) /\ g[i] <= s[i].qty
  BY FillMore, FillShape DEF Fills
<1>4. SumFunction(f) = F /\ SumFunction(g) = G /\ F \in Nat /\ G \in Nat
  BY FillsAddUp DEF Fills
<1>5. x \in Int /\ y \in Int /\ c \in Int /\ Cost(s, few) \in Nat /\ Cost(s, many) \in Nat
  <2>1. Cost(s, few) \in Nat /\ Cost(s, many) \in Nat
    BY CostIsPrice
  <2>2. s[m].price \in Nat
    BY SideShape
  <2> QED BY <2>1, <2>2
<1>6. x + c * (G - F) <= y
  <2>1. \A i \in D : /\ i < m => g[i] <= FillAt(s, i, few)
                     /\ i > m => g[i] >= FillAt(s, i, few)
    BY <1>1, <1>3
  <2>2. sign * Cost(s, few) + (sign * s[m].price) * (SumFunction(g) - Filled(s, few)) <= sign * Price(s, g)
    BY <1>2, <2>1, Shifted
  <2> QED BY <1>4, <2>2, CostIsPrice
<1>7. x <= c * F
  <2>1. \A i \in D : /\ i < m => none[i] <= FillAt(s, i, few)
                     /\ i > m => none[i] >= FillAt(s, i, few)
    <3>1. \A i \in D : f[i] \in Nat
      BY <1>2
    <3> QED BY <1>1, <1>3, <3>1
  <2>2. sign * Cost(s, few) + (sign * s[m].price) * (SumFunction(none) - Filled(s, few)) <= sign * Price(s, none)
    <3> HIDE DEF none
    <3> QED BY <1>2, <2>1, Shifted
  <2>3. IsFiniteSet(D) /\ DOMAIN s = D /\ \A i \in D : s[i].price \in Nat
    BY SideShape
  <2>4. none \in [D -> Int] /\ \A i \in D : none[i] = 0 * none[i]
    OBVIOUS
  <2>5. SumFunction(none) = 0 /\ Price(s, none) = 0
    <3>1. SumFunction(none) = 0 * SumFunction(none) /\ SumFunction(none) \in Int
      <4> HIDE DEF none, D
      <4>1. SumFunction(none) \in Int
        BY <2>3, <2>4, SumInteger
      <4> QED BY <2>3, <2>4, <4>1, SumScaled
    <3>2. [i \in DOMAIN s |-> none[i] * s[i].price] = none
      BY <2>3
    <3>3. Price(s, none) = SumFunction(none)
      BY <3>2 DEF Price
    <3> QED BY <3>1, <3>3
  <2>6. x + c * (0 - F) <= sign * 0
    BY <2>2, <2>5
  <2> HIDE DEF c, F, x
  <2>7. c * (0 - F) = - (c * F) /\ c * F \in Int /\ sign * 0 = 0
    BY <1>4, <1>5
  <2> QED BY <1>5, <2>6, <2>7
<1>8. F <= G
  <2>1. F \in {few, Depth(s)} /\ F <= few /\ F <= Depth(s) /\ G \in {many, Depth(s)} /\ Depth(s) \in Nat
    BY FillsAddUp
  <2> QED BY <1>4, <2>1
<1> HIDE DEF x, y, c, F, G
<1>9. x * G <= y * F
  <2>1. (x + c * (G - F)) * F <= y * F
    BY <1>4, <1>5, <1>6, Scaling
  <2>2. x * (G - F) <= (c * F) * (G - F)
    <3>1. G - F >= 0 /\ G - F \in Int /\ c * F \in Int
      BY <1>4, <1>5, <1>8
    <3> QED BY <1>5, <1>7, <3>1, Scaling
  <2>3. (x + c * (G - F)) * F = x * F + (c * F) * (G - F)
    BY <1>4, <1>5
  <2>4. x * (G - F) = x * G - x * F
    BY <1>4, <1>5
  <2>5. x * F \in Int /\ x * G \in Int /\ (c * F) * (G - F) \in Int /\ y * F \in Int
    BY <1>4, <1>5
  <2> QED BY <2>1, <2>2, <2>3, <2>4, <2>5
<1> QED BY <1>9 DEF x, y, F, G

LEMMA EdgeConstants ==
    /\ Scale \in Nat \ {0} /\ Unit \in Nat \ {0} /\ PositionSize \in Nat \ {0}
    /\ Gas \in Nat /\ MaxLevels \in Nat /\ Fee \in Nat /\ Fee <= Unit
    /\ \A q \in Quantities : q \in Nat \ {0}
BY EdgeAssumption

(* The books of a dislocation are sides in the order they are walked.       *)
LEMMA RawSide ==
    ASSUME NEW s \in Levels
    PROVE  s \in Side /\ Distinct(s) /\ \A i \in DOMAIN s : s[i] \in Level
<1>1. PICK n \in 1..MaxLevels : s \in [1..n -> Level]
  BY DEF Levels
<1>2. n \in Nat \ {0} /\ DOMAIN s = 1..n
  BY <1>1, EdgeAssumption
<1>3. \A i \in 1..n : s[i] \in Level
  BY <1>1
<1>4. \A l \in Level : l \in Quoted
  <2> SUFFICES ASSUME NEW l \in Level PROVE l \in Quoted
    OBVIOUS
  <2>1. l \in [price : 1..(Scale - 1), qty : Quantities]
    BY DEF Level
  <2>2. l.price \in Nat \ {0} /\ l.qty \in Nat \ {0} /\ l = [price |-> l.price, qty |-> l.qty]
    BY <2>1, EdgeConstants
  <2> QED BY <2>2 DEF Quoted
<1>5. s \in [1..n -> Quoted]
  BY <1>1, <1>4
<1>6. s \in Seq(Quoted) /\ Len(s) = n
  BY <1>2, <1>5
<1>7. s # <<>>
  BY <1>2, <1>6
<1>8. Distinct(s)
  BY DEF Levels, Distinct
<1> QED BY <1>2, <1>3, <1>6, <1>7, <1>8 DEF Side

LEMMA YesSide ==
    ASSUME NEW s \in Levels
    PROVE  YesAsks(s) \in Side /\ Distinct(YesAsks(s))
<1> DEFINE n == Len(s)
           yes == [i \in 1..n |-> [s[i] EXCEPT !.price = Scale - @]]
<1>1. s \in Side /\ Distinct(s) /\ \A i \in DOMAIN s : s[i] \in Level
  BY RawSide
<1>2. n \in Nat \ {0} /\ DOMAIN s = 1..n
  BY <1>1, SideShape
<1>3. YesAsks(s) = yes
  BY <1>2 DEF YesAsks
<1>4. ASSUME NEW i \in 1..n
      PROVE  yes[i] \in Quoted /\ yes[i].price = Scale - s[i].price /\ s[i].price \in Int
  <2>1. s[i] \in [price : 1..(Scale - 1), qty : Quantities]
    BY <1>1, <1>2 DEF Level
  <2>2. s[i].price \in 1..(Scale - 1) /\ s[i].qty \in Quantities
        /\ yes[i] = [price |-> Scale - s[i].price, qty |-> s[i].qty]
    BY <2>1
  <2>3. Scale - s[i].price \in Nat \ {0} /\ s[i].qty \in Nat \ {0} /\ s[i].price \in Int
    BY <2>2, EdgeConstants
  <2> QED BY <2>2, <2>3 DEF Quoted
<1>5. DOMAIN yes = 1..n /\ yes \in [1..n -> Quoted]
  BY <1>4
<1> HIDE DEF yes, n
<1>6. yes \in Seq(Quoted) /\ Len(yes) = n
  BY <1>2, <1>5
<1>7. yes # <<>>
  BY <1>2, <1>6
<1>8. Distinct(yes)
  <2> SUFFICES ASSUME NEW i \in 1..n, NEW j \in 1..n, yes[i].price = yes[j].price PROVE i = j
    BY <1>5 DEF Distinct
  <2>1. Scale \in Int
    BY EdgeAssumption
  <2>2. s[i].price = s[j].price
    BY <1>4, <2>1
  <2> QED BY <1>1, <1>2, <2>2 DEF Distinct
<1> QED BY <1>3, <1>6, <1>7, <1>8 DEF Side

LEMMA Books ==
    ASSUME NEW d \in Dislocations
    PROVE  /\ Asks(d) \in Side /\ ByPrice(Asks(d), 1)
           /\ Bids(d) \in Side /\ ByPrice(Bids(d), -1)
<1>1. d.asks \in Levels /\ d.bids \in Levels
  BY DEF Dislocations
<1>2. PICK raw : raw = (IF d.kalshiBuys THEN YesAsks(d.asks) ELSE d.asks)
  OBVIOUS
<1>3. raw \in Side /\ Distinct(raw)
  BY <1>1, <1>2, RawSide, YesSide
<1>4. d.bids \in Side /\ Distinct(d.bids)
  BY <1>1, RawSide
<1>5. 1 \in {-1, 1} /\ -1 \in {-1, 1}
  OBVIOUS
<1>6. Sorted(raw, 1) \in Side /\ ByPrice(Sorted(raw, 1), 1)
  BY <1>3, <1>5, SortedByPrice
<1>7. Sorted(d.bids, -1) \in Side /\ ByPrice(Sorted(d.bids, -1), -1)
  BY <1>4, <1>5, SortedByPrice
<1> QED BY <1>2, <1>6, <1>7 DEF Asks, Bids

LEMMA SizeShape ==
    ASSUME NEW s \in Side
    PROVE  Target(s) \in Nat /\ Depth(s) \in Nat \ {0} /\ Filled(s, Target(s)) \in Nat
<1>1. s \in Seq(Quoted) /\ s # <<>>
  BY DEF Side
<1>2. Len(s) \in Nat \ {0} /\ s[1] \in Quoted
  BY <1>1
<1>3. s[1].price \in Nat \ {0} /\ s[1].qty \in Nat \ {0}
  BY <1>2 DEF Quoted
<1>4. Target(s) \in Nat
  BY <1>3, EdgeAssumption DEF Target, CeilDiv
<1>5. Depth(s) >= 1 /\ Depth(s) \in Nat
  <2>1. 0 \in 0..Len(s) /\ 1 \in 0..Len(s) /\ Len(s) \in 0..Len(s) /\ 1 \in 1..Len(s) /\ 1 <= Len(s)
    BY <1>2
  <2>2. DepthTo(s, 1) = DepthTo(s, 1 - 1) + s[1].qty /\ DepthTo(s, 0) = 0 /\ 1 - 1 = 0
    BY <2>1, DepthSteps
  <2>3. DepthTo(s, 1) <= DepthTo(s, Len(s))
    BY <2>1, DepthGrows
  <2>4. DepthTo(s, Len(s)) \in Nat
    BY <2>1, DepthSteps
  <2> QED BY <1>3, <2>2, <2>3, <2>4 DEF Depth
<1>6. Filled(s, Target(s)) \in Nat
  BY <1>4, FillsAddUp
<1> QED BY <1>4, <1>5, <1>6

LEMMA WalksTakeBest ==
    ASSUME NEW d \in Dislocations
    PROVE  LET asks == Asks(d)
               bids == Bids(d)
           IN  /\ \A t \in Takings(asks, Target(asks)) : Cost(asks, Target(asks)) <= Price(asks, t)
               /\ \A t \in Takings(bids, Target(bids)) : Cost(bids, Target(bids)) >= Price(bids, t)
<1>1. ASSUME NEW s \in Side, NEW sign \in {-1, 1}, ByPrice(s, sign), NEW t \in Takings(s, Target(s))
      PROVE  /\ sign * Cost(s, Target(s)) <= sign * Price(s, t)
             /\ Cost(s, Target(s)) \in Nat /\ Price(s, t) \in Nat
  <2>1. DOMAIN s = 1..Len(s) /\ Target(s) \in Nat
    BY SideShape, SizeShape
  <2>2. /\ t \in [1..Len(s) -> 0..Max(Quantities)]
        /\ \A i \in 1..Len(s) : t[i] <= s[i].qty
        /\ SumFunction(t) = Filled(s, Target(s))
    BY <2>1 DEF Takings
  <2>3. t \in [1..Len(s) -> Nat]
    BY <2>2
  <2> QED BY <1>1, <2>1, <2>2, <2>3, BestWalk, CostIsPrice, PriceShape
<1>2. /\ Asks(d) \in Side /\ ByPrice(Asks(d), 1)
      /\ Bids(d) \in Side /\ ByPrice(Bids(d), -1)
  BY Books
<1>3. ASSUME NEW t \in Takings(Asks(d), Target(Asks(d)))
      PROVE  Cost(Asks(d), Target(Asks(d))) <= Price(Asks(d), t)
  <2>1. /\ 1 * Cost(Asks(d), Target(Asks(d))) <= 1 * Price(Asks(d), t)
        /\ Cost(Asks(d), Target(Asks(d))) \in Nat /\ Price(Asks(d), t) \in Nat
    BY <1>1, <1>2
  <2> QED BY <2>1
<1>4. ASSUME NEW t \in Takings(Bids(d), Target(Bids(d)))
      PROVE  Cost(Bids(d), Target(Bids(d))) >= Price(Bids(d), t)
  <2>1. /\ (-1) * Cost(Bids(d), Target(Bids(d))) <= (-1) * Price(Bids(d), t)
        /\ Cost(Bids(d), Target(Bids(d))) \in Nat /\ Price(Bids(d), t) \in Nat
    BY <1>1, <1>2
  <2> QED BY <2>1
<1> QED BY <1>3, <1>4

-----------------------------------------------------------------------------
(* The threshold, the edge and what is earned on fewer contracts. *)

Configuration == [minEdge : Nat, minFill : Nat, scaling : Nat, cap : Nat, minReturn : Nat]
Floor == Min({settings.minEdge, settings.cap})

LEMMA ThresholdAboveFloor ==
    ASSUME settings \in Configuration, NEW depth \in Nat \ {0}
    PROVE  /\ Threshold(depth).n \in Nat /\ Threshold(depth).d \in Nat \ {0} /\ Floor \in Nat
           /\ Threshold(depth).n * Unit >= Floor * Threshold(depth).d
<1> DEFINE e == settings.minEdge
           c == settings.cap
           k == settings.scaling
           base == Frac(e * (depth + k), Unit * depth)
           top == Frac(c, Unit)
<1>1. e \in Nat /\ c \in Nat /\ k \in Nat
  BY DEF Configuration
<1>2. Floor \in Nat /\ Floor <= e /\ Floor <= c
  <2>1. Min({e, c}) \in {e, c} /\ Min({e, c}) <= e /\ Min({e, c}) <= c
    BY <1>1, MinOfTwo
  <2> QED BY <1>1, <2>1 DEF Floor
<1>3. Unit \in Nat \ {0}
  BY EdgeConstants
<1>4. Threshold(depth) \in {base, top, Frac(e, Unit)}
  BY DEF Threshold, Smaller
<1> HIDE DEF e, c, k
<1>5. e * Unit >= Floor * Unit /\ c * Unit >= Floor * Unit
  BY <1>1, <1>2, <1>3, Scaling
<1>6. CASE Threshold(depth) = top
  BY <1>1, <1>2, <1>3, <1>5, <1>6 DEF Frac
<1>7. CASE Threshold(depth) = Frac(e, Unit)
  BY <1>1, <1>2, <1>3, <1>5, <1>7 DEF Frac
<1>8. CASE Threshold(depth) = base
  <2>1. Threshold(depth).n = e * (depth + k) /\ Threshold(depth).d = Unit * depth
    BY <1>8 DEF Frac
  <2>2. e * (depth + k) \in Nat /\ Unit * depth \in Nat \ {0}
    BY <1>1, <1>3
  <2>3. e * depth <= e * (depth + k)
    <3>1. e * (depth + k) = e * depth + e * k /\ e * k \in Nat /\ e * depth \in Nat
      BY <1>1
    <3> QED BY <3>1
  <2>4. (e * depth) * Unit <= (e * (depth + k)) * Unit
    <3>1. e * depth \in Int /\ e * (depth + k) \in Int /\ Unit \in Int /\ Unit >= 0
      BY <1>1, <1>3
    <3> QED BY <2>3, <3>1, Scaling
  <2>5. Floor * (Unit * depth) <= e * (Unit * depth)
    BY <1>1, <1>2, <2>2, Scaling
  <2>6. e * (Unit * depth) = (e * depth) * Unit
    BY <1>1, <1>3
  <2>7. (e * depth) * Unit \in Int /\ (e * (depth + k)) * Unit \in Int /\ Floor * (Unit * depth) \in Int
    BY <1>1, <1>2, <1>3
  <2>8. (e * (depth + k)) * Unit >= Floor * (Unit * depth)
    BY <2>4, <2>5, <2>6, <2>7
  <2> QED BY <1>2, <2>1, <2>2, <2>8
<1> QED BY <1>4, <1>6, <1>7, <1>8

(* An edge over its threshold, freed of its denominators.                   *)
LEMMA EdgeUnfolds ==
    ASSUME NEW A \in Nat, NEW S \in Nat, NEW a \in Nat \ {0}, NEW s \in Nat \ {0},
           NEW low \in Nat, NEW thr, thr.n \in Nat, thr.d \in Nat \ {0},
           thr.n * Unit >= low * thr.d,
           AtLeast(NetEdge(Frac(A, a * Scale), Frac(S, s * Scale)), thr)
    PROVE  ((S * a - A * s) * Unit - Fee * (S * a + A * s)) * PositionSize
              >= (a * s) * ((Gas * Unit + low * PositionSize) * Scale)
<1> DEFINE e == NetEdge(Frac(A, a * Scale), Frac(S, s * Scale))
           X == S * a
           Y == A * s
           one == (a * Scale) * (s * Scale)
           td == thr.d
           tn == thr.n
           net == (X - Y) * Unit - Fee * (X + Y)
           K == Gas * Unit + low * PositionSize
<1>1. Scale \in Nat \ {0} /\ Unit \in Nat \ {0} /\ PositionSize \in Nat \ {0} /\ Gas \in Nat /\ Fee \in Nat
  BY EdgeConstants
<1>2. X \in Nat /\ Y \in Nat /\ one \in Nat /\ td \in Nat \ {0} /\ tn \in Nat
  BY <1>1
<1>3. /\ e.n = (((S * (a * Scale) - A * (s * Scale)) * Unit
                   - Fee * (S * (a * Scale) + A * (s * Scale))) * PositionSize - (Gas * Unit) * one)
      /\ e.d = (one * Unit) * PositionSize
  BY DEF NetEdge, Frac
<1>4. S * (a * Scale) = X * Scale /\ A * (s * Scale) = Y * Scale
  BY <1>1
<1>5. e.n = ((X * Scale - Y * Scale) * Unit - Fee * (X * Scale + Y * Scale)) * PositionSize - (Gas * Unit) * one
  BY <1>3, <1>4
<1>6. e.n * td >= tn * e.d
  BY DEF AtLeast
<1>7. tn * Unit >= low * td
  OBVIOUS
<1>8. one = ((a * s) * Scale) * Scale
  BY <1>1
<1> HIDE DEF e, X, Y, one, td, tn
<1>9. ((X * Scale - Y * Scale) * Unit - Fee * (X * Scale + Y * Scale)) * PositionSize
        = (net * PositionSize) * Scale
  BY <1>1, <1>2
<1>10. net \in Int /\ K \in Nat
  BY <1>1, <1>2
<1> HIDE DEF net
<1>11. e.n \in Int /\ e.d \in Nat /\ e.n = (net * PositionSize) * Scale - (Gas * Unit) * one
  BY <1>1, <1>2, <1>3, <1>5, <1>9, <1>10
<1>12. e.n >= low * (one * PositionSize)
  <2> DEFINE w == one * PositionSize
             z == td * Unit
  <2>1. w \in Nat /\ z \in Nat \ {0} /\ e.d = w * Unit
    BY <1>1, <1>2, <1>3
  <2>2. (tn * e.d) * Unit <= (e.n * td) * Unit
    <3>1. tn * e.d \in Int /\ e.n * td \in Int /\ Unit \in Int /\ Unit >= 0
      BY <1>1, <1>2, <1>11
    <3> QED BY <1>6, <3>1, Scaling
  <2>3. (low * td) * (w * Unit) <= (tn * Unit) * (w * Unit)
    <3>1. low * td \in Int /\ tn * Unit \in Int /\ w * Unit \in Int /\ w * Unit >= 0
      BY <1>1, <1>2, <2>1
    <3> QED BY <1>7, <3>1, Scaling
  <2> HIDE DEF w
  <2>4. (tn * e.d) * Unit = (tn * Unit) * (w * Unit)
    BY <1>1, <1>2, <2>1
  <2>5. (low * td) * (w * Unit) = (low * w) * z /\ (e.n * td) * Unit = e.n * z
    BY <1>1, <1>2, <1>11, <2>1
  <2>6. low * w \in Int /\ e.n * z \in Int /\ (low * w) * z \in Int /\ (tn * Unit) * (w * Unit) \in Int
    BY <1>1, <1>2, <1>11, <2>1
  <2> HIDE DEF z
  <2>7. (low * w) * z <= e.n * z
    BY <2>2, <2>3, <2>4, <2>5, <2>6
  <2>8. low * w <= e.n
    BY <1>11, <2>1, <2>6, <2>7, Unscaling
  <2> QED BY <1>11, <2>6, <2>8 DEF w
<1>13. (net * PositionSize) * Scale >= ((a * s) * (K * Scale)) * Scale
  <2>1. low * (one * PositionSize) + (Gas * Unit) * one = K * one
    BY <1>1, <1>2
  <2> HIDE DEF K
  <2>2. K * one = ((a * s) * (K * Scale)) * Scale
    BY <1>1, <1>8, <1>10
  <2>3. /\ low * (one * PositionSize) \in Int /\ (Gas * Unit) * one \in Int
        /\ (net * PositionSize) * Scale \in Int
    BY <1>1, <1>2, <1>10
  <2> QED BY <1>11, <1>12, <2>1, <2>2, <2>3
<1>14. net * PositionSize >= (a * s) * (K * Scale)
  <2>1. net * PositionSize \in Int /\ (a * s) * (K * Scale) \in Int /\ Scale \in Int /\ Scale > 0
    BY <1>1, <1>10
  <2> HIDE DEF K
  <2> QED BY <1>13, <2>1, Unscaling
<1> QED BY <1>14 DEF net, X, Y

(* What holds of the whole sizes holds of fewer contracts, which are bought *)
(* for less and sold for more each.                                         *)
LEMMA FewerEarnAsWell ==
    ASSUME NEW A \in Nat, NEW S \in Nat, NEW a \in Nat \ {0}, NEW s \in Nat \ {0},
           NEW k \in Nat \ {0}, NEW paid \in Nat, NEW earned \in Nat, NEW low \in Nat,
           paid * a <= A * k, S * k <= earned * s,
           ((S * a - A * s) * Unit - Fee * (S * a + A * s)) * PositionSize
              >= (a * s) * ((Gas * Unit + low * PositionSize) * Scale)
    PROVE  ((earned - paid) * Unit - Fee * (earned + paid)) * PositionSize - Gas * Unit * k * Scale
              >= low * k * Scale * PositionSize
<1> DEFINE X == S * a
           Y == A * s
           lo == Unit - Fee
           hi == Unit + Fee
           P == PositionSize
           K == (Gas * Unit + low * PositionSize) * Scale
           Z == (earned * lo) * P - (paid * hi) * P
           both == a * s
<1>1. /\ Scale \in Nat \ {0} /\ Unit \in Nat \ {0} /\ P \in Nat \ {0} /\ Gas \in Nat /\ Fee \in Nat
      /\ lo \in Nat /\ hi \in Nat
  BY EdgeConstants
<1>2. X \in Nat /\ Y \in Nat /\ K \in Nat /\ both \in Nat \ {0}
  BY <1>1
<1>3. (X * lo) * P - (Y * hi) * P >= both * K
  <2>1. ((X - Y) * Unit - Fee * (X + Y)) * P >= both * K
    OBVIOUS
  <2> HIDE DEF X, Y, both, K, P
  <2>2. ((X - Y) * Unit - Fee * (X + Y)) * P = (X * lo) * P - (Y * hi) * P
    BY <1>1, <1>2
  <2> QED BY <2>1, <2>2
<1>4. ((earned - paid) * Unit - Fee * (earned + paid)) * P = Z
  <2> HIDE DEF P
  <2> QED BY <1>1
<1>5. Z \in Int
  BY <1>1
<1>6. (S * k) * (a * (lo * P)) <= (earned * s) * (a * (lo * P))
  <2>1. S * k \in Int /\ earned * s \in Int /\ a * (lo * P) \in Int /\ a * (lo * P) >= 0
    BY <1>1
  <2> HIDE DEF lo, P
  <2> QED BY <2>1, Scaling
<1>7. (paid * a) * (s * (hi * P)) <= (A * k) * (s * (hi * P))
  <2>1. paid * a \in Int /\ A * k \in Int /\ s * (hi * P) \in Int /\ s * (hi * P) >= 0
    BY <1>1
  <2> HIDE DEF hi, P
  <2> QED BY <2>1, Scaling
<1> HIDE DEF lo, hi, P
<1>8. Z * both = (earned * s) * (a * (lo * P)) - (paid * a) * (s * (hi * P))
  BY <1>1
<1>9. (S * k) * (a * (lo * P)) - (A * k) * (s * (hi * P)) = ((X * lo) * P - (Y * hi) * P) * k
  BY <1>1
<1>10. /\ (S * k) * (a * (lo * P)) \in Int /\ (A * k) * (s * (hi * P)) \in Int
       /\ (earned * s) * (a * (lo * P)) \in Int /\ (paid * a) * (s * (hi * P)) \in Int
       /\ (X * lo) * P - (Y * hi) * P \in Int
  BY <1>1
<1> HIDE DEF X, Y, both, K, Z
<1>11. (both * K) * k <= ((X * lo) * P - (Y * hi) * P) * k
  <2>1. both * K \in Int /\ k \in Int /\ k >= 0
    BY <1>2
  <2> QED BY <1>3, <1>10, <2>1, Scaling
<1>12. K * k \in Int /\ (K * k) * both \in Int /\ (both * K) * k = (K * k) * both
  <2>1. K \in Int /\ both \in Int /\ k \in Int
    BY <1>2
  <2>2. K * k \in Int /\ both * K \in Int
    BY <2>1
  <2>3. (both * K) * k = (K * k) * both
    BY <2>1
  <2> QED BY <2>1, <2>2, <2>3
<1>13. (K * k) * both <= Z * both
  <2> DEFINE u == (S * k) * (a * (lo * P))
             v == (earned * s) * (a * (lo * P))
             w == (paid * a) * (s * (hi * P))
             z == (A * k) * (s * (hi * P))
             W == ((X * lo) * P - (Y * hi) * P) * k
  <2>1. u <= v /\ w <= z /\ Z * both = v - w /\ u - z = W
    BY <1>6, <1>7, <1>8, <1>9
  <2>2. u \in Int /\ v \in Int /\ w \in Int /\ z \in Int
    BY <1>10
  <2>3. (both * K) * k <= W
    BY <1>11
  <2> HIDE DEF u, v, w, z, W
  <2> QED BY <1>12, <2>1, <2>2, <2>3
<1>14. K * k <= Z
  <2>1. K * k \in Int /\ Z \in Int /\ both \in Int /\ both > 0
    BY <1>2, <1>5, <1>12
  <2> QED BY <1>13, <2>1, Unscaling
<1>15. K * k = Gas * Unit * k * Scale + low * k * Scale * P
  BY <1>1 DEF K, P
<1>16. Gas * Unit * k * Scale \in Int /\ low * k * Scale * P \in Int
  BY <1>1
<1> QED BY <1>4, <1>5, <1>14, <1>15, <1>16 DEF P

LEMMA ActionableEarns ==
    ASSUME NEW d \in Dislocations, settings \in Configuration, Reason(d) = "actionable"
    PROVE  LET asks == Asks(d)
               bids == Bids(d)
               n    == Min({Filled(asks, Target(asks)), Filled(bids, Target(bids))})
               min  == Min({settings.minEdge, settings.cap})
           IN  \A k \in 1..n :
                 LET earned == Cost(bids, k)
                     paid   == Cost(asks, k)
                 IN  ((earned - paid) * Unit - Fee * (earned + paid)) * PositionSize
                       - Gas * Unit * k * Scale
                     >= min * k * Scale * PositionSize
<1>1. PICK asks : asks = Asks(d)
  OBVIOUS
<1>2. PICK bids : bids = Bids(d)
  OBVIOUS
<1>3. asks \in Side /\ ByPrice(asks, 1) /\ bids \in Side /\ ByPrice(bids, -1)
  BY <1>1, <1>2, Books
<1> DEFINE T == Target(asks)
           U == Target(bids)
           a == Filled(asks, T)
           s == Filled(bids, U)
           A == Cost(asks, T)
           S == Cost(bids, U)
           depth == Min({Depth(asks), Depth(bids)})
<1>4. /\ T \in Nat /\ U \in Nat /\ a \in Nat /\ s \in Nat
      /\ Depth(asks) \in Nat \ {0} /\ Depth(bids) \in Nat \ {0}
  BY <1>3, SizeShape
<1>5. A \in Nat /\ S \in Nat
  BY <1>3, <1>4, CostIsPrice
<1>6. depth \in Nat \ {0}
  <2>1. Min({Depth(asks), Depth(bids)}) \in {Depth(asks), Depth(bids)}
    BY <1>4, MinOfTwo
  <2> QED BY <1>4, <2>1
<1>7. AtLeast(NetEdge(Vwap(asks, T), Vwap(bids, U)), Threshold(depth))
  BY <1>1, <1>2 DEF Reason
<1>8. AtLeast(NetEdge(Frac(A, a * Scale), Frac(S, s * Scale)), Threshold(depth))
  BY <1>7 DEF Vwap
<1>9. SUFFICES ASSUME NEW k \in 1..Min({a, s})
               PROVE  ((Cost(bids, k) - Cost(asks, k)) * Unit - Fee * (Cost(bids, k) + Cost(asks, k))) * PositionSize
                         - Gas * Unit * k * Scale
                      >= Floor * k * Scale * PositionSize
  BY <1>1, <1>2 DEF Floor
<1>10. k \in Nat \ {0} /\ k <= a /\ k <= s /\ a \in Nat \ {0} /\ s \in Nat \ {0}
  <2>1. Min({a, s}) \in {a, s} /\ Min({a, s}) <= a /\ Min({a, s}) <= s
    BY <1>4, MinOfTwo
  <2> HIDE DEF a, s
  <2> QED BY <1>4, <2>1
<1>11. ASSUME NEW l \in Side, k <= Filled(l, Target(l)), Target(l) \in Nat
       PROVE  Filled(l, k) = k /\ k <= Target(l)
  <2>1. /\ Filled(l, k) \in {k, Depth(l)} /\ Filled(l, k) <= k /\ Depth(l) \in Nat /\ Filled(l, k) \in Nat
    BY <1>10, FillsAddUp
  <2>2. Filled(l, Target(l)) <= Depth(l) /\ Filled(l, Target(l)) <= Target(l) /\ Filled(l, Target(l)) \in Nat
    BY <1>11, FillsAddUp
  <2> QED BY <1>10, <1>11, <2>1, <2>2
<1>12. Filled(asks, k) = k /\ k <= T /\ Filled(bids, k) = k /\ k <= U
  BY <1>3, <1>4, <1>10, <1>11
<1>13. Cost(asks, k) \in Nat /\ Cost(bids, k) \in Nat
  BY <1>3, <1>10, CostIsPrice
<1>14. Cost(asks, k) * a <= A * k
  <2>1. 1 \in {-1, 1} /\ k \in Nat
    BY <1>10
  <2>2. 1 * Cost(asks, k) * Filled(asks, T) <= 1 * Cost(asks, T) * Filled(asks, k)
    BY <1>3, <1>4, <1>12, <2>1, AverageWorsens
  <2> QED BY <1>5, <1>12, <1>13, <2>2
<1>15. S * k <= Cost(bids, k) * s
  <2>1. -1 \in {-1, 1} /\ k \in Nat
    BY <1>10
  <2>2. (-1) * Cost(bids, k) * Filled(bids, U) <= (-1) * Cost(bids, U) * Filled(bids, k)
    BY <1>3, <1>4, <1>12, <2>1, AverageWorsens
  <2>3. (-1) * Cost(bids, k) * s <= (-1) * S * k
    BY <1>12, <2>2
  <2>4. (-1) * Cost(bids, k) * s = - (Cost(bids, k) * s) /\ (-1) * S * k = - (S * k)
        /\ Cost(bids, k) * s \in Int /\ S * k \in Int
    <3> HIDE DEF S, s
    <3> QED BY <1>4, <1>5, <1>10, <1>13
  <2> HIDE DEF S, s
  <2> QED BY <2>3, <2>4
<1>16. /\ Threshold(depth).n \in Nat /\ Threshold(depth).d \in Nat \ {0} /\ Floor \in Nat
       /\ Threshold(depth).n * Unit >= Floor * Threshold(depth).d
  BY <1>6, ThresholdAboveFloor
<1> HIDE DEF A, S, a, s, depth
<1>17. ((S * a - A * s) * Unit - Fee * (S * a + A * s)) * PositionSize
          >= (a * s) * ((Gas * Unit + Floor * PositionSize) * Scale)
  BY <1>5, <1>8, <1>10, <1>16, EdgeUnfolds
<1> QED BY <1>5, <1>10, <1>13, <1>14, <1>15, <1>16, <1>17, FewerEarnAsWell

-----------------------------------------------------------------------------
(* The runs of the calculator. *)

EdgeInv ==
  /\ dislocation \in Dislocations
  /\ settings \in Configuration
  /\ verdict = "actionable" => Reason(dislocation) = "actionable"

LEMMA ReasonKept ==
    ASSUME settings' = settings, dislocation' = dislocation
    PROVE  Reason(dislocation)' = Reason(dislocation)
BY DEF Reason, FillRatioMet, Threshold

LEMMA EdgeInvHolds == EdgeSpec => []EdgeInv
<1>1. EdgeInit => EdgeInv
  BY EdgeAssumption DEF EdgeInit, EdgeInv, Configuration
<1>2. EdgeInv /\ [EdgeNext]_edgeVars => EdgeInv'
  <2> SUFFICES ASSUME EdgeInv, [EdgeNext]_edgeVars PROVE EdgeInv'
    OBVIOUS
  <2>1. CASE ProcessDislocation
    <3>1. settings' = settings /\ dislocation' = dislocation /\ verdict' = Reason(dislocation)
      BY <2>1 DEF ProcessDislocation
    <3>2. Reason(dislocation)' = Reason(dislocation)
      BY <3>1, ReasonKept
    <3>3. verdict' = "actionable" => Reason(dislocation)' = "actionable"
      BY <3>1, <3>2
    <3>4. (dislocation \in Dislocations)'
      BY <3>1 DEF EdgeInv
    <3> QED BY <3>1, <3>3, <3>4 DEF EdgeInv
  <2>2. ASSUME NEW key \in {"minEdge", "minFill", "scaling", "cap"}, NEW v \in Reloads, ReloadConfig(key, v)
        PROVE  EdgeInv'
    <3>1. verdict' = "none" /\ dislocation' = dislocation
          /\ settings' = IF SettingAllowed(key, v) THEN [settings EXCEPT ![key] = v] ELSE settings
      BY <2>2 DEF ReloadConfig
    <3>2. v \in Int
      BY EdgeAssumption
    <3>3. settings' \in Configuration
      <4>1. CASE SettingAllowed(key, v)
        <5>1. v \in Nat
          <6>2. CASE key = "minEdge"
            BY <3>2, <4>1, <6>2 DEF SettingAllowed
          <6>3. CASE key = "scaling"
            BY <3>2, <4>1, <6>3 DEF SettingAllowed
          <6>4. CASE key \in {"minFill", "cap"}
            <7>1. v > 0
              BY <4>1, <6>4 DEF SettingAllowed
            <7> QED BY <3>2, <7>1
          <6> QED BY <6>2, <6>3, <6>4
        <5>2. settings' = [settings EXCEPT ![key] = v]
          BY <3>1, <4>1
        <5> HIDE DEF SettingAllowed
        <5> QED BY <5>1, <5>2 DEF EdgeInv, Configuration
      <4>2. CASE ~SettingAllowed(key, v)
        BY <3>1, <4>2 DEF EdgeInv
      <4> QED BY <4>1, <4>2
    <3>4. (dislocation \in Dislocations)'
      BY <3>1 DEF EdgeInv
    <3> QED BY <3>1, <3>3, <3>4 DEF EdgeInv
  <2>3. CASE UNCHANGED edgeVars
    <3>1. settings' = settings /\ dislocation' = dislocation /\ verdict' = verdict
      BY <2>3 DEF edgeVars
    <3>2. Reason(dislocation)' = Reason(dislocation)
      BY <3>1, ReasonKept
    <3>3. (dislocation \in Dislocations)'
      BY <3>1 DEF EdgeInv
    <3> QED BY <3>1, <3>2, <3>3 DEF EdgeInv
  <2> QED BY <2>1, <2>2, <2>3 DEF EdgeNext
<1> QED BY <1>1, <1>2, PTL DEF EdgeSpec

(* What the calculator passes on is priced as it could be filled, and is    *)
(* worth it at every size up to the one it was priced for, whatever the     *)
(* books, the fees, the settings and their reloads                          *)
(* (processSingleDislocation, calculateVwapWithFillInfo).                   *)
THEOREM EdgeAlwaysSound == EdgeSpec => []EdgeSound
<1>1. EdgeInv => WalkTakesBest
  BY WalksTakeBest DEF EdgeInv, WalkTakesBest
<1>2. EdgeInv => ActionableIsProfitable
  BY ActionableEarns DEF EdgeInv, ActionableIsProfitable
<1>3. EdgeInv => EdgeSound
  BY <1>1, <1>2 DEF EdgeSound
<1> QED BY <1>3, EdgeInvHolds, PTL

-----------------------------------------------------------------------------
(* Backtest runs.                                                           *)

Cancelled(r) == Happened(r, "cancelledEarly") \/ Happened(r, "cancelledLate")
Acknowledged(r) == ~Happened(r, "unacknowledged")

(* Where the pipeline stands and what runStatuses says of the run.          *)
StatusFollowsPipeline(r) ==
    /\ at[r] \in {"none", "creating", "ended"} => status[r] = "none" /\ r \notin cancelled
    /\ at[r] = "loading" => status[r] \in {"LOADING_DATA", "CANCELLED"}
    /\ at[r] \in {"simulating", "flushing"} => status[r] \in {"SIMULATING", "CANCELLED"}
    /\ at[r] \in {"persisting", "storing", "reporting", "completing"} =>
            status[r] \in {"GENERATING_REPORT", "CANCELLED"}
    /\ at[r] = "failing" => status[r] = "FAILED"
    /\ r \in cancelled => status[r] \in {"CANCELLED", "FAILED"}
    /\ status[r] = "CANCELLED" => r \in cancelled

(* A position is closed once, and until the end of the run it is in the     *)
(* database or in the portfolio.                                            *)
ClosedOnce(r) ==
    /\ closed[r] \subseteq everClosed[r]
    /\ at[r] \in {"none", "creating", "loading"} => everClosed[r] = {} /\ chunk[r] = 0
    /\ at[r] = "simulating" => everClosed[r] \subseteq 1 .. chunk[r]
    /\ at[r] = "flushing" => chunk[r] < Chunks /\ everClosed[r] \subseteq 1 .. (chunk[r] + 1)

InDatabase(r, S) ==
    /\ \A p \in S : stored[r][p] >= 1
    /\ Acknowledged(r) => \A p \in Positions : stored[r][p] = (IF p \in S THEN 1 ELSE 0)

NothingLost(r) ==
    /\ at[r] \in {"none", "creating", "loading", "simulating", "flushing", "persisting", "storing"}
            => InDatabase(r, everClosed[r] \ closed[r]) /\ report[r] = -1
    /\ at[r] = "reporting" => InDatabase(r, everClosed[r]) /\ report[r] = -1
    /\ at[r] = "completing" \/ "completed" \in announced[r] =>
            /\ InDatabase(r, everClosed[r])
            /\ Acknowledged(r) => report[r] \in {-1, Cardinality(everClosed[r])}

(* A run that was cancelled in time is not written as complete, and what is *)
(* announced of a run agrees with how it ended.                             *)
EndTold(r) ==
    /\ Cancelled(r) => r \in cancelled \/ at[r] = "ended"
    /\ r \in cancelled \cup cancelling => Cancelled(r)
    /\ at[r] \in {"persisting", "storing", "reporting", "completing"} =>
            ~Happened(r, "cancelledEarly")
    /\ Happened(r, "cancelledEarly") => runRow[r] # "COMPLETE"
    /\ runRow[r] = "COMPLETE" => at[r] \in {"storing", "reporting", "completing", "failing", "ended"}
    /\ runRow[r] = "COMPLETE" /\ at[r] = "ended" =>
          \/ "completed" \in announced[r]
          \/ \E why \in {"interrupted", "unrecorded", "cancelledLate"} : Happened(r, why)
    /\ "completed" \in announced[r] =>
          announced[r] = {"completed"} /\ at[r] = "ended" /\ ~Cancelled(r)
    /\ "cancelled" \in announced[r] => Cancelled(r)
    /\ "failed" \in announced[r] => at[r] = "ended"

RunInv(r) == StatusFollowsPipeline(r) /\ ClosedOnce(r) /\ NothingLost(r) /\ EndTold(r)

(* The check of createRun counts right when no two creations overlap.       *)
PlacesCounted ==
    /\ IsFiniteSet(ActiveRuns)
    /\ (\A r \in Runs : ~Happened(r, "overlapped")) =>
          /\ \A r, s \in Creating : r = s
          /\ Cardinality(ActiveRuns) <= MaxRuns
          /\ Creating # {} => Cardinality(ActiveRuns) < MaxRuns

RunsInv == RunsTypeOK /\ (\A r \in Runs : RunInv(r)) /\ PlacesCounted

LEMMA RunsStart == RunsInit => RunsInv
<1> SUFFICES ASSUME RunsInit PROVE RunsInv
  OBVIOUS
<1>1. RunsTypeOK
  <2>1. /\ status \in [Runs -> {"none"} \cup CANCELLABLE_STATES \cup Terminal]
        /\ at \in [Runs -> PipelineStage]
        /\ runRow \in [Runs -> {"none", "CONFIGURING"} \cup Terminal]
    BY DEF RunsInit, PipelineStage
  <2>2. /\ chunk \in [Runs -> 0..Chunks] /\ closed \in [Runs -> SUBSET Positions]
        /\ stored \in [Runs -> [Positions -> Nat]] /\ report \in [Runs -> Int]
    BY BacktestRunsConstants DEF RunsInit
  <2>3. /\ announced \in [Runs -> SUBSET {"completed", "failed", "cancelled"}]
        /\ everClosed \in [Runs -> SUBSET Positions] /\ history \in [Runs -> SUBSET RunEvent]
    BY DEF RunsInit
  <2>4. cancelled \subseteq Runs /\ cancelling \subseteq Runs
    BY DEF RunsInit
  <2> QED BY <2>1, <2>2, <2>3, <2>4 DEF RunsTypeOK
<1>2. ASSUME NEW r \in Runs PROVE RunInv(r)
  BY BacktestRunsConstants
  DEF RunsInit, RunInv, StatusFollowsPipeline, ClosedOnce, NothingLost, EndTold, InDatabase,
      Cancelled, Acknowledged, Happened, Positions
<1>3. PlacesCounted
  <2>1. ActiveRuns = {} /\ Creating = {}
    BY DEF RunsInit, ActiveRuns, Creating
  <2> QED BY <2>1, FS_EmptySet, BacktestRunsConstants DEF PlacesCounted
<1> QED BY <1>1, <1>2, <1>3 DEF RunsInv

(* The steps of one run leave what is kept of the others alone.             *)
Unmoved(s) ==
    /\ status'[s] = status[s] /\ at'[s] = at[s] /\ chunk'[s] = chunk[s]
    /\ closed'[s] = closed[s] /\ runRow'[s] = runRow[s] /\ stored'[s] = stored[s]
    /\ report'[s] = report[s] /\ announced'[s] = announced[s]
    /\ everClosed'[s] = everClosed[s] /\ history'[s] = history[s]
    /\ s \in cancelled' <=> s \in cancelled
    /\ s \in cancelling' <=> s \in cancelling

LEMMA UnmovedKept ==
    ASSUME NEW s \in Runs, RunInv(s), Unmoved(s) PROVE RunInv(s)'
<1> USE DEF Unmoved
<1>1. StatusFollowsPipeline(s)'
  BY DEF RunInv, StatusFollowsPipeline
<1>2. ClosedOnce(s)'
  BY DEF RunInv, ClosedOnce
<1>3. NothingLost(s)'
  BY DEF RunInv, NothingLost, InDatabase, Acknowledged, Happened
<1>4. EndTold(s)'
  BY DEF RunInv, EndTold, Cancelled, Happened
<1> QED BY <1>1, <1>2, <1>3, <1>4 DEF RunInv

(* The report's count of the rows is a number, and the number of positions  *)
(* when each of them has one row.                                           *)
LEMMA RowsCounted ==
    ASSUME RunsTypeOK, NEW r \in Runs
    PROVE  /\ RowsStored(r) \in Int
           /\ \A S \in SUBSET Positions :
                (\A p \in Positions : stored[r][p] = (IF p \in S THEN 1 ELSE 0))
                    => RowsStored(r) = Cardinality(S)
<1>1. IsFiniteSet(Positions)
  BY BacktestRunsConstants, FS_Interval DEF Positions
<1>2. stored[r] \in [Positions -> Int]
  BY DEF RunsTypeOK
<1>3. RowsStored(r) \in Int
  BY <1>1, <1>2, SumInteger DEF RowsStored
<1>4. ASSUME NEW S \in SUBSET Positions,
             \A p \in Positions : stored[r][p] = (IF p \in S THEN 1 ELSE 0)
      PROVE  RowsStored(r) = Cardinality(S)
  BY <1>1, <1>2, <1>4, SumOfOnes DEF RowsStored
<1> QED BY <1>3, <1>4

(* One step of the pipeline or of a cancellation. *)
RunStep(r) ==
    \/ BeginCreate(r) \/ Created(r) \/ InsertFails(r)
    \/ Refuse(r) \/ LoadFails(r) \/ Simulate(r)
    \/ Chunk(r) \/ Flush(r) \/ StopCancelled(r) \/ CloseRemaining(r)
    \/ PersistRow(r) \/ StoreRemaining(r) \/ PersistFails(r)
    \/ Report(r) \/ Complete(r) \/ Fail(r)
    \/ CancelRun(r) \/ CancelRecorded(r) \/ CancelUnrecorded(r)

LEMMA RunStepTyped ==
    ASSUME RunsTypeOK, NEW r \in Runs, RunInv(r), RunStep(r)
    PROVE  RunsTypeOK' /\ \A s \in Runs \ {r} : Unmoved(s)
<1> USE DEF RunsTypeOK
<1>1. CASE BeginCreate(r)
  <2>1. RunsTypeOK'
    <3>1. at' \in [Runs -> PipelineStage]
      BY <1>1, BacktestRunsConstants DEF BeginCreate, Note, PipelineStage
    <3>2. history' \in [Runs -> SUBSET RunEvent]
      BY <1>1, BacktestRunsConstants DEF BeginCreate, Note, RunEvent
    <3>3. UNCHANGED <<status, closed, cancelled, chunk, runRow, stored, report, announced, everClosed, cancelling>>
      BY <1>1 DEF BeginCreate, Note
    <3> QED BY <3>1, <3>2, <3>3
  <2>2. \A s \in Runs \ {r} : Unmoved(s)
    BY <1>1 DEF Unmoved, BeginCreate, Note
  <2> QED BY <2>1, <2>2
<1>2. CASE Created(r)
  <2>1. RunsTypeOK'
    BY <1>2, BacktestRunsConstants
    DEF Created, PipelineStage, RunEvent, CANCELLABLE_STATES, Terminal
  <2>2. \A s \in Runs \ {r} : Unmoved(s)
    BY <1>2 DEF Unmoved, Created
  <2> QED BY <2>1, <2>2
<1>3. CASE InsertFails(r)
  <2>1. RunsTypeOK'
    BY <1>3, BacktestRunsConstants
    DEF InsertFails, PipelineStage, RunEvent, CANCELLABLE_STATES, Terminal
  <2>2. \A s \in Runs \ {r} : Unmoved(s)
    BY <1>3 DEF Unmoved, InsertFails
  <2> QED BY <2>1, <2>2
<1>4. CASE Refuse(r)
  <2>1. RunsTypeOK'
    BY <1>4, BacktestRunsConstants
    DEF Refuse, BeginFail, PipelineStage, RunEvent, CANCELLABLE_STATES, Terminal
  <2>2. \A s \in Runs \ {r} : Unmoved(s)
    BY <1>4 DEF Unmoved, Refuse, BeginFail
  <2> QED BY <2>1, <2>2
<1>5. CASE LoadFails(r)
  <2>1. RunsTypeOK'
    <3>1. status' \in [Runs -> {"none"} \cup CANCELLABLE_STATES \cup Terminal]
      BY <1>5, BacktestRunsConstants, ZenonT(60) DEF LoadFails, Caught, Cleanup, BeginFail, CANCELLABLE_STATES, Terminal
    <3>2. cancelled' \subseteq Runs
      BY <1>5, BacktestRunsConstants DEF LoadFails, Caught, Cleanup, BeginFail
    <3>3. at' \in [Runs -> PipelineStage]
      BY <1>5, BacktestRunsConstants, ZenonT(60) DEF LoadFails, Caught, Cleanup, BeginFail, PipelineStage
    <3>4. closed' \in [Runs -> SUBSET Positions]
      BY <1>5, BacktestRunsConstants DEF LoadFails, Caught, Cleanup, BeginFail, Positions
    <3>5. UNCHANGED <<chunk, runRow, stored, report, announced, everClosed, history, cancelling>>
      BY <1>5 DEF LoadFails, Caught, Cleanup, BeginFail
    <3> QED BY <3>1, <3>2, <3>3, <3>4, <3>5
  <2>2. \A s \in Runs \ {r} : Unmoved(s)
    BY <1>5 DEF Unmoved, LoadFails, Caught, Cleanup, BeginFail
  <2> QED BY <2>1, <2>2
<1>6. CASE Simulate(r)
  <2>1. RunsTypeOK'
    <3>1. status' \in [Runs -> {"none"} \cup CANCELLABLE_STATES \cup Terminal]
      BY <1>6, BacktestRunsConstants DEF Simulate, Caught, Cleanup, BeginFail, Transition, CANCELLABLE_STATES, Terminal
    <3>2. cancelled' \subseteq Runs
      BY <1>6, BacktestRunsConstants DEF Simulate, Caught, Cleanup, BeginFail, Transition
    <3>3. at' \in [Runs -> PipelineStage]
      BY <1>6, BacktestRunsConstants, ZenonT(60) DEF Simulate, Caught, Cleanup, BeginFail, Transition, PipelineStage
    <3>4. closed' \in [Runs -> SUBSET Positions]
      BY <1>6, BacktestRunsConstants DEF Simulate, Caught, Cleanup, BeginFail, Transition, Positions
    <3>5. UNCHANGED <<chunk, runRow, stored, report, announced, everClosed, history, cancelling>>
      BY <1>6 DEF Simulate, Caught, Cleanup, BeginFail, Transition
    <3> QED BY <3>1, <3>2, <3>3, <3>4, <3>5
  <2>2. \A s \in Runs \ {r} : Unmoved(s)
    BY <1>6 DEF Unmoved, Simulate, Caught, Cleanup, BeginFail, Transition
  <2> QED BY <2>1, <2>2
<1>7. CASE Chunk(r)
  <2>1. RunsTypeOK'
    <3>1. closed' \in [Runs -> SUBSET Positions]
      BY <1>7, BacktestRunsConstants DEF Chunk, Positions
    <3>2. everClosed' \in [Runs -> SUBSET Positions]
      BY <1>7, BacktestRunsConstants DEF Chunk, Positions
    <3>3. at' \in [Runs -> PipelineStage]
      BY <1>7, BacktestRunsConstants DEF Chunk, PipelineStage
    <3>4. chunk' \in [Runs -> 0 .. Chunks]
      BY <1>7, BacktestRunsConstants, SMTT(30) DEF Chunk
    <3>5. UNCHANGED <<status, cancelled, runRow, stored, report, announced, history, cancelling>>
      BY <1>7 DEF Chunk
    <3> QED BY <3>1, <3>2, <3>3, <3>4, <3>5
  <2>2. \A s \in Runs \ {r} : Unmoved(s)
    BY <1>7 DEF Unmoved, Chunk
  <2> QED BY <2>1, <2>2
<1>8. CASE Flush(r)
  <2>1. RunsTypeOK'
    <3>1. stored' \in [Runs -> [Positions -> Nat]]
      BY <1>8, BacktestRunsConstants, SMTT(30) DEF Flush, Written, Note
    <3>2. closed' \in [Runs -> SUBSET Positions]
      BY <1>8, BacktestRunsConstants DEF Flush, Written, Note, Positions
    <3>3. history' \in [Runs -> SUBSET RunEvent]
      BY <1>8, BacktestRunsConstants DEF Flush, Written, Note, RunEvent
    <3>4. at' \in [Runs -> PipelineStage]
      BY <1>8, BacktestRunsConstants DEF Flush, Written, Note, PipelineStage
    <3>5. chunk' \in [Runs -> 0 .. Chunks]
      <4>1. chunk[r] < Chunks
        BY <1>8 DEF Flush, RunInv, ClosedOnce
      <4>2. chunk' = [chunk EXCEPT ![r] = @ + 1]
        BY <1>8 DEF Flush
      <4> QED BY <4>1, <4>2, BacktestRunsConstants
    <3>6. UNCHANGED <<status, cancelled, runRow, report, announced, everClosed, cancelling>>
      BY <1>8 DEF Flush, Written, Note
    <3> QED BY <3>1, <3>2, <3>3, <3>4, <3>5, <3>6
  <2>2. \A s \in Runs \ {r} : Unmoved(s)
    BY <1>8 DEF Unmoved, Flush, Written, Note
  <2> QED BY <2>1, <2>2
<1>9. CASE StopCancelled(r)
  <2>1. RunsTypeOK'
    BY <1>9, BacktestRunsConstants
    DEF StopCancelled, Cleanup, PipelineStage, RunEvent, CANCELLABLE_STATES, Terminal
  <2>2. \A s \in Runs \ {r} : Unmoved(s)
    BY <1>9 DEF Unmoved, StopCancelled, Cleanup
  <2> QED BY <2>1, <2>2
<1>10. CASE CloseRemaining(r)
  <2>1. RunsTypeOK'
    <3>1. closed' \in [Runs -> SUBSET Positions]
      BY <1>10, BacktestRunsConstants DEF CloseRemaining, Transition, Positions
    <3>2. everClosed' \in [Runs -> SUBSET Positions]
      BY <1>10, BacktestRunsConstants DEF CloseRemaining, Transition, Positions
    <3>3. status' \in [Runs -> {"none"} \cup CANCELLABLE_STATES \cup Terminal]
      BY <1>10, BacktestRunsConstants DEF CloseRemaining, Transition, CANCELLABLE_STATES, Terminal
    <3>4. at' \in [Runs -> PipelineStage]
      BY <1>10, BacktestRunsConstants DEF CloseRemaining, Transition, PipelineStage
    <3>5. UNCHANGED <<cancelled, chunk, runRow, stored, report, announced, history, cancelling>>
      BY <1>10 DEF CloseRemaining, Transition
    <3> QED BY <3>1, <3>2, <3>3, <3>4, <3>5
  <2>2. \A s \in Runs \ {r} : Unmoved(s)
    BY <1>10 DEF Unmoved, CloseRemaining, Transition
  <2> QED BY <2>1, <2>2
<1>11. CASE PersistRow(r)
  <2>1. RunsTypeOK'
    BY <1>11, BacktestRunsConstants
    DEF PersistRow, PipelineStage, RunEvent, CANCELLABLE_STATES, Terminal
  <2>2. \A s \in Runs \ {r} : Unmoved(s)
    BY <1>11 DEF Unmoved, PersistRow
  <2> QED BY <2>1, <2>2
<1>12. CASE StoreRemaining(r)
  <2>1. RunsTypeOK'
    BY <1>12, BacktestRunsConstants
    DEF StoreRemaining, Written, PipelineStage, RunEvent, CANCELLABLE_STATES, Terminal
  <2>2. \A s \in Runs \ {r} : Unmoved(s)
    BY <1>12 DEF Unmoved, StoreRemaining, Written
  <2> QED BY <2>1, <2>2
<1>13. CASE PersistFails(r)
  <2>1. RunsTypeOK'
    <3>1. status' \in [Runs -> {"none"} \cup CANCELLABLE_STATES \cup Terminal]
      BY <1>13, BacktestRunsConstants, SMTT(30) DEF PersistFails, Caught, Cleanup, BeginFail, CANCELLABLE_STATES, Terminal
    <3>2. cancelled' \subseteq Runs
      BY <1>13, BacktestRunsConstants DEF PersistFails, Caught, Cleanup, BeginFail
    <3>3. at' \in [Runs -> PipelineStage]
      BY <1>13, BacktestRunsConstants, SMTT(30) DEF PersistFails, Caught, Cleanup, BeginFail, PipelineStage
    <3>4. closed' \in [Runs -> SUBSET Positions]
      BY <1>13, BacktestRunsConstants DEF PersistFails, Caught, Cleanup, BeginFail, Positions
    <3>5. UNCHANGED <<chunk, runRow, stored, report, announced, everClosed, history, cancelling>>
      BY <1>13 DEF PersistFails, Caught, Cleanup, BeginFail
    <3> QED BY <3>1, <3>2, <3>3, <3>4, <3>5
  <2>2. \A s \in Runs \ {r} : Unmoved(s)
    BY <1>13 DEF Unmoved, PersistFails, Caught, Cleanup, BeginFail
  <2> QED BY <2>1, <2>2
<1>14. CASE Report(r)
  <2>1. RunsTypeOK'
    <3>1. report' \in [Runs -> Int]
      <4>1. RowsStored(r) \in Int
        BY RowsCounted
      <4> QED BY <1>14, <4>1 DEF Report
    <3>2. at' \in [Runs -> PipelineStage]
      BY <1>14, BacktestRunsConstants DEF Report, PipelineStage
    <3>3. UNCHANGED <<status, closed, cancelled, chunk, runRow, stored, announced, everClosed, history, cancelling>>
      BY <1>14 DEF Report
    <3> QED BY <3>1, <3>2, <3>3
  <2>2. \A s \in Runs \ {r} : Unmoved(s)
    BY <1>14 DEF Unmoved, Report
  <2> QED BY <2>1, <2>2
<1>15. CASE Complete(r)
  <2>1. RunsTypeOK'
    <3>1. status' \in [Runs -> {"none"} \cup CANCELLABLE_STATES \cup Terminal]
      BY <1>15, BacktestRunsConstants DEF Complete, Caught, Cleanup, BeginFail, CANCELLABLE_STATES, Terminal
    <3>2. cancelled' \subseteq Runs
      BY <1>15, BacktestRunsConstants DEF Complete, Caught, Cleanup, BeginFail
    <3>3. at' \in [Runs -> PipelineStage]
      BY <1>15, BacktestRunsConstants, ZenonT(60) DEF Complete, Caught, Cleanup, BeginFail, PipelineStage
    <3>4. closed' \in [Runs -> SUBSET Positions]
      BY <1>15, BacktestRunsConstants DEF Complete, Caught, Cleanup, BeginFail, Positions
    <3>5. announced' \in [Runs -> SUBSET {"completed", "failed", "cancelled"}]
      BY <1>15, BacktestRunsConstants DEF Complete, Caught, Cleanup, BeginFail
    <3>6. UNCHANGED <<chunk, runRow, stored, report, everClosed, history, cancelling>>
      BY <1>15 DEF Complete, Caught, Cleanup, BeginFail
    <3> QED BY <3>1, <3>2, <3>3, <3>4, <3>5, <3>6
  <2>2. \A s \in Runs \ {r} : Unmoved(s)
    BY <1>15 DEF Unmoved, Complete, Caught, Cleanup, BeginFail
  <2> QED BY <2>1, <2>2
<1>16. CASE Fail(r)
  <2>1. RunsTypeOK'
    <3>1. runRow' \in [Runs -> {"none", "CONFIGURING"} \cup Terminal]
      BY <1>16, BacktestRunsConstants DEF Fail, Cleanup, Note, Terminal
    <3>2. history' \in [Runs -> SUBSET RunEvent]
      BY <1>16, BacktestRunsConstants, SMTT(30) DEF Fail, Cleanup, Note, RunEvent
    <3>3. announced' \in [Runs -> SUBSET {"completed", "failed", "cancelled"}]
      BY <1>16, BacktestRunsConstants DEF Fail, Cleanup, Note
    <3>4. status' \in [Runs -> {"none"} \cup CANCELLABLE_STATES \cup Terminal]
      BY <1>16, BacktestRunsConstants DEF Fail, Cleanup, Note, CANCELLABLE_STATES, Terminal
    <3>5. cancelled' \subseteq Runs
      BY <1>16, BacktestRunsConstants DEF Fail, Cleanup, Note
    <3>6. at' \in [Runs -> PipelineStage]
      BY <1>16, BacktestRunsConstants DEF Fail, Cleanup, Note, PipelineStage
    <3>7. closed' \in [Runs -> SUBSET Positions]
      BY <1>16, BacktestRunsConstants DEF Fail, Cleanup, Note, Positions
    <3>8. UNCHANGED <<chunk, stored, report, everClosed, cancelling>>
      BY <1>16 DEF Fail, Cleanup, Note
    <3> QED BY <3>1, <3>2, <3>3, <3>4, <3>5, <3>6, <3>7, <3>8
  <2>2. \A s \in Runs \ {r} : Unmoved(s)
    BY <1>16 DEF Unmoved, Fail, Cleanup, Note
  <2> QED BY <2>1, <2>2
<1>17. CASE CancelRun(r)
  <2>1. RunsTypeOK'
    BY <1>17, BacktestRunsConstants
    DEF CancelRun, Cancellable, Note, Transition, PipelineStage, RunEvent, CANCELLABLE_STATES, Terminal
  <2>2. \A s \in Runs \ {r} : Unmoved(s)
    BY <1>17 DEF Unmoved, CancelRun, Cancellable, Note, Transition
  <2> QED BY <2>1, <2>2
<1>18. CASE CancelRecorded(r)
  <2>1. RunsTypeOK'
    BY <1>18, BacktestRunsConstants
    DEF CancelRecorded, PipelineStage, RunEvent, CANCELLABLE_STATES, Terminal
  <2>2. \A s \in Runs \ {r} : Unmoved(s)
    BY <1>18 DEF Unmoved, CancelRecorded
  <2> QED BY <2>1, <2>2
<1>19. CASE CancelUnrecorded(r)
  <2>1. RunsTypeOK'
    BY <1>19, BacktestRunsConstants
    DEF CancelUnrecorded, Note, PipelineStage, RunEvent, CANCELLABLE_STATES, Terminal
  <2>2. \A s \in Runs \ {r} : Unmoved(s)
    BY <1>19 DEF Unmoved, CancelUnrecorded, Note
  <2> QED BY <2>1, <2>2
<1> QED
  BY <1>1, <1>2, <1>3, <1>4, <1>5, <1>6, <1>7, <1>8, <1>9, <1>10, <1>11, <1>12, <1>13, <1>14, <1>15, <1>16, <1>17, <1>18, <1>19
  DEF RunStep

(* What a batch writes is in the database with what was there before.       *)
LEMMA WrittenInDatabase ==
    ASSUME RunsTypeOK, NEW r \in Runs, Written(r), UNCHANGED history,
           closed[r] \subseteq everClosed[r], everClosed'[r] = everClosed[r],
           InDatabase(r, everClosed[r] \ closed[r])
    PROVE  InDatabase(r, everClosed[r])'
<1>1. \A p \in Positions : stored'[r][p] = IF p \in closed[r] THEN stored[r][p] + 1 ELSE stored[r][p]
  BY DEF Written, RunsTypeOK
<1>2. /\ everClosed[r] \subseteq Positions
      /\ \A p \in Positions : stored[r][p] \in Nat
  BY DEF RunsTypeOK
<1>3. \A p \in everClosed[r] : stored'[r][p] >= 1
  BY <1>1, <1>2 DEF InDatabase
<1>4. Acknowledged(r)' => Acknowledged(r)
  BY DEF Acknowledged, Happened
<1>5. Acknowledged(r)' =>
        \A p \in Positions : stored'[r][p] = (IF p \in everClosed[r] THEN 1 ELSE 0)
  BY <1>1, <1>2, <1>4 DEF InDatabase
<1> QED BY <1>3, <1>5 DEF InDatabase

LEMMA RunStepKept ==
    ASSUME RunsTypeOK, NEW r \in Runs, RunInv(r), RunStep(r)
    PROVE  RunInv(r)'
<1>t. /\ r \in DOMAIN status /\ r \in DOMAIN at /\ r \in DOMAIN chunk /\ r \in DOMAIN closed
      /\ r \in DOMAIN runRow /\ r \in DOMAIN stored /\ r \in DOMAIN report
      /\ r \in DOMAIN announced /\ r \in DOMAIN everClosed /\ r \in DOMAIN history
  BY DEF RunsTypeOK
<1> USE DEF RunInv
<1>1. CASE BeginCreate(r)
  <2>1. StatusFollowsPipeline(r)'
    BY <1>t, <1>1 DEF StatusFollowsPipeline, CANCELLABLE_STATES, VALID_TRANSITIONS, Terminal, BeginCreate, Note
  <2>2. ClosedOnce(r)'
    BY <1>t, <1>1 DEF ClosedOnce, BeginCreate, Note
  <2>3. NothingLost(r)'
    BY <1>t, <1>1 DEF NothingLost, InDatabase, Acknowledged, Happened, BeginCreate, Note
  <2>4. EndTold(r)'
    BY <1>t, <1>1 DEF EndTold, StatusFollowsPipeline, Cancelled, Happened, BeginCreate, Note
  <2> QED BY <2>1, <2>2, <2>3, <2>4
<1>2. CASE Created(r)
  <2>1. StatusFollowsPipeline(r)'
    BY <1>t, <1>2 DEF StatusFollowsPipeline, CANCELLABLE_STATES, VALID_TRANSITIONS, Terminal, Created
  <2>2. ClosedOnce(r)'
    BY <1>t, <1>2 DEF ClosedOnce, Created
  <2>3. NothingLost(r)'
    BY <1>t, <1>2 DEF NothingLost, InDatabase, Acknowledged, Happened, Created
  <2>4. EndTold(r)'
    BY <1>t, <1>2 DEF EndTold, StatusFollowsPipeline, Cancelled, Happened, Created
  <2> QED BY <2>1, <2>2, <2>3, <2>4
<1>3. CASE InsertFails(r)
  <2>1. StatusFollowsPipeline(r)'
    BY <1>t, <1>3 DEF StatusFollowsPipeline, CANCELLABLE_STATES, VALID_TRANSITIONS, Terminal, InsertFails
  <2>2. ClosedOnce(r)'
    BY <1>t, <1>3 DEF ClosedOnce, InsertFails
  <2>3. NothingLost(r)'
    BY <1>t, <1>3 DEF NothingLost, InDatabase, Acknowledged, Happened, InsertFails
  <2>4. EndTold(r)'
    BY <1>t, <1>3 DEF EndTold, StatusFollowsPipeline, Cancelled, Happened, InsertFails
  <2> QED BY <2>1, <2>2, <2>3, <2>4
<1>4. CASE Refuse(r)
  <2>1. StatusFollowsPipeline(r)'
    BY <1>t, <1>4 DEF StatusFollowsPipeline, CANCELLABLE_STATES, VALID_TRANSITIONS, Terminal, Refuse, BeginFail
  <2>2. ClosedOnce(r)'
    BY <1>t, <1>4 DEF ClosedOnce, Refuse, BeginFail
  <2>3. NothingLost(r)'
    BY <1>t, <1>4 DEF NothingLost, InDatabase, Acknowledged, Happened, Refuse, BeginFail
  <2>4. EndTold(r)'
    BY <1>t, <1>4 DEF EndTold, StatusFollowsPipeline, Cancelled, Happened, Refuse, BeginFail
  <2> QED BY <2>1, <2>2, <2>3, <2>4
<1>5. CASE LoadFails(r)
  <2>1. StatusFollowsPipeline(r)'
    BY <1>t, <1>5 DEF StatusFollowsPipeline, CANCELLABLE_STATES, VALID_TRANSITIONS, Terminal, LoadFails, Caught, Cleanup, BeginFail
  <2>2. ClosedOnce(r)'
    BY <1>t, <1>5 DEF ClosedOnce, LoadFails, Caught, Cleanup, BeginFail
  <2>3. NothingLost(r)'
    BY <1>t, <1>5 DEF NothingLost, InDatabase, Acknowledged, Happened, LoadFails, Caught, Cleanup, BeginFail
  <2>4. EndTold(r)'
    BY <1>t, <1>5 DEF EndTold, StatusFollowsPipeline, Cancelled, Happened, LoadFails, Caught, Cleanup, BeginFail
  <2> QED BY <2>1, <2>2, <2>3, <2>4
<1>6. CASE Simulate(r)
  <2>1. StatusFollowsPipeline(r)'
    BY <1>t, <1>6 DEF StatusFollowsPipeline, CANCELLABLE_STATES, VALID_TRANSITIONS, Terminal, Simulate, Caught, Cleanup, BeginFail, Transition
  <2>2. ClosedOnce(r)'
    BY <1>t, <1>6 DEF ClosedOnce, Simulate, Caught, Cleanup, BeginFail, Transition
  <2>3. NothingLost(r)'
    BY <1>t, <1>6 DEF NothingLost, InDatabase, Acknowledged, Happened, Simulate, Caught, Cleanup, BeginFail, Transition
  <2>4. EndTold(r)'
    BY <1>t, <1>6 DEF EndTold, StatusFollowsPipeline, Cancelled, Happened, Simulate, Caught, Cleanup, BeginFail, Transition
  <2> QED BY <2>1, <2>2, <2>3, <2>4
<1>7. CASE Chunk(r)
  <2>1. StatusFollowsPipeline(r)'
    BY <1>t, <1>7 DEF StatusFollowsPipeline, CANCELLABLE_STATES, VALID_TRANSITIONS, Terminal, Chunk
  <2>c. /\ at[r] = "simulating" /\ chunk[r] < Chunks /\ chunk[r] \in Nat
        /\ everClosed[r] \subseteq 1 .. chunk[r] /\ closed[r] \subseteq everClosed[r]
    BY <1>7, BacktestRunsConstants DEF Chunk, ClosedOnce, RunsTypeOK
  <2>s. PICK sold \in {{}, {chunk[r] + 1}} :
          /\ closed'[r] = closed[r] \cup sold /\ everClosed'[r] = everClosed[r] \cup sold
          /\ \/ at'[r] = "flushing" /\ chunk'[r] = chunk[r]
             \/ at'[r] = "simulating" /\ chunk'[r] = chunk[r] + 1
    BY <1>t, <1>7 DEF Chunk
  <2>u. UNCHANGED <<stored, report, announced, history>>
    BY <1>7 DEF Chunk
  <2>2. ClosedOnce(r)'
    <3>1. closed'[r] \subseteq everClosed'[r] /\ everClosed'[r] \subseteq 1 .. (chunk[r] + 1)
      BY <2>c, <2>s
    <3> QED BY <2>c, <2>s, <3>1 DEF ClosedOnce
  <2>3. NothingLost(r)'
    <3>1. everClosed'[r] \ closed'[r] = everClosed[r] \ closed[r]
      BY <2>c, <2>s
    <3>2. InDatabase(r, everClosed[r] \ closed[r])' /\ report'[r] = -1
      BY <2>c, <2>u, <3>1 DEF NothingLost, InDatabase, Acknowledged, Happened
    <3>3. "completed" \notin announced'[r]
      BY <2>c, <2>u DEF EndTold
    <3> QED BY <2>s, <3>1, <3>2, <3>3 DEF NothingLost
  <2>4. EndTold(r)'
    BY <1>t, <1>7 DEF EndTold, StatusFollowsPipeline, Cancelled, Happened, Chunk
  <2> QED BY <2>1, <2>2, <2>3, <2>4
<1>8. CASE Flush(r)
  <2>1. StatusFollowsPipeline(r)'
    BY <1>t, <1>8 DEF StatusFollowsPipeline, CANCELLABLE_STATES, VALID_TRANSITIONS, Terminal, Flush, Written, Note
  <2>2. ClosedOnce(r)'
    BY <1>t, <1>8 DEF ClosedOnce, Flush, Written, Note
  <2>3. NothingLost(r)'
    <3>1. /\ at[r] = "flushing" /\ at'[r] = "simulating" /\ "completed" \notin announced'[r]
          /\ everClosed'[r] = everClosed[r] /\ report'[r] = -1 /\ closed[r] \subseteq everClosed[r]
      BY <1>t, <1>8 DEF Flush, EndTold, NothingLost, ClosedOnce
    <3>2. InDatabase(r, everClosed[r] \ closed[r])
      BY <3>1 DEF NothingLost
    <3>3. InDatabase(r, everClosed[r] \ closed[r])'
      <4>1. CASE Written(r) /\ closed' = [closed EXCEPT ![r] = {}] /\ UNCHANGED history
        <5>1. InDatabase(r, everClosed[r])'
          BY <3>1, <3>2, <4>1, WrittenInDatabase
        <5>2. everClosed'[r] \ closed'[r] = everClosed'[r]
          BY <1>t, <4>1
        <5> QED BY <3>1, <5>1, <5>2
      <4>2. CASE Written(r) /\ Note(r, "unacknowledged") /\ UNCHANGED closed
        <5>1. ~Acknowledged(r)'
          BY <1>t, <4>2 DEF Note, Acknowledged, Happened
        <5>2. \A p \in everClosed[r] \ closed[r] : stored'[r][p] = stored[r][p]
          BY <1>t, <4>2 DEF Written, RunsTypeOK
        <5> QED BY <3>1, <3>2, <4>2, <5>1, <5>2 DEF InDatabase
      <4>3. CASE UNCHANGED <<stored, closed, history>>
        BY <3>1, <3>2, <4>3 DEF InDatabase, Acknowledged, Happened
      <4> QED BY <1>8, <4>1, <4>2, <4>3 DEF Flush
    <3> QED BY <3>1, <3>3 DEF NothingLost
  <2>4. EndTold(r)'
    BY <1>t, <1>8 DEF EndTold, StatusFollowsPipeline, Cancelled, Happened, Flush, Written, Note
  <2> QED BY <2>1, <2>2, <2>3, <2>4
<1>9. CASE StopCancelled(r)
  <2>1. StatusFollowsPipeline(r)'
    BY <1>t, <1>9 DEF StatusFollowsPipeline, CANCELLABLE_STATES, VALID_TRANSITIONS, Terminal, StopCancelled, Cleanup
  <2>2. ClosedOnce(r)'
    BY <1>t, <1>9 DEF ClosedOnce, StopCancelled, Cleanup
  <2>3. NothingLost(r)'
    BY <1>t, <1>9 DEF NothingLost, InDatabase, Acknowledged, Happened, StopCancelled, Cleanup
  <2>4. EndTold(r)'
    BY <1>t, <1>9 DEF EndTold, StatusFollowsPipeline, Cancelled, Happened, StopCancelled, Cleanup
  <2> QED BY <2>1, <2>2, <2>3, <2>4
<1>10. CASE CloseRemaining(r)
  <2>1. StatusFollowsPipeline(r)'
    BY <1>t, <1>10 DEF StatusFollowsPipeline, CANCELLABLE_STATES, VALID_TRANSITIONS, Terminal, CloseRemaining, Transition
  <2>2. ClosedOnce(r)'
    BY <1>t, <1>10 DEF ClosedOnce, CloseRemaining, Transition
  <2>3. NothingLost(r)'
    <3>1. /\ at[r] = "simulating" /\ chunk[r] = Chunks /\ at'[r] = "persisting"
          /\ everClosed[r] \subseteq 1 .. Chunks /\ UNCHANGED <<stored, report, announced, history>>
      BY <1>t, <1>10 DEF CloseRemaining, ClosedOnce
    <3>2. PICK sold \in {{}, {Chunks + 1}} :
            closed'[r] = closed[r] \cup sold /\ everClosed'[r] = everClosed[r] \cup sold
      BY <1>t, <1>10 DEF CloseRemaining
    <3>3. everClosed'[r] \ closed'[r] = everClosed[r] \ closed[r]
      BY <3>1, <3>2, BacktestRunsConstants
    <3>4. InDatabase(r, everClosed[r] \ closed[r])' /\ report'[r] = -1
      BY <3>1, <3>3 DEF NothingLost, InDatabase, Acknowledged, Happened
    <3>5. "completed" \notin announced'[r]
      BY <3>1 DEF EndTold
    <3> QED BY <3>1, <3>3, <3>4, <3>5 DEF NothingLost
  <2>4. EndTold(r)'
    BY <1>t, <1>10 DEF EndTold, StatusFollowsPipeline, Cancelled, Happened, CloseRemaining, Transition
  <2> QED BY <2>1, <2>2, <2>3, <2>4
<1>11. CASE PersistRow(r)
  <2>1. StatusFollowsPipeline(r)'
    BY <1>t, <1>11 DEF StatusFollowsPipeline, CANCELLABLE_STATES, VALID_TRANSITIONS, Terminal, PersistRow
  <2>2. ClosedOnce(r)'
    BY <1>t, <1>11 DEF ClosedOnce, PersistRow
  <2>3. NothingLost(r)'
    BY <1>t, <1>11 DEF NothingLost, InDatabase, Acknowledged, Happened, PersistRow
  <2>4. EndTold(r)'
    BY <1>t, <1>11 DEF EndTold, StatusFollowsPipeline, Cancelled, Happened, PersistRow
  <2> QED BY <2>1, <2>2, <2>3, <2>4
<1>12. CASE StoreRemaining(r)
  <2>1. StatusFollowsPipeline(r)'
    BY <1>t, <1>12 DEF StatusFollowsPipeline, CANCELLABLE_STATES, VALID_TRANSITIONS, Terminal, StoreRemaining, Written
  <2>2. ClosedOnce(r)'
    BY <1>t, <1>12 DEF ClosedOnce, StoreRemaining, Written
  <2>3. NothingLost(r)'
    <3>1. /\ at[r] = "storing" /\ at'[r] = "reporting" /\ "completed" \notin announced'[r]
          /\ everClosed'[r] = everClosed[r] /\ report'[r] = -1 /\ closed[r] \subseteq everClosed[r]
          /\ UNCHANGED history /\ Written(r)
      BY <1>t, <1>12 DEF StoreRemaining, EndTold, NothingLost, ClosedOnce
    <3>2. InDatabase(r, everClosed[r] \ closed[r])
      BY <3>1 DEF NothingLost
    <3>3. InDatabase(r, everClosed[r])'
      BY <3>1, <3>2, WrittenInDatabase
    <3> QED BY <3>1, <3>3 DEF NothingLost
  <2>4. EndTold(r)'
    BY <1>t, <1>12 DEF EndTold, StatusFollowsPipeline, Cancelled, Happened, StoreRemaining, Written
  <2> QED BY <2>1, <2>2, <2>3, <2>4
<1>13. CASE PersistFails(r)
  <2>1. StatusFollowsPipeline(r)'
    BY <1>t, <1>13 DEF StatusFollowsPipeline, CANCELLABLE_STATES, VALID_TRANSITIONS, Terminal, PersistFails, Caught, Cleanup, BeginFail
  <2>2. ClosedOnce(r)'
    BY <1>t, <1>13 DEF ClosedOnce, PersistFails, Caught, Cleanup, BeginFail
  <2>3. NothingLost(r)'
    BY <1>t, <1>13 DEF NothingLost, InDatabase, Acknowledged, Happened, PersistFails, Caught, Cleanup, BeginFail
  <2>4. EndTold(r)'
    BY <1>t, <1>13 DEF EndTold, StatusFollowsPipeline, Cancelled, Happened, PersistFails, Caught, Cleanup, BeginFail
  <2> QED BY <2>1, <2>2, <2>3, <2>4
<1>14. CASE Report(r)
  <2>1. StatusFollowsPipeline(r)'
    BY <1>t, <1>14 DEF StatusFollowsPipeline, CANCELLABLE_STATES, VALID_TRANSITIONS, Terminal, Report
  <2>2. ClosedOnce(r)'
    BY <1>t, <1>14 DEF ClosedOnce, Report
  <2>3. NothingLost(r)'
    <3>1. /\ at[r] = "reporting" /\ at'[r] = "completing"
          /\ UNCHANGED <<stored, everClosed, history>>
      BY <1>t, <1>14 DEF Report
    <3>2. InDatabase(r, everClosed[r]) /\ report[r] = -1
      BY <3>1 DEF NothingLost
    <3>3. report'[r] \in {-1, RowsStored(r)}
      BY <1>t, <1>14, <3>2 DEF Report
    <3>4. Acknowledged(r) => RowsStored(r) = Cardinality(everClosed[r])
      BY <3>2, RowsCounted DEF InDatabase, RunsTypeOK
    <3>5. InDatabase(r, everClosed[r])' /\ (Acknowledged(r)' <=> Acknowledged(r))
      BY <3>1, <3>2 DEF InDatabase, Acknowledged, Happened
    <3> QED BY <3>1, <3>3, <3>4, <3>5 DEF NothingLost
  <2>4. EndTold(r)'
    BY <1>t, <1>14 DEF EndTold, StatusFollowsPipeline, Cancelled, Happened, Report
  <2> QED BY <2>1, <2>2, <2>3, <2>4
<1>15. CASE Complete(r)
  <2>1. StatusFollowsPipeline(r)'
    BY <1>t, <1>15 DEF StatusFollowsPipeline, CANCELLABLE_STATES, VALID_TRANSITIONS, Terminal, Complete, Caught, Cleanup, BeginFail
  <2>2. ClosedOnce(r)'
    BY <1>t, <1>15 DEF ClosedOnce, Complete, Caught, Cleanup, BeginFail
  <2>3. NothingLost(r)'
    BY <1>t, <1>15 DEF NothingLost, InDatabase, Acknowledged, Happened, Complete, Caught, Cleanup, BeginFail
  <2>4. EndTold(r)'
    <3>1. at[r] = "completing" /\ UNCHANGED <<runRow, cancelling, history>>
      BY <1>15 DEF Complete, Caught
    <3>2. CASE <<status[r], "COMPLETE">> \in VALID_TRANSITIONS
      <4>1. r \notin cancelled /\ ~Cancelled(r)
        BY <3>1, <3>2 DEF VALID_TRANSITIONS, CANCELLABLE_STATES, Terminal, StatusFollowsPipeline, EndTold
      <4>2. announced[r] = {}
        <5>1. announced[r] \subseteq {"completed", "failed", "cancelled"}
          BY DEF RunsTypeOK
        <5> QED BY <3>1, <4>1, <5>1 DEF EndTold
      <4>3. announced'[r] = {"completed"} /\ at'[r] = "ended" /\ r \notin cancelled'
        BY <1>t, <1>15, <3>2, <4>2 DEF Complete, Cleanup
      <4>4. ~Cancelled(r)' /\ r \notin cancelling'
        BY <3>1, <4>1 DEF EndTold, Cancelled, Happened
      <4> QED BY <4>3, <4>4 DEF EndTold, Cancelled
    <3>3. CASE <<status[r], "COMPLETE">> \notin VALID_TRANSITIONS
      BY <1>t, <1>15, <3>3
      DEF EndTold, StatusFollowsPipeline, Cancelled, Happened, Complete, Caught, Cleanup, BeginFail
    <3> QED BY <3>2, <3>3
  <2> QED BY <2>1, <2>2, <2>3, <2>4
<1>16. CASE Fail(r)
  <2>1. StatusFollowsPipeline(r)'
    BY <1>t, <1>16 DEF StatusFollowsPipeline, CANCELLABLE_STATES, VALID_TRANSITIONS, Terminal, Fail, Cleanup, Note
  <2>2. ClosedOnce(r)'
    BY <1>t, <1>16 DEF ClosedOnce, Fail, Cleanup, Note
  <2>3. NothingLost(r)'
    BY <1>t, <1>16 DEF NothingLost, InDatabase, Acknowledged, Happened, Fail, Cleanup, Note
  <2>4. EndTold(r)'
    BY <1>t, <1>16 DEF EndTold, StatusFollowsPipeline, Cancelled, Happened, Fail, Cleanup, Note
  <2> QED BY <2>1, <2>2, <2>3, <2>4
<1>17. CASE CancelRun(r)
  <2>1. StatusFollowsPipeline(r)'
    BY <1>t, <1>17 DEF StatusFollowsPipeline, CANCELLABLE_STATES, VALID_TRANSITIONS, Terminal, CancelRun, Cancellable, Note, Transition
  <2>2. ClosedOnce(r)'
    BY <1>t, <1>17 DEF ClosedOnce, CancelRun, Cancellable, Note, Transition
  <2>3. NothingLost(r)'
    BY <1>t, <1>17 DEF NothingLost, InDatabase, Acknowledged, Happened, CancelRun, Cancellable, Note, Transition
  <2>4. EndTold(r)'
    <3>1. /\ status[r] \in CANCELLABLE_STATES /\ UNCHANGED <<at, runRow, announced>>
          /\ r \in cancelled' /\ history'[r] = history[r] \cup
                 {IF status[r] = "GENERATING_REPORT" THEN "cancelledLate" ELSE "cancelledEarly"}
      BY <1>t, <1>17 DEF CancelRun, Cancellable, Note
    <3>2. Cancelled(r)' /\ at[r] \notin {"none", "creating", "failing", "ended"}
      BY <3>1 DEF Cancelled, Happened, CANCELLABLE_STATES, StatusFollowsPipeline
    <3>3. "completed" \notin announced[r] /\ "failed" \notin announced[r]
      BY <3>2 DEF EndTold
    <3>4. at[r] \in {"persisting", "storing", "reporting", "completing"} =>
            ~Happened(r, "cancelledEarly")'
      BY <3>1 DEF Happened, EndTold, StatusFollowsPipeline, CANCELLABLE_STATES
    <3>5. Happened(r, "cancelledEarly")' => runRow[r] # "COMPLETE"
      BY <3>2, <3>4 DEF EndTold
    <3>6. runRow[r] = "COMPLETE" => at[r] \in {"storing", "reporting", "completing", "failing", "ended"}
      BY DEF EndTold
    <3> QED BY <3>1, <3>2, <3>3, <3>4, <3>5, <3>6 DEF EndTold
  <2> QED BY <2>1, <2>2, <2>3, <2>4
<1>18. CASE CancelRecorded(r)
  <2>1. StatusFollowsPipeline(r)'
    BY <1>t, <1>18 DEF StatusFollowsPipeline, CANCELLABLE_STATES, VALID_TRANSITIONS, Terminal, CancelRecorded
  <2>2. ClosedOnce(r)'
    BY <1>t, <1>18 DEF ClosedOnce, CancelRecorded
  <2>3. NothingLost(r)'
    BY <1>t, <1>18 DEF NothingLost, InDatabase, Acknowledged, Happened, CancelRecorded
  <2>4. EndTold(r)'
    BY <1>t, <1>18 DEF EndTold, StatusFollowsPipeline, Cancelled, Happened, CancelRecorded
  <2> QED BY <2>1, <2>2, <2>3, <2>4
<1>19. CASE CancelUnrecorded(r)
  <2>1. StatusFollowsPipeline(r)'
    BY <1>t, <1>19 DEF StatusFollowsPipeline, CANCELLABLE_STATES, VALID_TRANSITIONS, Terminal, CancelUnrecorded, Note
  <2>2. ClosedOnce(r)'
    BY <1>t, <1>19 DEF ClosedOnce, CancelUnrecorded, Note
  <2>3. NothingLost(r)'
    BY <1>t, <1>19 DEF NothingLost, InDatabase, Acknowledged, Happened, CancelUnrecorded, Note
  <2>4. EndTold(r)'
    BY <1>t, <1>19 DEF EndTold, StatusFollowsPipeline, Cancelled, Happened, CancelUnrecorded, Note
  <2> QED BY <2>1, <2>2, <2>3, <2>4
<1> QED
  BY <1>1, <1>2, <1>3, <1>4, <1>5, <1>6, <1>7, <1>8, <1>9, <1>10, <1>11, <1>12, <1>13, <1>14, <1>15, <1>16, <1>17, <1>18, <1>19
  DEF RunStep

LEMMA FewerPlaces ==
    ASSUME PlacesCounted, ActiveRuns' \subseteq ActiveRuns, Creating' \subseteq Creating,
           \A s \in Runs : Happened(s, "overlapped") => Happened(s, "overlapped")'
    PROVE  PlacesCounted'
<1>1. /\ IsFiniteSet(ActiveRuns') /\ Cardinality(ActiveRuns') <= Cardinality(ActiveRuns)
      /\ Cardinality(ActiveRuns') \in Nat /\ Cardinality(ActiveRuns) \in Nat
  BY FS_Subset, FS_CardinalityType DEF PlacesCounted
<1>2. MaxRuns \in Nat
  BY BacktestRunsConstants
<1> QED BY <1>1, <1>2 DEF PlacesCounted

LEMMA PlacesStep ==
    ASSUME RunsTypeOK, \A s \in Runs : RunInv(s), PlacesCounted, NEW r \in Runs, RunStep(r)
    PROVE  PlacesCounted'
<1>1. \A s \in Runs \ {r} : Unmoved(s)
  BY RunStepTyped
<1>2. \A s \in Runs : Happened(s, "overlapped") => Happened(s, "overlapped")'
  <2>1. history[r] \subseteq history'[r]
    BY DEF RunStep, BeginCreate, Created, InsertFails, Refuse, LoadFails, Simulate, Chunk, Flush,
           StopCancelled, CloseRemaining, PersistRow, StoreRemaining, PersistFails, Report, Complete,
           Fail, CancelRun, CancelRecorded, CancelUnrecorded, Caught, Note, RunsTypeOK
  <2> QED BY <1>1, <2>1 DEF Unmoved, Happened
<1>3. CASE BeginCreate(r)
  <2>1. /\ ActiveRuns' = ActiveRuns /\ Creating' = Creating \cup {r}
        /\ Cardinality(ActiveRuns) < MaxRuns
    BY <1>3 DEF BeginCreate, ActiveRuns, Creating, RunsTypeOK
  <2>2. Creating # {} => Happened(r, "overlapped")'
    BY <1>3 DEF BeginCreate, Note, Happened, RunsTypeOK
  <2> QED BY <1>2, <2>1, <2>2 DEF PlacesCounted
<1>4. CASE Created(r)
  <2>1. ActiveRuns' = ActiveRuns \cup {r} /\ Creating' = Creating \ {r} /\ r \in Creating
    BY <1>4 DEF Created, ActiveRuns, Creating, RunsTypeOK, Terminal
  <2>2. IsFiniteSet(ActiveRuns')
    BY <2>1, FS_AddElement DEF PlacesCounted
  <2>3. ASSUME \A s \in Runs : ~Happened(s, "overlapped")'
        PROVE  Cardinality(ActiveRuns') <= MaxRuns /\ Creating' = {}
    <3>1. Cardinality(ActiveRuns) < MaxRuns /\ Creating = {r}
      BY <1>2, <2>1, <2>3 DEF PlacesCounted
    <3>2. Cardinality(ActiveRuns) \in Nat /\ Cardinality(ActiveRuns') <= Cardinality(ActiveRuns) + 1
      BY <2>1, FS_AddElement, FS_CardinalityType DEF PlacesCounted
    <3>3. Cardinality(ActiveRuns') \in Nat /\ MaxRuns \in Nat
      BY <2>2, FS_CardinalityType, BacktestRunsConstants
    <3> QED BY <2>1, <3>1, <3>2, <3>3
  <2> QED BY <2>2, <2>3 DEF PlacesCounted
<1>5. ASSUME ~BeginCreate(r), ~Created(r) PROVE PlacesCounted'
  <2>1. /\ at'[r] = "creating" => at[r] = "creating"
        /\ status'[r] \notin Terminal \cup {"none"} => status[r] \notin Terminal \cup {"none"}
    <3> USE DEF RunsTypeOK, RunInv, StatusFollowsPipeline, Terminal, CANCELLABLE_STATES, VALID_TRANSITIONS
    <3>1. CASE InsertFails(r)
      BY <3>1 DEF InsertFails
    <3>2. CASE Refuse(r)
      BY <3>2 DEF Refuse, BeginFail
    <3>3. CASE LoadFails(r)
      BY <3>3 DEF LoadFails, Caught, Cleanup, BeginFail
    <3>4. CASE Simulate(r)
      BY <3>4 DEF Simulate, Caught, Cleanup, BeginFail, Transition
    <3>5. CASE Chunk(r)
      BY <3>5 DEF Chunk
    <3>6. CASE Flush(r)
      BY <3>6 DEF Flush, Written, Note
    <3>7. CASE StopCancelled(r)
      BY <3>7 DEF StopCancelled, Cleanup
    <3>8. CASE CloseRemaining(r)
      BY <3>8 DEF CloseRemaining, Transition
    <3>9. CASE PersistRow(r)
      BY <3>9 DEF PersistRow
    <3>10. CASE StoreRemaining(r)
      BY <3>10 DEF StoreRemaining, Written
    <3>11. CASE PersistFails(r)
      BY <3>11 DEF PersistFails, Caught, Cleanup, BeginFail
    <3>12. CASE Report(r)
      BY <3>12 DEF Report
    <3>13. CASE Complete(r)
      BY <3>13 DEF Complete, Caught, Cleanup, BeginFail
    <3>14. CASE Fail(r)
      BY <3>14 DEF Fail, Cleanup, Note
    <3>15. CASE CancelRun(r)
      BY <3>15 DEF CancelRun, Cancellable, Note, Transition
    <3>16. CASE CancelRecorded(r)
      BY <3>16 DEF CancelRecorded
    <3>17. CASE CancelUnrecorded(r)
      BY <3>17 DEF CancelUnrecorded, Note
    <3> QED BY <1>5, <3>1, <3>2, <3>3, <3>4, <3>5, <3>6, <3>7, <3>8, <3>9, <3>10, <3>11, <3>12, <3>13, <3>14, <3>15, <3>16, <3>17 DEF RunStep
  <2>2. ActiveRuns' \subseteq ActiveRuns /\ Creating' \subseteq Creating
    BY <1>1, <2>1 DEF ActiveRuns, Creating, Unmoved
  <2> QED BY <1>2, <2>2, FewerPlaces
<1> QED BY <1>3, <1>4, <1>5

LEMMA RestartKept ==
    ASSUME RunsInv, Restart
    PROVE  RunsInv'
<1> DEFINE live == {r \in Runs : at[r] \notin {"none", "ended"}}
<1>1. /\ \A r \in Runs : history'[r] = IF r \in live \cup cancelling
                                      THEN history[r] \cup {"interrupted"} ELSE history[r]
      /\ \A r \in Runs : at'[r] = IF r \in live THEN "ended" ELSE at[r]
      /\ \A r \in Runs : status'[r] = "none" /\ closed'[r] = {}
      /\ cancelled' = {} /\ cancelling' = {}
      /\ UNCHANGED <<chunk, stored, report, announced, everClosed>>
  BY DEF Restart
<1>2. \A r \in Runs : runRow'[r] = runRow[r] \/ (runRow[r] \in CANCELLABLE_STATES /\ runRow'[r] = "FAILED")
  BY DEF Restart
<1>3. RunsTypeOK'
  <2>1. status' \in [Runs -> {"none"} \cup CANCELLABLE_STATES \cup Terminal]
    BY DEF Restart
  <2>2. at' \in [Runs -> PipelineStage]
    BY DEF Restart, RunsInv, RunsTypeOK, PipelineStage
  <2>3. closed' \in [Runs -> SUBSET Positions] /\ cancelled' \subseteq Runs /\ cancelling' \subseteq Runs
    BY DEF Restart
  <2>4. runRow' \in [Runs -> {"none", "CONFIGURING"} \cup Terminal]
    BY DEF Restart, RunsInv, RunsTypeOK, Terminal
  <2>5. history' \in [Runs -> SUBSET RunEvent]
    BY DEF Restart, RunsInv, RunsTypeOK, RunEvent
  <2> QED BY <1>1, <2>1, <2>2, <2>3, <2>4, <2>5 DEF RunsInv, RunsTypeOK
<1>4. ASSUME NEW r \in Runs PROVE RunInv(r)'
  <2>1. StatusFollowsPipeline(r)'
    BY <1>1 DEF RunsInv, RunInv, StatusFollowsPipeline
  <2>2. ClosedOnce(r)'
    BY <1>1 DEF RunsInv, RunInv, ClosedOnce
  <2>3. NothingLost(r)'
    BY <1>1, ZenonT(60) DEF RunsInv, RunInv, NothingLost, ClosedOnce, InDatabase, Acknowledged, Happened
  <2>4. EndTold(r)'
    <3>1. EndTold(r) /\ StatusFollowsPipeline(r)
      BY DEF RunsInv, RunInv
    <3>2. Cancelled(r)' <=> Cancelled(r)
      <4>1. history'[r] = history[r] \/ history'[r] = history[r] \cup {"interrupted"}
        BY <1>1
      <4>2. /\ "cancelledEarly" \in history'[r] <=> "cancelledEarly" \in history[r]
            /\ "cancelledLate" \in history'[r] <=> "cancelledLate" \in history[r]
        <5> HIDE DEF live
        <5> QED BY <4>1
      <4> QED BY <4>2 DEF Cancelled, Happened
    <3>3. Cancelled(r) => at'[r] = "ended"
      <4>1. r \in cancelled => at[r] \notin {"none", "ended"}
        BY <3>1 DEF StatusFollowsPipeline
      <4> QED BY <1>1, <3>1, <4>1 DEF EndTold
    <3>4. \A what \in RunEvent : /\ Happened(r, what) => Happened(r, what)'
                                 /\ what # "interrupted" /\ Happened(r, what)' => Happened(r, what)
      BY <1>1, ZenonT(60) DEF Happened
    <3>5. at[r] \notin {"none", "ended"} => Happened(r, "interrupted")' /\ at'[r] = "ended"
      BY <1>1 DEF Happened
    <3>6. at[r] \in {"none", "ended"} => at'[r] = at[r]
      BY <1>1
    <3>7. runRow'[r] = "COMPLETE" => runRow[r] = "COMPLETE"
      BY <1>2
    <3>8. announced'[r] = announced[r] /\ r \notin cancelled' \cup cancelling'
      BY <1>1
    <3> HIDE DEF live
    <3>9. \A what \in {"interrupted", "unrecorded", "cancelledLate", "cancelledEarly"} : what \in RunEvent
      BY DEF RunEvent
    <3> QED BY <3>1, <3>2, <3>3, <3>4, <3>5, <3>6, <3>7, <3>8, <3>9 DEF EndTold
  <2> QED BY <2>1, <2>2, <2>3, <2>4 DEF RunInv
<1>5. PlacesCounted'
  <2>1. ActiveRuns' = {} /\ Creating' = {}
    BY <1>1 DEF ActiveRuns, Creating
  <2> QED BY <2>1, FS_EmptySet, BacktestRunsConstants DEF PlacesCounted
<1> QED BY <1>3, <1>4, <1>5 DEF RunsInv

LEMMA RunsStep == RunsInv /\ [RunsNext]_runVars => RunsInv'
<1> SUFFICES ASSUME RunsInv, [RunsNext]_runVars PROVE RunsInv'
  OBVIOUS
<1>1. ASSUME NEW r \in Runs, RunStep(r) PROVE RunsInv'
  <2>1. RunsTypeOK' /\ \A s \in Runs \ {r} : Unmoved(s)
    BY <1>1, RunStepTyped DEF RunsInv
  <2>2. RunInv(r)'
    BY <1>1, RunStepKept DEF RunsInv
  <2>3. \A s \in Runs \ {r} : RunInv(s)'
    BY <2>1, UnmovedKept DEF RunsInv
  <2>4. PlacesCounted'
    BY <1>1, PlacesStep DEF RunsInv
  <2> QED BY <2>1, <2>2, <2>3, <2>4 DEF RunsInv
<1>2. CASE Restart
  BY <1>2, RestartKept
<1>3. CASE UNCHANGED runVars
  <2> USE <1>3 DEF runVars, memoryVars
  <2>1. RunsTypeOK'
    BY DEF RunsInv, RunsTypeOK
  <2>2. \A s \in Runs : Unmoved(s)
    BY DEF Unmoved
  <2>3. \A s \in Runs : RunInv(s)'
    BY <2>2, UnmovedKept DEF RunsInv
  <2>4. PlacesCounted'
    BY DEF RunsInv, PlacesCounted, ActiveRuns, Creating, Happened
  <2> QED BY <2>1, <2>3, <2>4 DEF RunsInv
<1> QED BY <1>1, <1>2, <1>3 DEF RunsNext, RunStep

(* Whatever creations overlap, wherever a run is cancelled, a write fails   *)
(* or the process dies: the limit of concurrent runs, the positions of a    *)
(* run announced complete, and the row of a run that is over.               *)
THEOREM RunsAlwaysSound == RunsSpec => []RunsSound
<1>1. ASSUME RunsInv PROVE RunsSound
  <2>1. MemoryBounded
    <3>1. Cardinality(ActiveRuns) \in Nat /\ MaxRuns \in Nat
      BY <1>1, FS_CardinalityType, BacktestRunsConstants DEF RunsInv, PlacesCounted
    <3> QED BY <1>1, <3>1
        DEF RunsInv, RunInv, MemoryBounded, PlacesCounted, StatusFollowsPipeline
  <2>2. CompleteIsWhole
    BY <1>1 DEF RunsInv, RunInv, CompleteIsWhole, NothingLost, InDatabase, Acknowledged
  <2>3. RowTellsTheEnd
    <3> SUFFICES ASSUME NEW r \in Runs, at[r] = "ended"
                 PROVE  /\ runRow[r] = "COMPLETE" =>
                              \/ "completed" \in announced[r]
                              \/ \E why \in {"interrupted", "unrecorded", "cancelledLate"} : Happened(r, why)
                        /\ Happened(r, "cancelledEarly") =>
                              runRow[r] # "COMPLETE" /\ "completed" \notin announced[r]
                        /\ Cardinality(announced[r]) <= 1 \/ announced[r] = {"cancelled", "failed"}
      BY DEF RowTellsTheEnd
    <3>1. EndTold(r) /\ announced[r] \subseteq {"completed", "failed", "cancelled"}
      BY <1>1 DEF RunsInv, RunInv, RunsTypeOK
    <3>2. \/ announced[r] = {} \/ (\E a \in {"completed", "failed", "cancelled"} : announced[r] = {a})
          \/ announced[r] = {"cancelled", "failed"}
      BY <3>1 DEF EndTold
    <3>3. Cardinality(announced[r]) <= 1 \/ announced[r] = {"cancelled", "failed"}
      <4>1. Cardinality({}) = 0 /\ \A a \in {"completed", "failed", "cancelled"} : Cardinality({a}) = 1
        BY FS_EmptySet, FS_Singleton
      <4> QED BY <3>2, <4>1
    <3> QED BY <3>1, <3>3 DEF EndTold, Cancelled
  <2> QED BY <1>1, <2>1, <2>2, <2>3 DEF RunsSound, RunsInv
<1>2. RunsInv => RunsSound
  BY <1>1
<1> QED BY <1>2, RunsStart, RunsStep, PTL DEF RunsSpec

-----------------------------------------------------------------------------
(* The order books of the feeds.                                            *)

(* A pair more, or less, is a user more, or less, of its contracts.         *)
LEMMA UsersOfPairs ==
    ASSUME NEW S \in SUBSET FeedPair, NEW p \in FeedPair \ S, NEW c
    PROVE  /\ Users(S, c) \in Nat
           /\ Users(S \cup {p}, c) = Users(S, c) + (IF c \in LegsOf[p] THEN 1 ELSE 0)
<1> DEFINE of(T) == {q \in T : c \in LegsOf[q]}
<1>1. IsFiniteSet(of(S))
  BY FeedConstants, FS_Subset
<1>2. p \notin of(S) /\ of(S \cup {p}) = IF c \in LegsOf[p] THEN of(S) \cup {p} ELSE of(S)
  OBVIOUS
<1> HIDE DEF of
<1>3. Cardinality(of(S)) \in Nat /\ Cardinality(of(S) \cup {p}) = Cardinality(of(S)) + 1
  BY <1>1, <1>2, FS_AddElement, FS_CardinalityType
<1>4. Cardinality(of(S \cup {p})) = Cardinality(of(S)) + (IF c \in LegsOf[p] THEN 1 ELSE 0)
  BY <1>2, <1>3
<1> QED BY <1>3, <1>4 DEF of, Users

(* The answers to a batch of subscribe commands are messages of the wire.   *)
LEMMA SendTyped ==
    ASSUME FeedTypeOK, NEW tickers \in SUBSET Ticker, SendSubscribes(tickers)
    PROVE  /\ nextSid' \in Nat /\ nextSid <= nextSid' /\ channel' \in Seq(Message')
           /\ venueSubs' \subseteq (0 .. nextSid') \X Ticker
<1> DEFINE n == Cardinality(tickers)
           order == SetToSeq(tickers)
           Reply(i) == IF i % 2 = 1 THEN Subscribed(nextSid + (i \div 2)) ELSE Snapshot(order[i \div 2])
           replies == [i \in 1 .. 2 * n |-> Reply(i)]
<1>1. IsFiniteSet(tickers) /\ n \in Nat
  BY FeedConstants, FS_Subset, FS_CardinalityType
<1>2. order \in [1 .. n -> tickers]
  <2>1. \E f \in [1 .. n -> tickers] : IsInjective(f)
    <3>1. PICK f : f \in Bijection(1 .. n, tickers)
      BY <1>1, FS_CardinalityType DEF ExistsBijection
    <3> QED BY <3>1 DEF Bijection, Injection, IsInjective
  <2> QED BY <2>1 DEF SetToSeq
<1>3. nextSid' = nextSid + n /\ channel' = channel \o replies
  BY DEF SendSubscribes
<1>4. nextSid' \in Nat /\ nextSid <= nextSid' /\ nextSid \in Nat
  BY <1>1, <1>3 DEF FeedTypeOK
<1>5. ASSUME NEW i \in 1 .. 2 * n PROVE Reply(i) \in Message'
  <2>1. CASE i % 2 = 1
    <3>1. nextSid + (i \div 2) \in 0 .. nextSid'
      <4>1. i \div 2 \in Nat /\ i \div 2 <= n
        BY <1>1
      <4> QED BY <1>1, <1>3, <1>4, <4>1
    <3> QED BY <2>1, <3>1 DEF Message, Subscribed
  <2>2. CASE i % 2 # 1
    <3>1. i \div 2 \in 1 .. n
      BY <1>1, <2>2
    <3>2. order[i \div 2] \in Ticker
      BY <1>2, <3>1
    <3>3. venueSeq[order[i \div 2]] \in 0 .. MaxMoves
      BY <3>2 DEF FeedTypeOK
    <3> QED BY <2>2, <3>2, <3>3 DEF Message, Snapshot
  <2> QED BY <2>1, <2>2
<1>6. replies \in Seq(Message')
  <2>1. 2 * n \in Nat /\ replies \in [1 .. 2 * n -> Message']
    BY <1>1, <1>5
  <2> QED BY <2>1, SeqDef
<1>7. channel \in Seq(Message')
  <2>1. Message \subseteq Message'
    BY <1>4 DEF Message
  <2> QED BY <2>1, SeqMonotonic DEF FeedTypeOK
<1>8. venueSubs' \subseteq (0 .. nextSid') \X Ticker
  <2>1. venueSubs' = venueSubs \cup {<<nextSid + i - 1, order[i]>> : i \in 1 .. n}
    BY <1>2 DEF SendSubscribes
  <2>2. \A i \in 1 .. n : nextSid + i - 1 \in 0 .. nextSid' /\ order[i] \in Ticker
    BY <1>1, <1>2, <1>3, <1>4, SMTT(30)
  <2>3. venueSubs \subseteq (0 .. nextSid') \X Ticker
    BY <1>4 DEF FeedTypeOK
  <2> HIDE DEF n, order
  <2> QED BY <2>1, <2>2, <2>3
<1> QED BY <1>3, <1>4, <1>6, <1>7, <1>8, ConcatProperties

(* A book is begun with a snapshot. *)
BooksBegun == \A t \in Ticker : localBook[t] # NoBook =>
                  localBook[t].from \in 0 .. localBook[t].seq /\ localBook[t].seq \in 0 .. MaxMoves
BooksRight == BooksBegun /\ BooksWithinVenues

FeedInv == FeedTypeOK /\ ClientFollowsPairs /\ BooksRight

LEMMA NoBookTyped == NoBook \in FeedBook
BY FeedConstants DEF NoBook, FeedBook

(* More is better than more of a larger book. *)
LEMMA BetterMonotone ==
    ASSUME NEW a \in [PriceLevel -> Nat], NEW b \in [PriceLevel -> Nat], NEW l \in PriceLevel,
           \A m \in PriceLevel : a[m] <= b[m]
    PROVE  Better(a, l) \in Nat /\ Better(b, l) \in Nat /\ Better(a, l) <= Better(b, l)
<1> DEFINE A == {m \in PriceLevel : m > l /\ a[m] > 0}
           B == {m \in PriceLevel : m > l /\ b[m] > 0}
<1>1. A \subseteq B
  BY FeedConstants
<1>2. IsFiniteSet(B)
  BY FeedConstants, FS_Subset
<1> QED BY <1>1, <1>2, FS_Subset, FS_CardinalityType DEF Better

(* The change with number n is of one level. *)
LEMMA ChangeOfOneLevel ==
    ASSUME NEW t \in Ticker, NEW n \in 1 .. MaxMoves
    PROVE  /\ Changed(t, n) \in PriceLevel /\ Change(t, n) \in Int
           /\ BookAt[t][n] \in [PriceLevel -> Nat] /\ BookAt[t][n - 1] \in [PriceLevel -> Nat]
           /\ BookAt[t][n][Changed(t, n)] = BookAt[t][n - 1][Changed(t, n)] + Change(t, n)
           /\ \A m \in PriceLevel \ {Changed(t, n)} : BookAt[t][n][m] = BookAt[t][n - 1][m]
<1>1. BookAt[t][n] \in [PriceLevel -> Nat] /\ BookAt[t][n - 1] \in [PriceLevel -> Nat]
  <2>1. n \in 0 .. MaxMoves /\ n - 1 \in 0 .. MaxMoves
    BY FeedConstants
  <2>2. BookAt[t] \in [0 .. MaxMoves -> [PriceLevel -> Nat]]
    BY FeedConstants
  <2> QED BY <2>1, <2>2
<1>2. PICK l \in PriceLevel : /\ BookAt[t][n][l] # BookAt[t][n - 1][l]
                        /\ \A m \in PriceLevel \ {l} : BookAt[t][n][m] = BookAt[t][n - 1][m]
  BY FeedConstants
<1>3. Changed(t, n) \in PriceLevel /\ BookAt[t][n][Changed(t, n)] # BookAt[t][n - 1][Changed(t, n)]
  BY <1>2 DEF Changed
<1>4. Changed(t, n) = l
  BY <1>2, <1>3
<1> QED BY <1>1, <1>2, <1>4 DEF Change

(* A book within the venue's is so after the next change. *)
LEMMA TakenIn ==
    ASSUME NEW t \in Ticker, NEW n \in 1 .. MaxMoves, NEW levels \in [PriceLevel -> Nat],
           \A l \in PriceLevel : levels[l] <= BookAt[t][n - 1][l]
    PROVE  LET taken == TakeIn(levels, Changed(t, n), Change(t, n)) IN
           /\ taken \in [PriceLevel -> Nat]
           /\ \A l \in PriceLevel :
                /\ taken[l] <= BookAt[t][n][l]
                /\ levels[l] = BookAt[t][n - 1][l] /\ Better(BookAt[t][n], l) < FeedDepth
                      => taken[l] = BookAt[t][n][l]
<1> DEFINE c == Changed(t, n)
           d == Change(t, n)
           old == BookAt[t][n - 1]
           new == BookAt[t][n]
           taken == TakeIn(levels, c, d)
<1>1. /\ c \in PriceLevel /\ d \in Int /\ old \in [PriceLevel -> Nat] /\ new \in [PriceLevel -> Nat]
      /\ new[c] = old[c] + d /\ \A m \in PriceLevel \ {c} : new[m] = old[m]
  BY ChangeOfOneLevel
<1>2. \A l \in PriceLevel : levels[l] <= old[l]
  OBVIOUS
<1>3. taken = IF levels[c] = 0 THEN IF d > 0 THEN Cut([levels EXCEPT ![c] = d]) ELSE levels
              ELSE [levels EXCEPT ![c] = IF @ + d > 0 THEN @ + d ELSE 0]
  BY DEF TakeIn
<1> HIDE DEF c, d, old, new, taken
<1>4. CASE levels[c] = 0 /\ d > 0
  <2> DEFINE mid == [levels EXCEPT ![c] = d]
  <2>1. mid \in [PriceLevel -> Nat] /\ mid[c] = d /\ \A m \in PriceLevel \ {c} : mid[m] = levels[m]
    BY <1>1, <1>4
  <2>2. \A m \in PriceLevel : mid[m] <= new[m]
    BY <1>1, <1>2, <1>4, <2>1
  <2>3. \A l \in PriceLevel : Better(mid, l) \in Nat /\ Better(new, l) \in Nat
                           /\ Better(mid, l) <= Better(new, l)
    BY <1>1, <2>1, <2>2, BetterMonotone
  <2>4. taken = [l \in PriceLevel |-> IF Better(mid, l) < FeedDepth THEN mid[l] ELSE 0]
    BY <1>3, <1>4 DEF Cut
  <2> HIDE DEF mid
  <2>5. taken \in [PriceLevel -> Nat] /\ \A l \in PriceLevel : taken[l] <= new[l]
    BY <1>1, <2>1, <2>2, <2>4
  <2>6. ASSUME NEW l \in PriceLevel, levels[l] = old[l], Better(new, l) < FeedDepth
        PROVE  taken[l] = new[l]
    <3>1. taken[l] = mid[l]
      BY <2>3, <2>4, <2>6, FeedConstants
    <3>2. mid[l] = new[l]
      BY <1>1, <1>4, <2>1, <2>6
    <3> QED BY <3>1, <3>2
  <2> QED BY <2>5, <2>6 DEF c, d, old, new, taken
<1>5. CASE levels[c] = 0 /\ ~(d > 0)
  <2>1. taken = levels
    BY <1>3, <1>5
  <2>2. \A l \in PriceLevel : taken[l] <= new[l] /\ (levels[l] = old[l] => taken[l] = new[l])
    BY <1>1, <1>2, <1>5, <2>1
  <2> QED BY <2>1, <2>2 DEF c, d, old, new, taken
<1>6. CASE levels[c] # 0
  <2>1. taken = [levels EXCEPT ![c] = IF levels[c] + d > 0 THEN levels[c] + d ELSE 0]
    BY <1>3, <1>6
  <2>2. taken \in [PriceLevel -> Nat]
    BY <1>1, <2>1
  <2>3. \A l \in PriceLevel : taken[l] <= new[l] /\ (levels[l] = old[l] => taken[l] = new[l])
    BY <1>1, <1>2, <2>1
  <2> QED BY <2>2, <2>3 DEF c, d, old, new, taken
<1> QED BY <1>4, <1>5, <1>6

LEMMA FeedStarts == FeedInit => FeedInv
<1> SUFFICES ASSUME FeedInit PROVE FeedInv
  OBVIOUS
<1>1. contractRefCounts \in [Contract -> Nat]
  <2>1. \A c \in Contract : Users(openPair, c) \in Nat
    BY FeedConstants, FS_Subset, FS_CardinalityType DEF Users, FeedInit
  <2> QED BY <2>1 DEF FeedInit
<1>2. localBook \in [Ticker -> FeedBook]
  BY NoBookTyped DEF FeedInit
<1>3. venueSeq \in [Ticker -> 0 .. MaxMoves] /\ channel \in Seq(Message)
  BY FeedConstants DEF FeedInit
<1>4. /\ openPair \subseteq FeedPair /\ rowRead \subseteq FeedPair
      /\ activeSubscriptions \subseteq FeedPair /\ subscriptions \subseteq Ticker /\ cooling \subseteq Ticker
  BY DEF FeedInit, TickersOf
<1>5. connected \in BOOLEAN /\ reconnecting \in BOOLEAN
  BY DEF FeedInit
<1>6. /\ attempts \in 0 .. FeedRetries /\ sid \in 0 .. nextSid /\ nextSid \in Nat
      /\ venueSubs \subseteq (0 .. nextSid) \X Ticker
  BY FeedConstants DEF FeedInit, NoSid
<1>7. ClientFollowsPairs /\ BooksRight
  BY DEF FeedInit, ClientFollowsPairs, BooksRight, BooksBegun, BooksWithinVenues
<1> QED BY <1>1, <1>2, <1>3, <1>4, <1>5, <1>6, <1>7 DEF FeedInv, FeedTypeOK

(* Subscribing a pair counts one user more of its contracts and follows the *)
(* contracts that had none; unsubscribing is the reverse.                   *)
LEMMA SubscribeFollows ==
    ASSUME FeedTypeOK, ClientFollowsPairs, NEW p \in FeedPair, Subscribe(p)
    PROVE  /\ ClientFollowsPairs' /\ activeSubscriptions' \subseteq FeedPair
           /\ contractRefCounts' \in [Contract -> Nat] /\ subscriptions' \subseteq Ticker
           /\ nextSid' \in Nat /\ nextSid <= nextSid' /\ channel' \in Seq(Message')
           /\ venueSubs' \subseteq (0 .. nextSid') \X Ticker
<1>1. CASE p \in activeSubscriptions
  BY <1>1 DEF Subscribe, wire, ClientFollowsPairs, FeedTypeOK, Message
<1>2. CASE p \notin activeSubscriptions
  <2> DEFINE fresh == (FirstUse(p) \cap Ticker) \ subscriptions
  <2>1. /\ activeSubscriptions' = activeSubscriptions \cup {p}
        /\ contractRefCounts' = [c \in Contract |->
                contractRefCounts[c] + (IF c \in LegsOf[p] THEN 1 ELSE 0)]
        /\ subscriptions' = subscriptions \cup fresh
        /\ IF connected THEN SendSubscribes(fresh) ELSE UNCHANGED wire
    BY <1>2 DEF Subscribe
  <2>2. \A c : /\ Users(activeSubscriptions, c) \in Nat
               /\ Users(activeSubscriptions', c) =
                    Users(activeSubscriptions, c) + (IF c \in LegsOf[p] THEN 1 ELSE 0)
    BY <1>2, <2>1, UsersOfPairs DEF FeedTypeOK
  <2>3. /\ contractRefCounts' \in [Contract -> Nat]
        /\ \A c \in Contract : contractRefCounts'[c] = Users(activeSubscriptions', c)
    BY <2>1, <2>2 DEF ClientFollowsPairs
  <2>4. subscriptions' = TickersOf(activeSubscriptions')
    <3>1. \A t \in Ticker : t \in LegsOf[p] /\ t \notin subscriptions => t \in fresh
      BY <2>2, FeedConstants DEF ClientFollowsPairs, TickersOf, FirstUse
    <3>2. \A t \in fresh : t \in Ticker /\ t \in LegsOf[p]
      BY DEF FirstUse
    <3>3. \A t \in Ticker : t \in subscriptions <=> Users(activeSubscriptions, t) > 0
      BY DEF ClientFollowsPairs, TickersOf
    <3>4. \A t \in Ticker : t \in subscriptions' <=> Users(activeSubscriptions', t) > 0
      <4> SUFFICES ASSUME NEW t \in Ticker
                   PROVE  t \in subscriptions' <=> Users(activeSubscriptions', t) > 0
        OBVIOUS
      <4>1. subscriptions' = subscriptions \cup fresh
        BY <2>1
      <4>2. /\ Users(activeSubscriptions, t) \in Nat
            /\ Users(activeSubscriptions', t) =
                 Users(activeSubscriptions, t) + (IF t \in LegsOf[p] THEN 1 ELSE 0)
        BY <2>2
      <4> HIDE DEF fresh
      <4> QED BY <4>1, <4>2, <3>1, <3>2, <3>3
    <3> QED BY <2>1, <3>2, <3>3, <3>4 DEF TickersOf, FeedTypeOK
  <2>5. /\ nextSid' \in Nat /\ nextSid <= nextSid' /\ channel' \in Seq(Message')
        /\ venueSubs' \subseteq (0 .. nextSid') \X Ticker
    <3>1. CASE connected
      BY <2>1, <3>1, SendTyped
    <3>2. CASE ~connected
      BY <2>1, <3>2 DEF wire, FeedTypeOK, Message
    <3> QED BY <3>1, <3>2
  <2> QED BY <1>2, <2>1, <2>3, <2>4, <2>5 DEF ClientFollowsPairs, FeedTypeOK
<1> QED BY <1>1, <1>2

LEMMA UnsubscribeFollows ==
    ASSUME FeedTypeOK, ClientFollowsPairs, NEW p \in FeedPair, Unsubscribe(p)
    PROVE  /\ ClientFollowsPairs' /\ activeSubscriptions' \subseteq FeedPair
           /\ contractRefCounts' \in [Contract -> Nat] /\ subscriptions' \subseteq Ticker
           /\ UNCHANGED <<nextSid, channel>> /\ cooling' \subseteq Ticker
           /\ venueSubs' \subseteq venueSubs
           /\ localBook' \in [Ticker -> FeedBook]
           /\ \A t \in Ticker : localBook'[t] \in {localBook[t], NoBook}
<1>1. CASE p \notin activeSubscriptions
  BY <1>1 DEF Unsubscribe, wire, ClientFollowsPairs, FeedTypeOK
<1>2. CASE p \in activeSubscriptions
  <2> DEFINE gone == LastUse(p) \cap Ticker
  <2>1. /\ activeSubscriptions' = activeSubscriptions \ {p}
        /\ contractRefCounts' = [c \in Contract |->
                IF c \in LastUse(p) THEN 0
                ELSE contractRefCounts[c] - (IF c \in LegsOf[p] THEN 1 ELSE 0)]
        /\ subscriptions' = subscriptions \ gone /\ cooling' = cooling \ gone
        /\ localBook' = [t \in Ticker |-> IF t \in gone THEN NoBook ELSE localBook[t]]
        /\ UNCHANGED <<nextSid, channel>> /\ venueSubs' \subseteq venueSubs
    BY <1>2 DEF Unsubscribe, SendDeleteMarkets, wire
  <2>2. \A c : /\ Users(activeSubscriptions', c) \in Nat
               /\ Users(activeSubscriptions, c) =
                    Users(activeSubscriptions', c) + (IF c \in LegsOf[p] THEN 1 ELSE 0)
    <3>1. activeSubscriptions = (activeSubscriptions \ {p}) \cup {p}
      BY <1>2
    <3>2. PICK S \in SUBSET FeedPair :
              S = activeSubscriptions' /\ p \notin S /\ activeSubscriptions = S \cup {p}
      BY <2>1, <3>1 DEF FeedTypeOK
    <3>3. \A c : /\ Users(S, c) \in Nat
                 /\ Users(S \cup {p}, c) = Users(S, c) + (IF c \in LegsOf[p] THEN 1 ELSE 0)
      BY <3>2, UsersOfPairs
    <3> QED BY <3>2, <3>3
  <2>3. \A c \in Contract : c \in LastUse(p) <=>
                c \in LegsOf[p] /\ Users(activeSubscriptions', c) = 0
    BY <2>2 DEF LastUse, ClientFollowsPairs
  <2>4. \A c \in Contract : contractRefCounts'[c] = Users(activeSubscriptions', c)
    <3> SUFFICES ASSUME NEW c \in Contract
                 PROVE  contractRefCounts'[c] = Users(activeSubscriptions', c)
      OBVIOUS
    <3>1. contractRefCounts[c] = Users(activeSubscriptions, c)
      BY DEF ClientFollowsPairs
    <3>2. contractRefCounts'[c] = IF c \in LastUse(p) THEN 0
                ELSE contractRefCounts[c] - (IF c \in LegsOf[p] THEN 1 ELSE 0)
      BY <2>1
    <3> QED BY <2>2, <2>3, <3>1, <3>2
  <2>5. subscriptions' = TickersOf(activeSubscriptions')
    <3>1. \A t \in Ticker : t \in subscriptions <=> Users(activeSubscriptions, t) > 0
      BY DEF ClientFollowsPairs, TickersOf
    <3>2. \A t \in Ticker : t \in gone <=> t \in LegsOf[p] /\ Users(activeSubscriptions', t) = 0
      BY <2>3, FeedConstants
    <3>3. \A t \in Ticker : t \in subscriptions' <=> Users(activeSubscriptions', t) > 0
      <4> SUFFICES ASSUME NEW t \in Ticker
                   PROVE  t \in subscriptions' <=> Users(activeSubscriptions', t) > 0
        OBVIOUS
      <4>1. subscriptions' = subscriptions \ gone
        BY <2>1
      <4>2. /\ Users(activeSubscriptions', t) \in Nat
            /\ Users(activeSubscriptions, t) =
                 Users(activeSubscriptions', t) + (IF t \in LegsOf[p] THEN 1 ELSE 0)
        BY <2>2
      <4> HIDE DEF gone
      <4> QED BY <4>1, <4>2, <3>1, <3>2
    <3>4. subscriptions' \subseteq Ticker
      BY <2>1 DEF FeedTypeOK
    <3> QED BY <3>3, <3>4 DEF TickersOf
  <2>6. contractRefCounts' \in [Contract -> Nat]
    BY <2>1, <2>2, <2>4
  <2>7. localBook' \in [Ticker -> FeedBook]
    BY <2>1, NoBookTyped DEF FeedTypeOK
  <2> QED BY <2>1, <2>4, <2>5, <2>6, <2>7 DEF ClientFollowsPairs, FeedTypeOK
<1> QED BY <1>1, <1>2

LEMMA MessageTyped ==
    ASSUME FeedTypeOK, channel # <<>>
    PROVE  /\ Rest \in Seq(Message)
           /\ Next1.type = "subscribed" => Next1.sid \in 0 .. nextSid
           /\ Next1.type # "subscribed" => Next1.ticker \in Ticker /\ Next1.seq \in 0 .. MaxMoves
<1>1. Next1 \in Message /\ Rest \in Seq(Message)
  BY HeadTailProperties DEF FeedTypeOK, Next1, Rest
<1> QED BY <1>1 DEF Message

(* One message more at the end of the channel. *)
LEMMA AnswerTyped ==
    ASSUME FeedTypeOK, channel # <<>>, NEW t \in Ticker
    PROVE  Append(Rest, Snapshot(t)) \in Seq(Message)
<1>1. Snapshot(t) \in Message
  BY DEF Snapshot, Message, FeedTypeOK
<1> QED BY <1>1, MessageTyped

LEMMA FeedStep == FeedInv /\ [FeedNext]_feedVars => FeedInv'
<1> SUFFICES ASSUME FeedInv, [FeedNext]_feedVars PROVE FeedInv'
  OBVIOUS
<1> USE DEF FeedInv
<1>1. ASSUME NEW p \in FeedPair, PositionOpens(p) PROVE FeedInv'
  BY <1>1
  DEF PositionOpens, FeedTypeOK, Message, ClientFollowsPairs, BooksRight, BooksBegun, BooksWithinVenues, wire, link
<1>2. ASSUME NEW p \in FeedPair, HandleOrderFilled(p) PROVE FeedInv'
  <2>1. /\ ClientFollowsPairs' /\ activeSubscriptions' \subseteq FeedPair
        /\ contractRefCounts' \in [Contract -> Nat] /\ subscriptions' \subseteq Ticker
        /\ nextSid' \in Nat /\ nextSid <= nextSid' /\ channel' \in Seq(Message')
        /\ venueSubs' \subseteq (0 .. nextSid') \X Ticker
    BY <1>2, SubscribeFollows DEF HandleOrderFilled
  <2>2. /\ rowRead' = rowRead \ {p}
        /\ UNCHANGED <<openPair, connected, reconnecting, attempts, sid, localBook, cooling, venueSeq>>
    BY <1>2 DEF HandleOrderFilled, link
  <2>3. sid' \in 0 .. nextSid'
    BY <2>1, <2>2 DEF FeedTypeOK
  <2>4. FeedTypeOK'
    BY <2>1, <2>2, <2>3 DEF FeedTypeOK
  <2> QED BY <2>1, <2>2, <2>4 DEF BooksRight, BooksBegun, BooksWithinVenues
<1>3. ASSUME NEW p \in FeedPair, PositionCloses(p) PROVE FeedInv'
  <2>1. /\ ClientFollowsPairs' /\ activeSubscriptions' \subseteq FeedPair
        /\ contractRefCounts' \in [Contract -> Nat] /\ subscriptions' \subseteq Ticker
        /\ UNCHANGED <<nextSid, channel>> /\ cooling' \subseteq Ticker
        /\ venueSubs' \subseteq venueSubs
        /\ localBook' \in [Ticker -> FeedBook]
        /\ \A t \in Ticker : localBook'[t] \in {localBook[t], NoBook}
    BY <1>3, UnsubscribeFollows DEF PositionCloses
  <2>2. /\ openPair' = openPair \ {p}
        /\ UNCHANGED <<rowRead, connected, reconnecting, attempts, sid, venueSeq>>
    BY <1>3 DEF PositionCloses, link
  <2>3. FeedTypeOK'
    BY <2>1, <2>2 DEF FeedTypeOK, Message
  <2>4. BooksRight'
    BY <2>1 DEF BooksRight, BooksBegun, BooksWithinVenues
  <2> QED BY <2>1, <2>2, <2>3, <2>4
<1>4. CASE ConnectionOpens
  <2>1. /\ nextSid' \in Nat /\ nextSid <= nextSid' /\ channel' \in Seq(Message')
        /\ venueSubs' \subseteq (0 .. nextSid') \X Ticker
    BY <1>4, SendTyped DEF ConnectionOpens, FeedTypeOK
  <2>2. /\ connected' = TRUE /\ reconnecting' = FALSE /\ attempts' = 0
        /\ localBook' = [t \in Ticker |-> NoBook]
        /\ UNCHANGED <<openPair, rowRead, activeSubscriptions, contractRefCounts, subscriptions,
                       sid, cooling, venueSeq>>
    BY <1>4 DEF ConnectionOpens, pairsOpen
  <2>3. sid' \in 0 .. nextSid' /\ attempts' \in 0 .. FeedRetries
    BY <2>1, <2>2, FeedConstants DEF FeedTypeOK
  <2>4. FeedTypeOK'
    BY <2>1, <2>2, <2>3, NoBookTyped DEF FeedTypeOK
  <2> QED BY <2>2, <2>4, NoBookTyped DEF BooksRight, BooksBegun, BooksWithinVenues, ClientFollowsPairs
<1>5. CASE ConnectFails
  <2>1. /\ reconnecting' \in BOOLEAN /\ attempts' \in 0 .. FeedRetries
    <3>1. FeedRetries \in Nat /\ attempts \in 0 .. FeedRetries /\ ScheduleReconnect
      BY <1>5, FeedConstants DEF ConnectFails, FeedTypeOK
    <3>2. reconnecting' \in BOOLEAN
      BY <3>1, Zenon DEF ScheduleReconnect
    <3>3. attempts' \in 0 .. FeedRetries
      BY <3>1 DEF ScheduleReconnect
    <3> QED BY <3>2, <3>3
  <2>2. /\ localBook' = [t \in Ticker |-> NoBook]
        /\ UNCHANGED <<openPair, rowRead, activeSubscriptions, contractRefCounts, subscriptions,
                       connected, sid, cooling, venueSeq, nextSid, channel, venueSubs>>
    BY <1>5 DEF ConnectFails, pairsOpen, wire
  <2>3. FeedTypeOK'
    BY <2>1, <2>2, NoBookTyped DEF FeedTypeOK, Message
  <2> QED BY <2>2, <2>3, NoBookTyped DEF BooksRight, BooksBegun, BooksWithinVenues, ClientFollowsPairs
<1>6. CASE ConnectionCloses
  <2>1. /\ reconnecting' \in BOOLEAN /\ attempts' \in 0 .. FeedRetries
    <3>1. FeedRetries \in Nat /\ attempts \in 0 .. FeedRetries /\ ScheduleReconnect
      BY <1>6, FeedConstants DEF ConnectionCloses, FeedTypeOK
    <3>2. reconnecting' \in BOOLEAN
      BY <3>1, Zenon DEF ScheduleReconnect
    <3>3. attempts' \in 0 .. FeedRetries
      BY <3>1 DEF ScheduleReconnect
    <3> QED BY <3>2, <3>3
  <2>2. /\ connected' = FALSE /\ channel' = <<>> /\ venueSubs' = {}
        /\ UNCHANGED <<openPair, rowRead, activeSubscriptions, contractRefCounts, subscriptions,
                       sid, localBook, cooling, venueSeq, nextSid>>
    BY <1>6 DEF ConnectionCloses, pairsOpen
  <2>3. connected' \in BOOLEAN /\ channel' \in Seq(Message') /\ Message' = Message
    <3>1. connected' \in BOOLEAN
      BY <2>2, Zenon
    <3>2. Message' = Message /\ channel' = <<>>
      BY <2>2 DEF Message
    <3> QED BY <3>1, <3>2
  <2>4. FeedTypeOK'
    BY <2>1, <2>2, <2>3 DEF FeedTypeOK
  <2> QED BY <2>2, <2>4 DEF BooksRight, BooksBegun, BooksWithinVenues, ClientFollowsPairs
<1>7. CASE HandleSubscribed
  <2>1. sid' \in 0 .. nextSid /\ channel' \in Seq(Message)
    BY <1>7, MessageTyped DEF HandleSubscribed
  <2>2. UNCHANGED <<openPair, rowRead, activeSubscriptions, contractRefCounts, subscriptions,
                    connected, reconnecting, attempts, localBook, cooling, venueSeq, nextSid, venueSubs>>
    BY <1>7 DEF HandleSubscribed, pairsOpen, link
  <2>3. FeedTypeOK'
    BY <2>1, <2>2 DEF FeedTypeOK, Message
  <2> QED BY <2>2, <2>3 DEF BooksRight, BooksBegun, BooksWithinVenues, ClientFollowsPairs
<1>8. CASE HandleSnapshot \/ ApplyDelta
  <2>1. PICK t \in Ticker, book \in FeedBook :
            /\ localBook' = [localBook EXCEPT ![t] = book]
            /\ book.from \in 0 .. book.seq /\ book.seq \in 0 .. MaxMoves /\ WithinVenue(t, book)
    <3>1. CASE HandleSnapshot
      <4>1. PICK t \in Ticker, n \in 0 .. MaxMoves : t = Next1.ticker /\ n = Next1.seq
        BY <3>1, MessageTyped DEF HandleSnapshot
      <4> DEFINE book == [from |-> n, seq |-> n, levels |-> BookAt[t][n]]
      <4>2. localBook' = [localBook EXCEPT ![t] = book]
        BY <3>1, <4>1 DEF HandleSnapshot
      <4>3. BookAt[t][n] \in [PriceLevel -> Nat]
        BY FeedConstants
      <4>4. book \in FeedBook /\ book.from \in 0 .. book.seq /\ book.seq \in 0 .. MaxMoves
        BY <4>3, FeedConstants DEF FeedBook
      <4>5. WithinVenue(t, book)
        BY <4>3 DEF WithinVenue
      <4> HIDE DEF book
      <4> QED BY <4>2, <4>4, <4>5
    <3>2. CASE ApplyDelta
      <4>1. PICK t \in Ticker, n \in 0 .. MaxMoves : t = Next1.ticker /\ n = Next1.seq
        BY <3>2, MessageTyped DEF ApplyDelta
      <4> DEFINE had == localBook[t]
                 taken == TakeIn(had.levels, Changed(t, n), Change(t, n))
                 book == [from |-> had.from, seq |-> n, levels |-> taken]
      <4>2. /\ had \in FeedBook /\ had # NoBook /\ n = had.seq + 1
            /\ had.from \in 0 .. had.seq /\ had.seq \in 0 .. MaxMoves /\ WithinVenue(t, had)
        BY <3>2, <4>1 DEF ApplyDelta, Gap, BooksRight, BooksBegun, BooksWithinVenues, FeedTypeOK
      <4>3. localBook' = [localBook EXCEPT ![t] = book]
        <5>1. localBook' = [localBook EXCEPT ![Next1.ticker] =
                [from |-> localBook[Next1.ticker].from, seq |-> Next1.seq,
                 levels |-> TakeIn(localBook[Next1.ticker].levels, Changed(Next1.ticker, Next1.seq),
                                   Change(Next1.ticker, Next1.seq))]]
          BY <3>2 DEF ApplyDelta
        <5> QED BY <4>1, <5>1
      <4>4. n \in 1 .. MaxMoves /\ n - 1 = had.seq /\ had.levels \in [PriceLevel -> Nat]
        <5>1. MaxMoves \in Nat
          BY FeedConstants
        <5>2. had.levels \in [PriceLevel -> Nat]
          BY <4>2 DEF FeedBook
        <5> HIDE DEF had
        <5> QED BY <4>1, <4>2, <5>1, <5>2
      <4>5. /\ \A l \in PriceLevel : had.levels[l] <= BookAt[t][n - 1][l]
            /\ \A l \in PriceLevel : (\A i \in had.from .. n - 1 : Better(BookAt[t][i], l) < FeedDepth)
                                   => had.levels[l] = BookAt[t][n - 1][l]
        BY <4>2, <4>4 DEF WithinVenue
      <4>6. /\ taken \in [PriceLevel -> Nat]
            /\ \A l \in PriceLevel :
                  /\ taken[l] <= BookAt[t][n][l]
                  /\ had.levels[l] = BookAt[t][n - 1][l] /\ Better(BookAt[t][n], l) < FeedDepth
                        => taken[l] = BookAt[t][n][l]
        BY <4>4, <4>5, TakenIn
      <4> HIDE DEF taken
      <4>7. /\ book \in FeedBook /\ book.from = had.from /\ book.seq = n /\ book.levels = taken
            /\ book.from \in 0 .. book.seq
        BY <4>2, <4>4, <4>6 DEF FeedBook
      <4>8. WithinVenue(t, book)
        <5>1. had.from .. n - 1 \subseteq had.from .. n /\ n \in had.from .. n
          BY <4>2, <4>4
        <5> QED BY <4>5, <4>6, <4>7, <5>1 DEF WithinVenue
      <4> HIDE DEF book
      <4> QED BY <4>1, <4>3, <4>4, <4>7, <4>8
    <3> QED BY <1>8, <3>1, <3>2
  <2>2. channel' \in Seq(Message)
    BY <1>8, MessageTyped DEF HandleSnapshot, ApplyDelta
  <2>3. UNCHANGED <<openPair, rowRead, activeSubscriptions, contractRefCounts, subscriptions,
                    connected, reconnecting, attempts, sid, cooling, venueSeq, nextSid, venueSubs>>
    BY <1>8 DEF HandleSnapshot, ApplyDelta, pairsOpen, link
  <2>4. FeedTypeOK'
    BY <2>1, <2>2, <2>3 DEF FeedTypeOK, Message
  <2>5. BooksRight'
    BY <2>1 DEF FeedTypeOK, BooksRight, BooksBegun, BooksWithinVenues
  <2> QED BY <2>3, <2>4, <2>5 DEF ClientFollowsPairs
<1>9. CASE RejectDelta
  <2>1. /\ channel' \in Seq(Message) /\ cooling' \subseteq Ticker
        /\ venueSubs' \subseteq (0 .. nextSid) \X Ticker
    <3>1. channel # <<>> /\ Next1.ticker \in Ticker /\ Rest \in Seq(Message)
      BY <1>9, MessageTyped DEF RejectDelta
    <3>2. Append(Rest, Snapshot(Next1.ticker)) \in Seq(Message)
      BY <3>1, AnswerTyped
    <3>3. channel' \in Seq(Message)
      BY <1>9, <3>1, <3>2 DEF RejectDelta, Resubscribe
    <3>4. cooling' = cooling \/ cooling' = cooling \cup {Next1.ticker}
      BY <1>9 DEF RejectDelta, Resubscribe
    <3>5. venueSubs' = venueSubs \/ venueSubs' = venueSubs \cup {<<sid, Next1.ticker>>}
      BY <1>9 DEF RejectDelta, Resubscribe
    <3>6. <<sid, Next1.ticker>> \in (0 .. nextSid) \X Ticker
      BY <3>1 DEF FeedTypeOK
    <3> QED BY <3>1, <3>3, <3>4, <3>5, <3>6 DEF FeedTypeOK
  <2>2. UNCHANGED <<openPair, rowRead, activeSubscriptions, contractRefCounts, subscriptions,
                    connected, reconnecting, attempts, sid, localBook, venueSeq, nextSid>>
    BY <1>9 DEF RejectDelta, pairsOpen, link
  <2>3. FeedTypeOK'
    BY <2>1, <2>2 DEF FeedTypeOK, Message
  <2> QED BY <2>2, <2>3 DEF BooksRight, BooksBegun, BooksWithinVenues, ClientFollowsPairs
<1>10. ASSUME NEW t \in Ticker, CooldownEnds(t) PROVE FeedInv'
  BY <1>10
  DEF CooldownEnds, FeedTypeOK, Message, ClientFollowsPairs, BooksRight, BooksBegun, BooksWithinVenues, wire, link, pairsOpen
<1>11. ASSUME NEW t \in Ticker, BookChanges(t) PROVE FeedInv'
  <2>1. venueSeq' \in [Ticker -> 0 .. MaxMoves] /\ venueSeq[t] + 1 \in 0 .. MaxMoves
    <3>1. /\ venueSeq[t] < MaxMoves /\ venueSeq' = [venueSeq EXCEPT ![t] = @ + 1]
          /\ MaxMoves \in Nat
      BY <1>11, FeedConstants DEF BookChanges
    <3>2. venueSeq \in [Ticker -> 0 .. MaxMoves]
      BY DEF FeedTypeOK
    <3> QED BY <3>1, <3>2
  <2>2. UNCHANGED <<openPair, rowRead, activeSubscriptions, contractRefCounts, subscriptions,
                    connected, reconnecting, attempts, sid, localBook, cooling, nextSid, venueSubs>>
    BY <1>11 DEF BookChanges, pairsOpen, link
  <2>3. channel' \in Seq(Message)
    <3> DEFINE n == Cardinality({sub \in venueSubs : sub[2] = t})
               said == [i \in 1 .. n |-> Delta(t, venueSeq[t] + 1)]
    <3>1. channel' = channel \o said \/ channel' = channel
      BY <1>11 DEF BookChanges
    <3>2. said \in Seq(Message)
      <4>1. Delta(t, venueSeq[t] + 1) \in Message
        BY <2>1 DEF Delta, Message
      <4>2. n \in Nat
        <5>1. IsFiniteSet((0 .. nextSid) \X Ticker)
          <6>1. nextSid \in Nat /\ IsFiniteSet(Ticker)
            BY FeedConstants DEF FeedTypeOK
          <6>2. IsFiniteSet(0 .. nextSid)
            BY <6>1, FS_Interval
          <6> QED BY <6>1, <6>2, FS_Product
        <5>2. IsFiniteSet({sub \in venueSubs : sub[2] = t})
          BY <5>1, FS_Subset DEF FeedTypeOK
        <5> QED BY <5>2, FS_CardinalityType
      <4> QED BY <4>1, <4>2, SeqDef
    <3>3. channel \in Seq(Message)
      BY DEF FeedTypeOK
    <3> HIDE DEF said
    <3> QED BY <3>1, <3>2, <3>3, ConcatProperties
  <2>4. FeedTypeOK'
    BY <2>1, <2>2, <2>3 DEF FeedTypeOK, Message
  <2> QED BY <2>2, <2>4 DEF BooksRight, BooksBegun, BooksWithinVenues, ClientFollowsPairs
<1>12. CASE UNCHANGED feedVars
  BY <1>12 DEF feedVars, FeedTypeOK, Message, ClientFollowsPairs, BooksRight, BooksBegun, BooksWithinVenues
<1> QED BY <1>1, <1>2, <1>3, <1>4, <1>5, <1>6, <1>7, <1>8, <1>9, <1>10, <1>11, <1>12 DEF FeedNext

(* Whatever is lost and however often the socket reconnects, for books of   *)
(* any levels and any depth the client keeps: no rebuilt book shows more at *)
(* a price than the venue's has at its sequence number, and each shows      *)
(* exactly that at a price that was among the best since the snapshot; the  *)
(* client follows the contracts of the subscribed pairs, each counted.      *)
THEOREM FeedsAlwaysSound == FeedSpec => []FeedsSound
<1>1. FeedInv => FeedsSound
  BY DEF FeedInv, BooksRight, FeedsSound
<1> QED BY <1>1, FeedStarts, FeedStep, PTL DEF FeedSpec

-----------------------------------------------------------------------------
(* The audit trail.                                                         *)

(* Rows are in the order of their times; before a tie these are distinct.   *)
RowsRise(list, ties) ==
    \A i, j \in DOMAIN list : i < j => list[i].at <= list[j].at /\ (~ties => list[i].at < list[j].at)
Until(list, time, ties) == \A i \in DOMAIN list : list[i].at <= time /\ (~ties => list[i].at < time)

(* Each row follows the one before it, and a hash is that of the last row.  *)
Linked(list) == \A i \in DOMAIN list : i > 1 => list[i].previous = list[i - 1].hash
EndsIn(list, hash) == list = <<>> \/ hash = list[Len(list)].hash

InOrder ==
    /\ RowsRise(trail, tied) /\ \A i \in DOMAIN trail : trail[i].at <= instant
    /\ writing # NoRow => writing.at <= instant /\ Until(trail, writing.at, tied)

Chained == Linked(trail) /\ (lastHash = Null \/ EndsIn(trail, lastHash))

AuditInv ==
    /\ AuditTypeOK
    /\ made + queued <= MaxEntries
    /\ writing # NoRow => lastHash = writing.previous
    /\ InOrder
    /\ ~tied /\ ~torn => Chained

LEMMA RowTyped ==
    ASSUME NEW r \in Row
    PROVE  /\ r.at \in Nat /\ r.at \in 0 .. LastInstant /\ r.hash \in 1 .. MaxEntries
           /\ r.previous \in Genesis .. MaxEntries /\ r.intact \in BOOLEAN /\ r # NoRow
           /\ r.previous # Null
BY AuditConstants DEF Row, NoRow, Genesis, Null

LEMMA StoredRow ==
    ASSUME NEW list \in Seq(Row), NEW r \in Row, NEW ties \in BOOLEAN,
           RowsRise(list, ties), Until(list, r.at, ties)
    PROVE  /\ Append(list, r) \in Seq(Row) /\ Append(list, r) # <<>>
           /\ RowsRise(Append(list, r), ties)
           /\ \A i \in DOMAIN Append(list, r) : Append(list, r)[i].at <= r.at
           /\ Linked(list) /\ EndsIn(list, r.previous) =>
                 Linked(Append(list, r)) /\ EndsIn(Append(list, r), r.hash)
<1> DEFINE n == Len(list)
           new == Append(list, r)
<1>1. /\ new \in Seq(Row) /\ new # <<>> /\ Len(new) = n + 1 /\ n \in Nat
      /\ \A i \in 1 .. n : new[i] = list[i]
      /\ new[n + 1] = r
  BY AppendProperties, LenProperties
<1>2. DOMAIN list = 1 .. n /\ DOMAIN new = 1 .. n + 1
  BY <1>1, LenProperties
<1>3. \A i \in 1 .. n : list[i] \in Row /\ list[i].at \in Nat
  BY ElementOfSeq, RowTyped
<1>4. r.at \in Nat
  BY RowTyped
<1>8. list = <<>> => n = 0
  BY EmptySeq
<1> HIDE DEF new, n
<1>5. \A i \in 1 .. n + 1 : new[i].at <= r.at
  BY <1>1, <1>2, <1>3, <1>4 DEF Until
<1>6. RowsRise(new, ties)
  <2> SUFFICES ASSUME NEW i \in 1 .. n + 1, NEW j \in 1 .. n + 1, i < j
               PROVE  new[i].at <= new[j].at /\ (~ties => new[i].at < new[j].at)
    BY <1>2 DEF RowsRise
  <2>1. i \in 1 .. n /\ (j \in 1 .. n \/ j = n + 1)
    BY <1>1
  <2> QED BY <1>1, <1>2, <2>1 DEF RowsRise, Until
<1>7. ASSUME Linked(list), EndsIn(list, r.previous) PROVE Linked(new) /\ EndsIn(new, r.hash)
  <2>1. EndsIn(new, r.hash)
    BY <1>1 DEF EndsIn
  <2>2. ASSUME NEW i \in 1 .. n + 1, i > 1 PROVE new[i].previous = new[i - 1].hash
    <3>1. CASE i \in 1 .. n
      <4>1. i - 1 \in 1 .. n
        BY <1>1, <2>2, <3>1
      <4> QED BY <1>1, <1>2, <1>7, <2>2, <3>1, <4>1 DEF Linked
    <3>2. CASE i = n + 1
      <4>1. i - 1 = n /\ n \in 1 .. n
        BY <1>1, <2>2, <3>2
      <4>2. r.previous = list[n].hash
        BY <1>7, <1>8, <4>1 DEF EndsIn, n
      <4> QED BY <1>1, <3>2, <4>1, <4>2
    <3> QED BY <1>1, <3>1, <3>2
  <2> QED BY <1>2, <2>1, <2>2 DEF Linked
<1> QED BY <1>1, <1>2, <1>5, <1>6, <1>7 DEF new

LEMMA PrunedRows ==
    ASSUME NEW list \in Seq(Row), NEW gone \in DOMAIN list, NEW ties \in BOOLEAN, NEW hash,
           RowsRise(list, ties)
    PROVE  LET left == SubSeq(list, gone + 1, Len(list)) IN
           /\ left \in Seq(Row) /\ RowsRise(left, ties)
           /\ \A i \in DOMAIN left : \E j \in DOMAIN list : left[i] = list[j]
           /\ Linked(list) => Linked(left)
           /\ EndsIn(list, hash) => EndsIn(left, hash)
<1> DEFINE n == Len(list)
           left == SubSeq(list, gone + 1, n)
<1>1. n \in Nat /\ DOMAIN list = 1 .. n
  BY LenProperties
<1>2. gone \in 1 .. n
  BY <1>1
<1>3. \A i \in gone + 1 .. n : list[i] \in Row
  BY <1>1, <1>2, ElementOfSeq
<1>4. gone + 1 \in Int /\ n \in Int
  BY <1>1, <1>2
<1>5. /\ left \in Seq(Row) /\ Len(left) = IF gone + 1 <= n THEN n - (gone + 1) + 1 ELSE 0
      /\ \A i \in 1 .. n - (gone + 1) + 1 : left[i] = list[gone + 1 + i - 1]
  BY <1>3, <1>4, SubSeqProperties
<1> HIDE DEF left
<1> DEFINE m == n - gone
<1>6. m \in Nat /\ Len(left) = m /\ \A i \in 1 .. m : left[i] = list[i + gone] /\ i + gone \in 1 .. n
  <2>1. m \in Nat /\ Len(left) = m
    BY <1>1, <1>2, <1>5
  <2>2. ASSUME NEW i \in 1 .. m PROVE left[i] = list[i + gone] /\ i + gone \in 1 .. n
    <3>1. i \in 1 .. n - (gone + 1) + 1 /\ gone + 1 + i - 1 = i + gone /\ i + gone \in 1 .. n
      BY <1>1, <1>2, <2>2
    <3> QED BY <1>5, <3>1
  <2> QED BY <2>1, <2>2
<1>7. DOMAIN left = 1 .. m
  BY <1>5, <1>6, LenProperties
<1> HIDE DEF m
<1>8. RowsRise(left, ties)
  <2> SUFFICES ASSUME NEW i \in 1 .. m, NEW j \in 1 .. m, i < j
               PROVE  left[i].at <= left[j].at /\ (~ties => left[i].at < left[j].at)
    BY <1>7 DEF RowsRise
  <2>1. i + gone < j + gone
    BY <1>2, <1>6
  <2> QED BY <1>1, <1>6, <2>1 DEF RowsRise
<1>9. ASSUME Linked(list) PROVE Linked(left)
  <2> SUFFICES ASSUME NEW i \in 1 .. m, i > 1 PROVE left[i].previous = left[i - 1].hash
    BY <1>7 DEF Linked
  <2>1. i - 1 \in 1 .. m /\ (i - 1) + gone = (i + gone) - 1 /\ i + gone > 1
    BY <1>2, <1>6
  <2>2. list[i + gone].previous = list[(i + gone) - 1].hash
    BY <1>1, <1>6, <1>9, <2>1 DEF Linked
  <2> QED BY <1>6, <2>1, <2>2
<1>10. ASSUME EndsIn(list, hash) PROVE EndsIn(left, hash)
  <2>1. CASE m = 0
    BY <1>5, <1>6, <2>1, EmptySeq DEF EndsIn
  <2>2. CASE m # 0
    <3>1. m \in 1 .. m /\ m + gone = n
      BY <1>1, <1>2, <1>6, <2>2 DEF m
    <3>2. n # 0
      BY <1>1, <1>2
    <3>3. list # <<>>
      BY <3>2, EmptySeq
    <3> QED BY <1>6, <1>10, <3>1, <3>3 DEF EndsIn
  <2> QED BY <2>1, <2>2
<1> QED BY <1>1, <1>5, <1>6, <1>7, <1>8, <1>9, <1>10 DEF left

LEMMA EditedRows ==
    ASSUME NEW list \in Seq(Row), NEW k \in DOMAIN list, NEW ties, NEW time, NEW hash
    PROVE  LET edited == [list EXCEPT ![k].intact = FALSE] IN
           /\ edited \in Seq(Row) /\ DOMAIN edited = DOMAIN list
           /\ \A i \in DOMAIN list : edited[i].at = list[i].at
           /\ RowsRise(list, ties) => RowsRise(edited, ties)
           /\ Until(list, time, ties) => Until(edited, time, ties)
           /\ Linked(list) => Linked(edited)
           /\ EndsIn(list, hash) => EndsIn(edited, hash)
<1> DEFINE e == [list[k] EXCEPT !.intact = FALSE]
           edited == [list EXCEPT ![k] = e]
<1>1. k \in 1 .. Len(list) /\ DOMAIN list = 1 .. Len(list) /\ Len(list) \in Nat
  BY LenProperties
<1>2. list[k] \in Row
  BY <1>1, ElementOfSeq
<1>3. e \in Row /\ e.at = list[k].at /\ e.hash = list[k].hash /\ e.previous = list[k].previous
  BY <1>2 DEF Row
<1> HIDE DEF e
<1>4. /\ edited \in Seq(Row) /\ Len(edited) = Len(list)
      /\ \A j \in 1 .. Len(list) : edited[j] = IF j = k THEN e ELSE list[j]
  BY <1>1, <1>3, ExceptSeq
<1>5. DOMAIN edited = 1 .. Len(list)
  BY <1>4, LenProperties
<1>6. \A j \in 1 .. Len(list) : /\ edited[j].at = list[j].at /\ edited[j].hash = list[j].hash
                                /\ edited[j].previous = list[j].previous
  BY <1>3, <1>4
<1> HIDE DEF edited
<1>7. \A i \in 1 .. Len(list) : i > 1 => i - 1 \in 1 .. Len(list)
  BY <1>1
<1>8. Linked(list) => Linked(edited)
  BY <1>1, <1>5, <1>6, <1>7 DEF Linked
<1>9. EndsIn(list, hash) => EndsIn(edited, hash)
  <2>1. Len(list) \in 1 .. Len(list) /\ list # <<>>
    BY <1>1, EmptySeq
  <2> QED BY <1>4, <1>6, <2>1 DEF EndsIn
<1>10. /\ RowsRise(list, ties) => RowsRise(edited, ties)
       /\ Until(list, time, ties) => Until(edited, time, ties)
  BY <1>1, <1>5, <1>6 DEF RowsRise, Until
<1>11. [list EXCEPT ![k].intact = FALSE] = edited
  BY DEF edited, e
<1> QED BY <1>1, <1>4, <1>5, <1>6, <1>8, <1>9, <1>10, <1>11

(* A row with the latest time is the last, when no two have one time.       *)
LEMMA LatestIsLast ==
    ASSUME NEW list \in Seq(Row), RowsRise(list, FALSE), NEW hash \in LatestHashes(Range(list))
    PROVE  EndsIn(list, hash) /\ list # <<>>
<1> DEFINE n == Len(list)
<1>1. n \in Nat /\ DOMAIN list = 1 .. n
  BY LenProperties
<1>2. Range(list) = {list[i] : i \in 1 .. n}
  BY RangeEquality
<1>3. PICK k \in 1 .. n : hash = list[k].hash /\ \A j \in 1 .. n : list[j].at <= list[k].at
  BY <1>2 DEF LatestHashes
<1>4. n \in 1 .. n /\ list[n] \in Row /\ list[k] \in Row
  BY <1>1, ElementOfSeq
<1>5. list[n].at \in Nat /\ list[k].at \in Nat
  BY <1>4, RowTyped
<1> HIDE DEF n
<1>6. k = n
  <2> SUFFICES ASSUME k < n PROVE FALSE
    BY <1>1
  <2>1. list[k].at < list[n].at
    BY <1>1, <1>4 DEF RowsRise
  <2> QED BY <1>3, <1>4, <1>5, <2>1
<1>7. list # <<>>
  BY <1>4, EmptySeq DEF n
<1> QED BY <1>3, <1>6, <1>7 DEF EndsIn, n

LEMMA LatestTyped ==
    ASSUME NEW list \in Seq(Row), NEW hash \in LatestHashes(Range(list)) PROVE hash \in 1 .. MaxEntries
<1>1. Range(list) \subseteq Row
  BY RangeOfSeq
<1> QED BY <1>1, RowTyped DEF LatestHashes

LEMMA AuditStarts == AuditInit => AuditInv
<1> SUFFICES ASSUME AuditInit PROVE AuditInv
  OBVIOUS
<1>1. trail = <<>> /\ trail \in Seq(Row) /\ Len(trail) = 0
  BY EmptySeq DEF AuditInit
<1>2. DOMAIN trail = 1 .. 0
  BY <1>1, LenProperties
<1>3. DOMAIN trail = {}
  BY <1>2
<1>4. AuditTypeOK
  <2>1. tied \in BOOLEAN /\ torn \in BOOLEAN
    BY Zenon DEF AuditInit
  <2>2. /\ lastHash \in Null .. MaxEntries /\ queued \in 0 .. MaxQueued
        /\ instant \in 0 .. LastInstant /\ made \in 0 .. MaxEntries
    BY AuditConstants DEF AuditInit, Null
  <2>3. writing \in Row \cup {NoRow}
    BY DEF AuditInit
  <2> QED BY <1>1, <2>1, <2>2, <2>3 DEF AuditTypeOK
<1>5. InOrder /\ Chained
  BY <1>1, <1>3 DEF AuditInit, InOrder, Chained, RowsRise, Linked, EndsIn
<1> QED BY <1>4, <1>5, AuditConstants DEF AuditInit, AuditInv

(* The row under way is stored, whether its call is told so or not.         *)
LEMMA WritingStored ==
    ASSUME AuditInv, writing # NoRow, trail' = Append(trail, writing), tied' = tied, instant' = instant
    PROVE  /\ trail' \in Seq(Row) /\ trail' # <<>> /\ RowsRise(trail', tied)
           /\ \A i \in DOMAIN trail' : trail'[i].at <= instant
           /\ ~tied /\ ~torn => Linked(trail') /\ EndsIn(trail', writing.hash)
<1>1. /\ trail \in Seq(Row) /\ writing \in Row /\ tied \in BOOLEAN /\ instant \in Nat
      /\ RowsRise(trail, tied) /\ Until(trail, writing.at, tied) /\ writing.at <= instant
      /\ lastHash = writing.previous
  BY DEF AuditInv, AuditTypeOK, InOrder
<1>2. writing.previous # Null /\ writing.at \in Nat
  BY <1>1, RowTyped
<1>3. ~tied /\ ~torn => Linked(trail) /\ EndsIn(trail, writing.previous)
  BY <1>1, <1>2 DEF AuditInv, Chained
<1>4. /\ trail' \in Seq(Row) /\ trail' # <<>> /\ RowsRise(trail', tied)
      /\ \A i \in DOMAIN trail' : trail'[i].at <= writing.at
      /\ Linked(trail) /\ EndsIn(trail, writing.previous) =>
            Linked(trail') /\ EndsIn(trail', writing.hash)
  BY <1>1, StoredRow
<1>5. \A i \in DOMAIN trail' : trail'[i].at \in Nat
  <2>1. DOMAIN trail' = 1 .. Len(trail')
    BY <1>4, LenProperties
  <2> QED BY <1>4, <2>1, ElementOfSeq, RowTyped
<1>6. \A i \in DOMAIN trail' : trail'[i].at <= instant
  BY <1>1, <1>2, <1>4, <1>5
<1> QED BY <1>3, <1>4, <1>6

(* Steps that leave the rows and the row under way alone.                   *)
LEMMA TrailRests ==
    ASSUME AuditInv, UNCHANGED <<trail, writing, lastHash, tied, torn>>,
           queued' \in 0 .. MaxQueued, made' \in 0 .. MaxEntries, made' + queued' <= MaxEntries,
           instant' \in 0 .. LastInstant, instant <= instant'
    PROVE  AuditInv'
<1>1. AuditTypeOK'
  BY DEF AuditInv, AuditTypeOK
<1>2. InOrder'
  <2>1. \A i \in DOMAIN trail : trail[i].at \in Nat
    <3>1. trail \in Seq(Row)
      BY DEF AuditInv, AuditTypeOK
    <3>2. DOMAIN trail = 1 .. Len(trail)
      BY <3>1, LenProperties
    <3> QED BY <3>1, <3>2, ElementOfSeq, RowTyped
  <2>2. writing # NoRow => writing.at \in Nat
    BY RowTyped DEF AuditInv, AuditTypeOK
  <2>3. instant \in Nat /\ instant' \in Nat
    BY AuditConstants DEF AuditInv, AuditTypeOK
  <2>4. \A i \in DOMAIN trail : trail[i].at <= instant'
    BY <2>1, <2>3 DEF AuditInv, InOrder
  <2>5. writing # NoRow => writing.at <= instant'
    BY <2>2, <2>3 DEF AuditInv, InOrder
  <2> QED BY <2>4, <2>5 DEF AuditInv, InOrder, RowsRise, Until
<1>3. ~tied /\ ~torn => Chained'
  BY DEF AuditInv, Chained, Linked, EndsIn
<1> QED BY <1>1, <1>2, <1>3 DEF AuditInv

LEMMA BeginAppendKeeps == ASSUME AuditInv, BeginAppend PROVE AuditInv'
<1>1. PICK previous \in IF lastHash = Null THEN LastStored(Range(trail)) ELSE {lastHash} :
         /\ lastHash' = previous
         /\ writing' = [previous |-> previous, hash |-> made + 1, at |-> instant, intact |-> TRUE]
  BY DEF BeginAppend
<1>2. /\ trail \in Seq(Row) /\ made \in Nat /\ queued \in Nat /\ queued > 0 /\ MaxEntries \in Nat
      /\ made + queued <= MaxEntries /\ instant \in 0 .. LastInstant /\ instant \in Nat
      /\ tied \in BOOLEAN
      /\ lastHash \in Null .. MaxEntries /\ queued \in 0 .. MaxQueued
  BY AuditConstants DEF AuditInv, AuditTypeOK, BeginAppend
<1>3. /\ queued' = queued - 1 /\ made' = made + 1
      /\ tied' = (tied \/ \E i \in DOMAIN trail : trail[i].at = instant)
      /\ UNCHANGED <<trail, instant, torn>>
  BY DEF BeginAppend
<1>4. previous \in Genesis .. MaxEntries
  <2>1. CASE lastHash = Null
    BY <2>1, <1>1, <1>2, LatestTyped DEF LastStored, Genesis
  <2>2. CASE lastHash # Null
    BY <2>2, <1>1, <1>2 DEF Genesis, Null
  <2> QED BY <2>1, <2>2
<1>5. writing' \in Row /\ writing' # NoRow
  <2>1. made + 1 \in 1 .. MaxEntries
    BY <1>2
  <2>2. writing' \in Row
    BY <1>1, <1>2, <1>4, <2>1 DEF Row
  <2> QED BY <2>2, RowTyped
<1>6. AuditTypeOK'
  <2>1. lastHash' \in Null .. MaxEntries
    BY <1>1, <1>4 DEF Genesis, Null
  <2>2. queued' \in 0 .. MaxQueued /\ made' \in 0 .. MaxEntries
    BY <1>2, <1>3, AuditConstants
  <2>3. tied' \in BOOLEAN
    BY <1>2, <1>3, Zenon
  <2>4. trail' \in Seq(Row) /\ instant' \in 0 .. LastInstant /\ torn' \in BOOLEAN
    BY <1>2, <1>3 DEF AuditInv, AuditTypeOK
  <2> QED BY <1>5, <2>1, <2>2, <2>3, <2>4 DEF AuditTypeOK
<1>7. \A i \in DOMAIN trail : trail[i].at \in Nat /\ trail[i].at <= instant
  <2>1. DOMAIN trail = 1 .. Len(trail)
    BY <1>2, LenProperties
  <2> QED BY <1>2, <2>1, ElementOfSeq, RowTyped DEF AuditInv, InOrder
<1>8. InOrder'
  <2>1. RowsRise(trail, tied')
    BY <1>3 DEF AuditInv, InOrder, RowsRise
  <2>2. writing'.at = instant
    BY <1>1
  <2>3. Until(trail, instant, tied')
    <3>1. ~tied' => \A i \in DOMAIN trail : trail[i].at # instant
      BY <1>3, Zenon
    <3> QED BY <1>2, <1>7, <3>1 DEF Until
  <2> QED BY <1>2, <1>3, <1>7, <2>1, <2>2, <2>3 DEF InOrder, RowsRise, Until
<1>9. ASSUME ~tied', ~torn' PROVE Chained'
  <2>1. ~tied /\ ~torn
    BY <1>3, <1>9
  <2>2. Linked(trail) /\ (lastHash = Null \/ EndsIn(trail, lastHash)) /\ RowsRise(trail, FALSE)
    BY <2>1 DEF AuditInv, Chained, InOrder, RowsRise
  <2>3. EndsIn(trail, previous)
    <3>1. CASE lastHash # Null
      BY <3>1, <2>2, <1>1
    <3>2. CASE lastHash = Null /\ Range(trail) = {}
      <4>1. trail = <<>>
        <5>1. \A i \in 1 .. Len(trail) : FALSE
          <6> SUFFICES ASSUME NEW i \in 1 .. Len(trail) PROVE FALSE
            OBVIOUS
          <6>1. trail[i] \in Range(trail)
            BY <1>2, RangeEquality
          <6> QED BY <3>2, <6>1
        <5>2. Len(trail) \in Nat
          BY <1>2, LenProperties
        <5>3. Len(trail) = 0
          BY <5>1, <5>2
        <5> QED BY <1>2, <5>3, EmptySeq
      <4> QED BY <4>1 DEF EndsIn
    <3>3. CASE lastHash = Null /\ Range(trail) # {}
      BY <3>3, <1>1, <1>2, <2>2, LatestIsLast DEF LastStored
    <3> QED BY <3>1, <3>2, <3>3
  <2> QED BY <1>1, <1>3, <2>2, <2>3 DEF Chained, Linked, EndsIn
<1>10. made' + queued' <= MaxEntries /\ lastHash' = writing'.previous
  BY <1>1, <1>2, <1>3
<1> QED BY <1>6, <1>8, <1>9, <1>10 DEF AuditInv

(* The row under way is given up, after it was stored or not.               *)
LEMMA WritingEnds ==
    ASSUME AuditInv, writing' = NoRow, UNCHANGED <<instant, made, tied>>, torn' \in BOOLEAN,
           queued' \in 0 .. queued, lastHash' \in Null .. MaxEntries,
           trail' \in Seq(Row), RowsRise(trail', tied), \A i \in DOMAIN trail' : trail'[i].at <= instant,
           ~tied /\ ~torn' => Linked(trail') /\ (lastHash' = Null \/ EndsIn(trail', lastHash'))
    PROVE  AuditInv'
<1>1. queued \in 0 .. MaxQueued /\ made \in 0 .. MaxEntries /\ made + queued <= MaxEntries
  BY DEF AuditInv, AuditTypeOK
<1>2. queued' \in 0 .. MaxQueued /\ made' + queued' <= MaxEntries
  BY <1>1, AuditConstants
<1>3. AuditTypeOK'
  BY <1>2 DEF AuditInv, AuditTypeOK
<1>4. InOrder'
  BY DEF InOrder, RowsRise
<1>5. ~tied' /\ ~torn' => Chained'
  BY DEF Chained, Linked, EndsIn
<1> QED BY <1>2, <1>3, <1>4, <1>5 DEF AuditInv

LEMMA PruneKeeps == ASSUME AuditInv, NEW limit, Prune(limit) PROVE AuditInv'
<1>1. PICK gone \in DOMAIN trail : trail' = SubSeq(trail, gone + 1, Len(trail))
  BY DEF Prune
<1>2. UNCHANGED <<lastHash, queued, writing, instant, made, tied, torn>>
  BY DEF Prune
<1>3. trail \in Seq(Row) /\ tied \in BOOLEAN /\ RowsRise(trail, tied)
  BY DEF AuditInv, AuditTypeOK, InOrder
<1>4. /\ trail' \in Seq(Row) /\ RowsRise(trail', tied)
      /\ \A i \in DOMAIN trail' : \E j \in DOMAIN trail : trail'[i] = trail[j]
      /\ Linked(trail) => Linked(trail')
      /\ EndsIn(trail, lastHash) => EndsIn(trail', lastHash)
  BY <1>1, <1>3, PrunedRows
<1>5. AuditTypeOK'
  BY <1>2, <1>4 DEF AuditInv, AuditTypeOK
<1>6. InOrder'
  <2>1. \A i \in DOMAIN trail' : trail'[i].at <= instant
    BY <1>4 DEF AuditInv, InOrder
  <2>2. writing # NoRow => Until(trail', writing.at, tied)
    BY <1>4 DEF AuditInv, InOrder, Until
  <2> QED BY <1>2, <1>4, <2>1, <2>2 DEF AuditInv, InOrder, RowsRise, Until
<1>7. ~tied' /\ ~torn' => Chained'
  BY <1>2, <1>4 DEF AuditInv, Chained, Linked, EndsIn
<1> QED BY <1>2, <1>5, <1>6, <1>7 DEF AuditInv

LEMMA EditKeeps == ASSUME AuditInv, NEW k \in DOMAIN trail, Edit(k) PROVE AuditInv'
<1>1. trail' = [trail EXCEPT ![k].intact = FALSE]
  BY DEF Edit
<1>2. UNCHANGED <<lastHash, queued, writing, instant, made, tied, torn>>
  BY DEF Edit
<1>3. trail \in Seq(Row)
  BY DEF AuditInv, AuditTypeOK
<1>4. /\ trail' \in Seq(Row) /\ DOMAIN trail' = DOMAIN trail
      /\ \A i \in DOMAIN trail : trail'[i].at = trail[i].at
      /\ RowsRise(trail, tied) => RowsRise(trail', tied)
      /\ Until(trail, writing.at, tied) => Until(trail', writing.at, tied)
      /\ Linked(trail) => Linked(trail')
      /\ EndsIn(trail, lastHash) => EndsIn(trail', lastHash)
  BY <1>1, <1>3, EditedRows
<1>5. AuditTypeOK'
  BY <1>2, <1>4 DEF AuditInv, AuditTypeOK
<1>6. InOrder'
  BY <1>2, <1>4 DEF AuditInv, InOrder, RowsRise, Until
<1>7. ~tied' /\ ~torn' => Chained'
  BY <1>2, <1>4 DEF AuditInv, Chained, Linked, EndsIn
<1> QED BY <1>2, <1>5, <1>6, <1>7 DEF AuditInv

LEMMA AuditStep == AuditInv /\ [AuditNext]_auditVars => AuditInv'
<1> SUFFICES ASSUME AuditInv, [AuditNext]_auditVars PROVE AuditInv'
  OBVIOUS
<1>1. /\ queued \in 0 .. MaxQueued /\ made \in 0 .. MaxEntries /\ made + queued <= MaxEntries
      /\ instant \in 0 .. LastInstant /\ {MaxEntries, MaxQueued, LastInstant} \subseteq Nat
      /\ trail \in Seq(Row) /\ RowsRise(trail, tied) /\ \A i \in DOMAIN trail : trail[i].at <= instant
      /\ lastHash \in Null .. MaxEntries /\ torn \in BOOLEAN /\ tied \in BOOLEAN
      /\ writing \in Row \cup {NoRow}
  BY AuditConstants DEF AuditInv, AuditTypeOK, InOrder
<1>2. CASE AppendEntry
  <2>1. queued' \in 0 .. MaxQueued /\ made' \in 0 .. MaxEntries /\ made' + queued' <= MaxEntries
    BY <1>1, <1>2 DEF AppendEntry
  <2> QED BY <1>1, <1>2, <2>1, TrailRests DEF AppendEntry
<1>3. CASE BeginAppend
  BY <1>3, BeginAppendKeeps
<1>4. CASE LastHashUnreadable
  <2>1. queued' \in 0 .. MaxQueued /\ made' \in 0 .. MaxEntries /\ made' + queued' <= MaxEntries
    BY <1>1, <1>4 DEF LastHashUnreadable
  <2> QED BY <1>1, <1>4, <2>1, TrailRests DEF LastHashUnreadable
<1>5. CASE CreateSucceeds
  <2>1. /\ writing # NoRow /\ writing' = NoRow /\ trail' = Append(trail, writing)
        /\ lastHash' = writing.hash /\ UNCHANGED <<queued, instant, made, tied, torn>>
    BY <1>5 DEF CreateSucceeds
  <2>2. lastHash' \in Null .. MaxEntries
    BY <1>1, <2>1, RowTyped DEF Null
  <2>3. queued' \in 0 .. queued
    BY <1>1, <2>1
  <2>4. /\ trail' \in Seq(Row) /\ RowsRise(trail', tied)
        /\ \A i \in DOMAIN trail' : trail'[i].at <= instant
        /\ ~tied /\ ~torn => Linked(trail') /\ EndsIn(trail', lastHash')
    BY <2>1, WritingStored
  <2> QED BY <1>1, <2>1, <2>2, <2>3, <2>4, WritingEnds
<1>6. CASE CreateFails
  <2>1. /\ writing # NoRow /\ writing' = NoRow /\ lastHash' = lastHash
        /\ UNCHANGED <<queued, instant, made, tied>>
    BY <1>6 DEF CreateFails, AfterFailure
  <2>2. queued' \in 0 .. queued
    BY <1>1, <2>1
  <2>3. CASE UNCHANGED <<trail, torn>>
    <3>1. /\ trail' \in Seq(Row) /\ RowsRise(trail', tied)
          /\ \A i \in DOMAIN trail' : trail'[i].at <= instant
          /\ ~tied /\ ~torn' => Linked(trail') /\ (lastHash' = Null \/ EndsIn(trail', lastHash'))
      BY <1>1, <2>1, <2>3 DEF AuditInv, Chained
    <3> QED BY <1>1, <2>1, <2>2, <2>3, <3>1, WritingEnds
  <2>4. CASE trail' = Append(trail, writing) /\ torn' = TRUE
    <3>1. /\ trail' \in Seq(Row) /\ RowsRise(trail', tied)
          /\ \A i \in DOMAIN trail' : trail'[i].at <= instant
      BY <2>1, <2>4, WritingStored
    <3>2. torn' \in BOOLEAN
      BY <2>4, Zenon
    <3> QED BY <1>1, <2>1, <2>2, <2>4, <3>1, <3>2, WritingEnds
  <2> QED BY <1>6, <2>3, <2>4 DEF CreateFails
<1>7. ASSUME NEW limit \in 1 .. instant, Prune(limit) PROVE AuditInv'
  BY <1>7, PruneKeeps
<1>8. CASE AuditRestart
  <2>1. /\ queued' = 0 /\ writing' = NoRow /\ UNCHANGED <<instant, made, tied, torn>>
        /\ lastHash' \in {Null} \cup LatestHashes(Range(trail'))
    BY <1>8 DEF AuditRestart
  <2>2. trail' = trail \/ (writing # NoRow /\ trail' = Append(trail, writing))
    BY <1>8 DEF AuditRestart
  <2>3. /\ trail' \in Seq(Row) /\ RowsRise(trail', tied)
        /\ \A i \in DOMAIN trail' : trail'[i].at <= instant
        /\ ~tied /\ ~torn => Linked(trail')
    <3>1. CASE trail' = trail
      BY <1>1, <3>1 DEF AuditInv, Chained
    <3>2. CASE writing # NoRow /\ trail' = Append(trail, writing)
      BY <2>1, <3>2, WritingStored
    <3> QED BY <2>2, <3>1, <3>2
  <2>4. lastHash' \in Null .. MaxEntries
    BY <1>1, <2>1, <2>3, LatestTyped DEF Null
  <2>5. ~tied => lastHash' = Null \/ EndsIn(trail', lastHash')
    <3> SUFFICES ASSUME ~tied, lastHash' \in LatestHashes(Range(trail')) PROVE EndsIn(trail', lastHash')
      BY <2>1
    <3>1. RowsRise(trail', FALSE)
      BY <2>3 DEF RowsRise
    <3> QED BY <2>3, <3>1, LatestIsLast
  <2>6. queued' \in 0 .. queued
    BY <1>1, <2>1
  <2> QED BY <1>1, <2>1, <2>3, <2>4, <2>5, <2>6, WritingEnds
<1>9. CASE TimePasses
  <2>1. /\ queued' = queued /\ made' = made /\ instant' \in 0 .. LastInstant /\ instant <= instant'
        /\ UNCHANGED <<trail, writing, lastHash, tied, torn>>
    BY <1>1, <1>9 DEF TimePasses
  <2> QED BY <1>1, <2>1, TrailRests
<1>10. ASSUME NEW i \in DOMAIN trail, Edit(i) PROVE AuditInv'
  BY <1>10, EditKeeps
<1>11. CASE UNCHANGED auditVars
  <2>1. UNCHANGED <<trail, lastHash, queued, writing, instant, made, tied, torn>>
    BY <1>11 DEF auditVars
  <2>2. queued' \in 0 .. MaxQueued /\ made' \in 0 .. MaxEntries /\ made' + queued' <= MaxEntries
        /\ instant' \in 0 .. LastInstant /\ instant <= instant'
    BY <1>1, <2>1
  <2> QED BY <2>1, <2>2, TrailRests
<1> QED BY <1>2, <1>3, <1>4, <1>5, <1>6, <1>7, <1>8, <1>9, <1>10, <1>11 DEF AuditNext

(* A range is found right when its rows are: the entry before a place in    *)
(* the order of times is the place before it, or the latest of the others.  *)
LEMMA ChainedIsTruthful == ASSUME AuditInv PROVE VerificationTruthful
<1> SUFFICES ASSUME ~tied, ~torn, NEW from, NEW to
             PROVE  VerifyChain(from, to)
                       <=> \A i \in DOMAIN trail : trail[i].at \in from .. to => trail[i].intact
  BY DEF VerificationTruthful
<1> DEFINE places == InRange(from, to)
<1>1. trail \in Seq(Row) /\ Linked(trail) /\ RowsRise(trail, FALSE)
  BY DEF AuditInv, AuditTypeOK, InOrder, Chained, RowsRise
<1>2. DOMAIN trail = 1 .. Len(trail) /\ Len(trail) \in Nat /\ Range(trail) = {trail[j] : j \in 1 .. Len(trail)}
  BY <1>1, LenProperties, RangeEquality
<1>3. places \subseteq DOMAIN trail
  BY DEF InRange
<1>4. \A i \in 1 .. Len(trail) : trail[i].at \in Nat
  BY <1>1, ElementOfSeq, RowTyped
<1>5. ASSUME NEW i \in places
      PROVE  trail[i].previous \in IF i - 1 \in places THEN {trail[i - 1].hash} ELSE Anchor(trail[i])
  <2>1. i \in 1 .. Len(trail)
    BY <1>2, <1>3
  <2>2. CASE i - 1 \in places
    <3>1. i > 1
      BY <1>2, <1>3, <2>1, <2>2
    <3> QED BY <1>1, <1>2, <2>1, <2>2, <3>1 DEF Linked
  <2>3. CASE i = 1
    <3>1. \A r \in Range(trail) : ~(r.at < trail[1].at)
      <4> SUFFICES ASSUME NEW j \in 1 .. Len(trail) PROVE ~(trail[j].at < trail[1].at)
        BY <1>2
      <4>1. j = 1 \/ 1 < j
        OBVIOUS
      <4>2. 1 < j => trail[1].at < trail[j].at
        BY <1>1, <1>2, <2>1, <2>3 DEF RowsRise
      <4> QED BY <1>4, <2>1, <2>3, <4>1, <4>2
    <3>2. JustBefore(trail[1].at) = {}
      BY <3>1 DEF JustBefore, LatestHashes
    <3>3. i - 1 \notin places
      BY <1>2, <1>3, <2>3
    <3> QED BY <2>3, <3>2, <3>3 DEF Anchor
  <2>4. CASE i # 1 /\ i - 1 \notin places
    <3>1. i - 1 \in 1 .. Len(trail) /\ i - 1 < i /\ i > 1
      BY <1>2, <2>1, <2>4
    <3>2. trail[i - 1].at < trail[i].at /\ trail[i].previous = trail[i - 1].hash
      BY <1>1, <1>2, <2>1, <3>1 DEF RowsRise, Linked
    <3>3. \A r \in Range(trail) : r.at < trail[i].at => r.at <= trail[i - 1].at
      <4> SUFFICES ASSUME NEW j \in 1 .. Len(trail), trail[j].at < trail[i].at
                   PROVE  trail[j].at <= trail[i - 1].at
        BY <1>2
      <4>1. j < i
        <5>1. i = j \/ i < j \/ j < i
          BY <2>1
        <5>2. i < j => trail[i].at < trail[j].at
          BY <1>1, <1>2, <2>1 DEF RowsRise
        <5> QED BY <1>4, <2>1, <5>1, <5>2
      <4>2. j = i - 1 \/ j < i - 1
        BY <2>1, <4>1
      <4>3. j < i - 1 => trail[j].at < trail[i - 1].at
        BY <1>1, <1>2, <3>1 DEF RowsRise
      <4> QED BY <1>4, <3>1, <4>2, <4>3
    <3>4. trail[i - 1] \in Range(trail)
      BY <1>2, <3>1
    <3>5. trail[i - 1].hash \in JustBefore(trail[i].at)
      BY <3>2, <3>3, <3>4 DEF JustBefore, LatestHashes
    <3> QED BY <2>4, <3>2, <3>5 DEF Anchor
  <2> QED BY <2>2, <2>3, <2>4
<1>6. VerifyChain(from, to) <=> \A i \in places : trail[i].intact
  BY <1>5 DEF VerifyChain
<1> QED BY <1>6 DEF InRange

(* For any rows, times, failures, prunings and restarts: a verification of  *)
(* any range of dates finds fault exactly when a row of it was edited,      *)
(* unless two rows have one time or a failed create stored its row.         *)
THEOREM TrailAlwaysSound == AuditSpec => []TrailSound
<1>1. AuditInv => TrailSound
  BY ChainedIsTruthful DEF AuditInv, TrailSound
<1> QED BY <1>1, AuditStarts, AuditStep, PTL DEF AuditSpec

-----------------------------------------------------------------------------
(* The computations around a backtest.                                      *)

LEMMA Multiplied ==
    ASSUME NEW x \in Int, NEW y \in Int, NEW l \in Nat, x <= y
    PROVE  x * l <= y * l
<1>1. (y - x) * l >= 0
  <2>1. y - x >= 0 /\ y - x \in Int
    OBVIOUS
  <2> QED BY <2>1
<1>2. (y - x) * l = y * l - x * l
  OBVIOUS
<1> QED BY <1>1, <1>2

LEMMA ReportsConstants ==
    Day \in Nat \ {0} /\ LastHour \in Nat \ {0} /\ MaxList \in Nat /\ GapHours \in Nat
BY ReportsAssumption

LEMMA ChunksRight ==
    ASSUME NEW start \in Hours, NEW end \in Hours, start < end, NEW days \in 1..2,
           NEW ranges, ranges = ChunkRanges(start, end, days)
    PROVE  /\ \A d \in start..end : Cardinality({i \in DOMAIN ranges : d \in Loads(ranges, i)}) = 1
           /\ \A i \in DOMAIN ranges : ranges[i][1] < ranges[i][2] /\ Loads(ranges, i) \subseteq start..end
<1> DEFINE l == days * Day
           span == end - start
           n == (span + l - 1) \div l
           to(k) == Min({start + k * l, end})
<1>1. l \in Nat \ {0} /\ start \in Nat /\ end \in Nat /\ span \in Nat \ {0}
  BY ReportsConstants DEF Hours
<1>2. ranges = [k \in 1..n |-> <<start + (k - 1) * l, to(k)>>]
  BY DEF ChunkRanges
<1> HIDE DEF l
<1>3. n \in Nat \ {0} /\ (n - 1) * l < span /\ span <= n * l
  <2>1. n \in Nat /\ n * l <= span + l - 1 /\ span + l - 1 < n * l + l
    BY <1>1
  <2>2. n # 0
    BY <1>1, <2>1
  <2>3. (n - 1) * l = n * l - l
    BY <1>1, <2>1
  <2> QED BY <1>1, <2>1, <2>2, <2>3
<1> HIDE DEF n
<1>4. \A k \in 1..n : k * l \in Nat /\ (k - 1) * l \in Nat /\ (k - 1) * l = k * l - l
  BY <1>1, <1>3
<1>5. \A k \in 1..n : /\ to(k) = IF k < n THEN start + k * l ELSE end
                      /\ to(k) \in Nat /\ to(k) <= end /\ start + (k - 1) * l < to(k)
  <2> SUFFICES ASSUME NEW k \in 1..n
               PROVE  /\ to(k) = IF k < n THEN start + k * l ELSE end
                      /\ to(k) \in Nat /\ to(k) <= end /\ start + (k - 1) * l < to(k)
    OBVIOUS
  <2>1. start + k * l \in Nat /\ end \in Nat
    BY <1>1, <1>4
  <2>2. to(k) \in {start + k * l, end} /\ to(k) <= start + k * l /\ to(k) <= end
    BY <2>1, MinOfTwo
  <2> HIDE DEF to
  <2>3. CASE k < n
    <3>1. k * l <= (n - 1) * l
      BY <1>1, <1>3, <2>3, Multiplied
    <3> QED BY <1>1, <1>3, <1>4, <2>1, <2>2, <2>3, <3>1
  <2>4. CASE k = n
    BY <1>1, <1>3, <1>4, <2>1, <2>2, <2>4
  <2> QED BY <1>3, <2>3, <2>4
<1> HIDE DEF to
<1>6. DOMAIN ranges = 1..n /\ \A k \in 1..n : ranges[k][1] = start + (k - 1) * l /\ ranges[k][2] = to(k)
  BY <1>2
<1>7. Len(ranges) = n
  BY <1>3, <1>6
<1>8. \A k \in 1..n : \A d \in 0..LastHour :
          d \in Loads(ranges, k) <=> /\ start + (k - 1) * l <= d
                                     /\ IF k = n THEN d <= end ELSE d < start + k * l
  BY <1>3, <1>5, <1>6, <1>7 DEF Loads
<1>9. \A k \in 1..n : ranges[k][1] < ranges[k][2] /\ Loads(ranges, k) \subseteq start..end
  <2> SUFFICES ASSUME NEW k \in 1..n, NEW d \in Loads(ranges, k) PROVE d \in start..end
    BY <1>5, <1>6
  <2>1. d \in 0..LastHour
    BY DEF Loads
  <2>2. start + (k - 1) * l <= d /\ IF k = n THEN d <= end ELSE d < start + k * l
    BY <1>8, <2>1
  <2>3. k # n => start + k * l <= end
    BY <1>3, <1>5
  <2> QED BY <1>1, <1>3, <1>4, <2>1, <2>2, <2>3
<1>10. ASSUME NEW d \in start..end
       PROVE  \E q \in 1..n : \A k \in 1..n : d \in Loads(ranges, k) <=> k = q
  <2>1. d \in 0..LastHour /\ d \in Nat
    BY <1>1, ReportsConstants DEF Hours
  <2>2. CASE d = end
    <3>1. n \in 1..n
      BY <1>3
    <3>2. d \in Loads(ranges, n)
      BY <1>1, <1>3, <1>4, <1>5, <1>8, <2>1, <2>2, <3>1
    <3>3. ASSUME NEW k \in 1..n, k # n PROVE d \notin Loads(ranges, k)
      <4>1. k < n
        BY <1>3, <3>3
      <4>2. start + k * l <= end
        BY <1>5, <4>1
      <4>3. start + k * l \in Nat
        BY <1>1, <1>4
      <4> QED BY <1>1, <1>8, <2>1, <2>2, <3>3, <4>2, <4>3
    <3> QED BY <3>1, <3>2, <3>3
  <2>3. CASE d # end
    <3> DEFINE x == d - start
               q == x \div l + 1
    <3>1. x \in Nat /\ x < span
      BY <1>1, <2>1, <2>3
    <3>2. x \div l \in Nat /\ (x \div l) * l <= x /\ x < (x \div l) * l + l /\ x \div l + 1 <= n
      <4> HIDE DEF x
      <4> QED BY <1>1, <3>1, Ceiling DEF n
    <3>3. q \in 1..n /\ (q - 1) * l <= x /\ x < q * l
      <4>1. q \in 1..n /\ q - 1 = x \div l
        BY <1>3, <3>2
      <4>2. q * l = (q - 1) * l + l
        BY <1>4, <1>1, <4>1
      <4> HIDE DEF x
      <4> QED BY <3>2, <4>1, <4>2
    <3> HIDE DEF q
    <3>4. d \in Loads(ranges, q)
      BY <1>1, <1>4, <1>8, <2>1, <3>1, <3>3
    <3>5. ASSUME NEW k \in 1..n, k # q PROVE d \notin Loads(ranges, k)
      <4>1. CASE k < q
        <5>1. k * l <= (q - 1) * l
          BY <1>1, <3>3, <4>1, Multiplied
        <5>2. k # n
          BY <1>3, <3>3, <4>1
        <5> QED BY <1>1, <1>4, <1>8, <2>1, <3>1, <3>3, <5>1, <5>2
      <4>2. CASE q < k
        <5>1. q * l <= (k - 1) * l
          BY <1>1, <3>3, <4>2, Multiplied
        <5> QED BY <1>1, <1>4, <1>8, <2>1, <3>1, <3>3, <5>1
      <4> QED BY <1>3, <3>3, <3>5, <4>1, <4>2
    <3> QED BY <3>3, <3>4, <3>5
  <2> QED BY <2>2, <2>3
<1>11. ASSUME NEW d \in start..end
       PROVE  Cardinality({i \in DOMAIN ranges : d \in Loads(ranges, i)}) = 1
  <2>1. PICK q \in 1..n : \A k \in 1..n : d \in Loads(ranges, k) <=> k = q
    BY <1>10
  <2>2. {i \in DOMAIN ranges : d \in Loads(ranges, i)} = {q}
    BY <1>6, <2>1
  <2> QED BY <2>2, FS_Singleton
<1> QED BY <1>6, <1>9, <1>11

LEMMA MidnightShape ==
    ASSUME NEW h \in Nat
    PROVE  /\ Midnight(h) \in Nat /\ Midnight(h) <= h /\ h < Midnight(h) + Day
           /\ Midnight(h) % Day = 0
           /\ \A m \in Nat : m % Day = 0 /\ m < Midnight(h) => m + Day <= Midnight(h)
<1> DEFINE q == h \div Day
<1>1. Day \in Nat \ {0}
  BY ReportsConstants
<1>2. q \in Nat /\ q * Day <= h /\ h < q * Day + Day
  BY <1>1
<1>3. Midnight(h) = q * Day
  BY DEF Midnight
<1> HIDE DEF q
<1>4. q * Day \in Nat
  BY <1>1, <1>2
<1>5. (q * Day) % Day = 0
  BY <1>1, <1>2
<1>6. ASSUME NEW m \in Nat, m % Day = 0, m < q * Day PROVE m + Day <= q * Day
  <2> DEFINE p == m \div Day
  <2>1. p \in Nat /\ m = p * Day
    BY <1>1, <1>6
  <2> HIDE DEF p
  <2>2. p < q
    <3> SUFFICES ASSUME q <= p PROVE FALSE
      BY <1>2, <2>1
    <3>1. q * Day <= p * Day
      BY <1>1, <1>2, <2>1, Multiplied
    <3> QED BY <1>4, <1>6, <2>1, <3>1
  <2>3. (p + 1) * Day <= q * Day
    BY <1>1, <1>2, <2>1, <2>2, Multiplied
  <2>4. (p + 1) * Day = p * Day + Day
    BY <1>1, <2>1
  <2> QED BY <2>1, <2>3, <2>4
<1> QED BY <1>1, <1>2, <1>3, <1>4, <1>5, <1>6

LEMMA SplitRight ==
    ASSUME NEW start \in Hours, NEW end \in Hours, start < end, NEW pct \in {10, 70, 90},
           NEW split, split = TrainEndDate(start, end, pct)
    PROVE  /\ split # None => start < split[1] /\ split[1] < end /\ split[1] % Day = 0
           /\ split = None => \A m \in Hours : m % Day = 0 /\ start < m => m >= end
<1> DEFINE aim == start + ((end - start) * pct) \div 100
           wanted == Midnight(aim)
           next == Midnight(start + Day)
           cut == IF wanted <= start THEN next ELSE wanted
<1>1. start \in Nat /\ end \in Nat /\ Day \in Nat \ {0}
  BY ReportsConstants DEF Hours
<1>2. aim \in Nat /\ aim < end
  <2>1. pct = 10 \/ pct = 70 \/ pct = 90
    OBVIOUS
  <2> QED BY <1>1, <2>1
<1>3. split = IF cut >= end THEN None ELSE <<cut>>
  BY DEF TrainEndDate
<1> HIDE DEF aim
<1>4. wanted \in Nat /\ wanted <= aim /\ wanted % Day = 0
  BY <1>2, MidnightShape
<1>5. /\ next \in Nat /\ next <= start + Day /\ start + Day < next + Day /\ next % Day = 0
      /\ \A m \in Nat : m % Day = 0 /\ m < next => m + Day <= next
  <2>1. start + Day \in Nat
    BY <1>1
  <2> QED BY <2>1, MidnightShape
<1> HIDE DEF wanted, next
<1>6. CASE cut >= end
  <2>1. split = None /\ cut = next
    BY <1>1, <1>2, <1>3, <1>4, <1>6
  <2>2. ASSUME NEW m \in Hours, m % Day = 0, start < m PROVE m >= end
    <3>1. m \in Nat
      BY <1>1 DEF Hours
    <3>2. ~ (m < next)
      BY <1>1, <1>5, <2>2, <3>1
    <3> QED BY <1>1, <1>5, <1>6, <2>1, <3>1, <3>2
  <2> QED BY <2>1, <2>2
<1>7. CASE ~ (cut >= end)
  <2>1. split = <<cut>> /\ cut \in Nat /\ cut < end /\ start < cut /\ cut % Day = 0
    BY <1>1, <1>3, <1>4, <1>5, <1>7
  <2>2. split # None /\ split[1] = cut
    BY <2>1 DEF None
  <2> QED BY <2>1, <2>2
<1> QED BY <1>6, <1>7

-----------------------------------------------------------------------------
(* The search for the newest depth. *)

Windows(n) == (1..(n + 1)) \X (0..n)

SearchStep(entries, hour, g, lo, hi) ==
    IF lo > hi THEN 0
    ELSE LET mid == (lo + hi) \div 2 IN
         IF entries[mid] <= hour
         THEN LET newer == g[<<lo, mid - 1>>] IN IF newer = 0 THEN mid ELSE newer
         ELSE g[<<mid + 1, hi>>]

Search(entries, hour) ==
    CHOOSE g : g = [w \in Windows(Len(entries)) |-> SearchStep(entries, hour, g, w[1], w[2])]

Within(entries, hour, lo, hi) == {i \in lo..hi : entries[i] <= hour}
IsNewest(v, entries, hour, lo, hi) ==
    IF Within(entries, hour, lo, hi) = {} THEN v = 0
    ELSE v \in Within(entries, hour, lo, hi) /\ \A i \in Within(entries, hour, lo, hi) : v <= i

(* What a step makes of right answers is right.                             *)
LEMMA StepFindsNewest ==
    ASSUME NEW n \in Nat, NEW entries \in [1..n -> Nat], NEW hour \in Nat,
           \A i, j \in 1..n : i < j => entries[i] > entries[j],
           NEW g, NEW lo \in 1..(n + 1), NEW hi \in 0..n,
           \A a \in 1..(n + 1), b \in 0..n : b - a < hi - lo => IsNewest(g[<<a, b>>], entries, hour, a, b)
    PROVE  IsNewest(SearchStep(entries, hour, g, lo, hi), entries, hour, lo, hi)
<1> DEFINE mid == (lo + hi) \div 2
           hits(a, b) == Within(entries, hour, a, b)
           newer == g[<<lo, mid - 1>>]
           older == g[<<mid + 1, hi>>]
           v == SearchStep(entries, hour, g, lo, hi)
<1>1. CASE lo > hi
  <2>1. hits(lo, hi) = {}
    BY <1>1 DEF Within
  <2>2. v = 0
    BY <1>1 DEF SearchStep
  <2> QED BY <2>1, <2>2 DEF IsNewest
<1>2. CASE ~ (lo > hi)
  <2>1. mid \in 1..n /\ lo <= mid /\ mid <= hi /\ mid - 1 \in 0..n /\ mid + 1 \in 1..(n + 1)
        /\ (mid - 1) - lo < hi - lo /\ hi - (mid + 1) < hi - lo
    BY <1>2
  <2>2. IsNewest(newer, entries, hour, lo, mid - 1) /\ IsNewest(older, entries, hour, mid + 1, hi)
    <3> HIDE DEF mid
    <3> QED BY <2>1
  <2>3. \A i \in lo..hi : i \in 1..n /\ entries[i] \in Nat
    OBVIOUS
  <2> HIDE DEF mid
  <2>4. CASE entries[mid] <= hour
    <3>1. v = IF newer = 0 THEN mid ELSE newer
      BY <1>2, <2>4 DEF SearchStep, mid
    <3>2. mid \in hits(lo, hi)
      BY <2>1, <2>4 DEF Within
    <3>3. \A i \in hits(lo, hi) : i \in hits(lo, mid - 1) \/ i >= mid
      BY <2>1 DEF Within
    <3>4. hits(lo, mid - 1) \subseteq hits(lo, hi) /\ \A i \in hits(lo, mid - 1) : i < mid /\ i \in Nat /\ i # 0
      BY <2>1 DEF Within
    <3> HIDE DEF hits, newer, v
    <3>5. CASE hits(lo, mid - 1) = {}
      <4>1. newer = 0
        BY <2>2, <3>5 DEF IsNewest, hits
      <4>2. v = mid
        BY <3>1, <4>1
      <4> QED BY <2>1, <3>2, <3>3, <3>5, <4>2 DEF IsNewest, hits, v
    <3>6. CASE hits(lo, mid - 1) # {}
      <4>1. newer \in hits(lo, mid - 1) /\ \A i \in hits(lo, mid - 1) : newer <= i
        BY <2>2, <3>6 DEF IsNewest, hits
      <4>2. newer < mid /\ newer \in Nat /\ newer # 0 /\ newer \in hits(lo, hi)
        BY <3>4, <4>1
      <4>3. v = newer
        BY <3>1, <4>2
      <4>4. \A i \in hits(lo, hi) : i \in Int
        BY DEF hits, Within
      <4>5. \A i \in hits(lo, hi) : newer <= i
        BY <2>1, <3>3, <4>1, <4>2, <4>4
      <4> QED BY <4>2, <4>3, <4>5 DEF IsNewest, hits, v
    <3> QED BY <3>5, <3>6
  <2>5. CASE ~ (entries[mid] <= hour)
    <3>1. v = older
      BY <1>2, <2>5 DEF SearchStep, mid
    <3>2. \A i \in lo..hi : i <= mid => ~ (entries[i] <= hour)
      <4> SUFFICES ASSUME NEW i \in lo..hi, i <= mid PROVE ~ (entries[i] <= hour)
        OBVIOUS
      <4>1. i \in 1..n /\ (i = mid \/ i < mid)
        BY <2>1
      <4>2. entries[mid] \in Nat /\ entries[i] \in Nat
        BY <2>1, <4>1
      <4>3. i = mid \/ entries[i] > entries[mid]
        BY <2>1, <4>1
      <4> QED BY <2>5, <4>2, <4>3
    <3>3. hits(lo, hi) = hits(mid + 1, hi)
      BY <2>1, <3>2 DEF Within
    <3> QED BY <2>2, <3>1, <3>3 DEF IsNewest
  <2> QED BY <2>4, <2>5
<1> QED BY <1>1, <1>2

LEMMA SearchExists ==
    ASSUME NEW n \in Nat, NEW entries \in [1..n -> Nat], NEW hour \in Nat, Len(entries) = n,
           \A i, j \in 1..n : i < j => entries[i] > entries[j]
    PROVE  Search(entries, hour) = [w \in Windows(n) |->
                                     SearchStep(entries, hour, Search(entries, hour), w[1], w[2])]
<1> DEFINE first(lo, hi) == IF Within(entries, hour, lo, hi) = {} THEN 0 ELSE Min(Within(entries, hour, lo, hi))
           g == [w \in Windows(n) |-> first(w[1], w[2])]
<1>1. ASSUME NEW lo \in 1..(n + 1), NEW hi \in 0..n
      PROVE  /\ IsNewest(first(lo, hi), entries, hour, lo, hi)
             /\ \A v : IsNewest(v, entries, hour, lo, hi) => v = first(lo, hi)
  <2> DEFINE S == Within(entries, hour, lo, hi)
  <2>1. S \in SUBSET Nat
    BY DEF Within
  <2> HIDE DEF S
  <2>2. S # {} => Min(S) \in S /\ \A y \in S : Min(S) <= y
    BY <2>1, LeastOf
  <2>3. \A v : v \in S /\ (\A y \in S : v <= y) /\ S # {} => v = Min(S)
    <3> SUFFICES ASSUME NEW v \in S, \A y \in S : v <= y, S # {} PROVE v = Min(S)
      OBVIOUS
    <3>1. Min(S) \in S /\ Min(S) <= v /\ v <= Min(S)
      BY <2>2
    <3>2. Min(S) \in Nat /\ v \in Nat
      BY <2>1, <3>1
    <3> QED BY <3>1, <3>2
  <2> QED BY <2>2, <2>3 DEF IsNewest, S
<1>2. \A lo \in 1..(n + 1), hi \in 0..n : g[<<lo, hi>>] = first(lo, hi)
  <2> SUFFICES ASSUME NEW lo \in 1..(n + 1), NEW hi \in 0..n PROVE g[<<lo, hi>>] = first(lo, hi)
    OBVIOUS
  <2>1. <<lo, hi>> \in Windows(n) /\ <<lo, hi>>[1] = lo /\ <<lo, hi>>[2] = hi
    BY DEF Windows
  <2> HIDE DEF first
  <2> QED BY <2>1
<1> HIDE DEF g, first
<1>3. ASSUME NEW lo \in 1..(n + 1), NEW hi \in 0..n
      PROVE  SearchStep(entries, hour, g, lo, hi) = first(lo, hi)
  <2>1. ASSUME NEW a \in 1..(n + 1), NEW b \in 0..n PROVE IsNewest(g[<<a, b>>], entries, hour, a, b)
    <3>1. g[<<a, b>>] = first(a, b) /\ IsNewest(first(a, b), entries, hour, a, b)
      BY <1>1, <1>2
    <3> QED BY <3>1
  <2>2. IsNewest(SearchStep(entries, hour, g, lo, hi), entries, hour, lo, hi)
    BY <2>1, StepFindsNewest
  <2> QED BY <1>1, <2>2
<1>4. g = [w \in Windows(n) |-> SearchStep(entries, hour, g, w[1], w[2])]
  <2>1. \A w \in Windows(n) : w[1] \in 1..(n + 1) /\ w[2] \in 0..n
    BY DEF Windows
  <2>2. \A w \in Windows(n) : SearchStep(entries, hour, g, w[1], w[2]) = first(w[1], w[2])
    BY <1>3, <2>1
  <2>3. g = [w \in Windows(n) |-> first(w[1], w[2])]
    BY DEF g
  <2> QED BY <2>2, <2>3
<1> QED BY <1>4 DEF Search

LEMMA DepthRight ==
    ASSUME NEW n \in Nat, NEW entries \in [1..n -> Nat], NEW hour \in Nat, Len(entries) = n,
           \A i, j \in 1..n : i < j => entries[i] > entries[j]
    PROVE  LET before == {i \in DOMAIN entries : entries[i] <= hour}
           IN  NearestDepth(entries, hour) = IF before = {} THEN 0 ELSE Min(before)
<1> DEFINE g == Search(entries, hour)
           H == {k \in Nat : \A a \in 1..(n + 1), b \in 0..n : b - a + 1 < k => IsNewest(g[<<a, b>>], entries, hour, a, b)}
<1>1. \A lo \in 1..(n + 1), hi \in 0..n : g[<<lo, hi>>] = SearchStep(entries, hour, g, lo, hi)
  <2>1. g = [w \in Windows(n) |-> SearchStep(entries, hour, g, w[1], w[2])]
    BY SearchExists
  <2> HIDE DEF g
  <2> SUFFICES ASSUME NEW lo \in 1..(n + 1), NEW hi \in 0..n
               PROVE  g[<<lo, hi>>] = SearchStep(entries, hour, g, lo, hi)
    OBVIOUS
  <2>2. <<lo, hi>> \in Windows(n) /\ <<lo, hi>>[1] = lo /\ <<lo, hi>>[2] = hi
    BY DEF Windows
  <2> QED BY <2>1, <2>2
<1> HIDE DEF g
<1>2. 0 \in H
  <2> SUFFICES ASSUME NEW a \in 1..(n + 1), NEW b \in 0..n, b - a + 1 < 0
               PROVE  IsNewest(g[<<a, b>>], entries, hour, a, b)
    OBVIOUS
  <2>1. g[<<a, b>>] = 0
    <3>1. g[<<a, b>>] = SearchStep(entries, hour, g, a, b)
      BY <1>1
    <3>2. a > b
      OBVIOUS
    <3> QED BY <3>1, <3>2 DEF SearchStep
  <2>2. Within(entries, hour, a, b) = {}
    BY DEF Within
  <2> QED BY <2>1, <2>2 DEF IsNewest
<1>3. ASSUME NEW k \in Nat, k \in H PROVE k + 1 \in H
  <2> SUFFICES ASSUME NEW a \in 1..(n + 1), NEW b \in 0..n, b - a + 1 < k + 1
               PROVE  IsNewest(g[<<a, b>>], entries, hour, a, b)
    OBVIOUS
  <2>1. \A c \in 1..(n + 1), d \in 0..n : d - c < b - a => IsNewest(g[<<c, d>>], entries, hour, c, d)
    BY <1>3
  <2>2. IsNewest(SearchStep(entries, hour, g, a, b), entries, hour, a, b)
    BY <2>1, StepFindsNewest
  <2> QED BY <1>1, <2>2
<1>4. n + 1 \in H
  <2> HIDE DEF H
  <2> QED BY <1>2, <1>3, NatInductionOnSets
<1>5. IsNewest(g[<<1, n>>], entries, hour, 1, n)
  <2>1. 1 \in 1..(n + 1) /\ n \in 0..n /\ n - 1 + 1 < n + 1
    OBVIOUS
  <2> QED BY <1>4, <2>1
<1>6. NearestDepth(entries, hour) = g[<<1, n>>]
  BY DEF NearestDepth, Search, SearchStep, Windows, g
<1> DEFINE S == Within(entries, hour, 1, n)
<1>7. {i \in DOMAIN entries : entries[i] <= hour} = S
  BY DEF Within
<1>8. S # {} => g[<<1, n>>] = Min(S)
  <2>1. S \in SUBSET Nat
    BY DEF Within
  <2> HIDE DEF S
  <2> SUFFICES ASSUME S # {} PROVE g[<<1, n>>] = Min(S)
    OBVIOUS
  <2>2. Min(S) \in S /\ \A y \in S : Min(S) <= y
    BY <2>1, LeastOf
  <2>3. g[<<1, n>>] \in S /\ \A y \in S : g[<<1, n>>] <= y
    BY <1>5 DEF IsNewest, S
  <2>4. Min(S) \in Nat /\ g[<<1, n>>] \in Nat
    BY <2>1, <2>2, <2>3
  <2>5. Min(S) <= g[<<1, n>>]
    BY <2>2, <2>3
  <2>6. g[<<1, n>>] <= Min(S)
    BY <2>2, <2>3
  <2> QED BY <2>4, <2>5, <2>6
<1> QED BY <1>5, <1>6, <1>7, <1>8 DEF IsNewest

-----------------------------------------------------------------------------
(* Sweeps, walks and intervals. *)

LEMMA WindowsShare ==
    ASSUME NEW hour \in 0..(Day - 1), NEW from \in 0..(Day - 1), NEW to \in 0..(Day - 1), from # to
    PROVE  InTradingWindow(hour, from, to) <=> ~ InTradingWindow(hour, to, from)
BY ReportsConstants DEF InTradingWindow

LEMMA FactorsShape ==
    /\ None \in Factors
    /\ \A v \in Factors : v # None => v[1] \in {8, 10, 13} /\ v = <<v[1]>>
BY DEF None, Factors

LEMMA CrossingRight ==
    ASSUME NEW n \in Nat, NEW f \in [1..n -> Factors], NEW even, even = BreakEven(f), even # None, Len(f) = n
    PROVE  /\ even[1] \in 2..n /\ f[even[1]] # None /\ f[even[1] - 1] # None
           /\ (even[2] = "above") <=> (f[even[1] - 1][1] > f[even[1]][1])
           /\ \A i \in 2..(even[1] - 1) : f[i] # None /\ f[i - 1] # None =>
                  ((f[i][1] >= 10) <=> (f[i - 1][1] >= 10))
<1> DEFINE Crosses(i) == f[i - 1] # None /\ f[i] # None
                         /\ (f[i - 1][1] >= 10) # (f[i][1] >= 10)
           places == {i \in 2..n : Crosses(i)}
           place == Min(places)
<1>1. even = IF places = {} THEN None
             ELSE <<place, IF f[place][1] < 10 THEN "above" ELSE "below">>
  BY DEF BreakEven
<1>2. places # {}
  BY <1>1
<1>3. places \in SUBSET Nat /\ places \subseteq 2..n
  OBVIOUS
<1>4. place \in places /\ \A i \in places : place <= i
  <2> HIDE DEF places
  <2> QED BY <1>2, <1>3, LeastOf
<1>5. even[1] = place /\ even[2] = (IF f[place][1] < 10 THEN "above" ELSE "below")
  <2> HIDE DEF place, places
  <2> QED BY <1>1, <1>2, SMTT(30)
<1>6. place \in 2..n /\ Crosses(place)
  BY <1>4
<1>7. \A i \in 2..n : i < place => ~ Crosses(i)
  <2> SUFFICES ASSUME NEW i \in 2..n, i < place, Crosses(i) PROVE FALSE
    OBVIOUS
  <2>1. i \in places
    OBVIOUS
  <2>2. place <= i /\ place \in Nat
    BY <1>3, <1>4, <2>1
  <2> HIDE DEF place
  <2> QED BY <2>2
<1> HIDE DEF place, places
<1>8. \A i \in 1..n : f[i] # None => f[i][1] \in {8, 10, 13}
  BY FactorsShape
<1>9. place - 1 \in 1..n /\ place \in 1..n
  BY <1>6
<1>10. (even[2] = "above") <=> (f[place - 1][1] > f[place][1])
  <2>1. f[place][1] \in {8, 10, 13} /\ f[place - 1][1] \in {8, 10, 13}
    BY <1>6, <1>8, <1>9
  <2>2. (f[place - 1][1] >= 10) <=> ~ (f[place][1] >= 10)
    BY <1>6, <2>1
  <2> QED BY <1>5, <2>1, <2>2
<1>11. ASSUME NEW i \in 2..(place - 1), f[i] # None, f[i - 1] # None
       PROVE  (f[i][1] >= 10) <=> (f[i - 1][1] >= 10)
  <2>1. i \in 2..n /\ i < place
    BY <1>6
  <2>2. ~ ((f[i - 1][1] >= 10) # (f[i][1] >= 10))
    BY <1>7, <1>11, <2>1
  <2> QED BY <2>2
<1> QED BY <1>5, <1>6, <1>10, <1>11

LEMMA RecommendedRight ==
    ASSUME NEW n \in Nat, NEW f \in [1..n -> Factors], NEW best, best = Recommended(f)
    PROVE  /\ best = None <=> \A i \in 1..n : f[i] = None
           /\ best # None => /\ best[1] \in 1..n
                             /\ \A i \in 1..n : f[i] # None =>
                                  f[i][1] < f[best[1]][1] \/ (f[i] = f[best[1]] /\ best[1] <= i)
<1> DEFINE known == {i \in 1..n : f[i] # None}
           top == {i \in known : \A j \in known : f[i][1] >= f[j][1]}
           values == {f[i][1] : i \in known}
<1>1. best = IF known = {} THEN None ELSE <<Min(top)>>
  BY DEF Recommended
<1>2. \A i \in known : f[i][1] \in {8, 10, 13} /\ f[i] = <<f[i][1]>>
  BY FactorsShape
<1>3. known # {} => top # {}
  <2> SUFFICES ASSUME known # {} PROVE top # {}
    OBVIOUS
  <2>1. values \in SUBSET (1..13) /\ values # {} /\ 13 \in Nat
    <3>1. \A v \in values : v \in 1..13
      BY <1>2
    <3>2. PICK i \in known : TRUE
      OBVIOUS
    <3>3. f[i][1] \in values
      OBVIOUS
    <3> HIDE DEF values
    <3> QED BY <3>1, <3>3
  <2> HIDE DEF values
  <2>2. Max(values) \in values /\ \A y \in values : Max(values) >= y
    BY <2>1, MaxOfSet
  <2>3. PICK i \in known : f[i][1] = Max(values)
    BY <2>2 DEF values
  <2>4. \A j \in known : f[i][1] >= f[j][1]
    BY <2>2, <2>3 DEF values
  <2> QED BY <2>4
<1>4. CASE known = {}
  BY <1>1, <1>4
<1>5. CASE known # {}
  <2>1. top \in SUBSET Nat /\ top # {} /\ top \subseteq known
    BY <1>3, <1>5
  <2> DEFINE first == Min(top)
  <2>2. first \in top /\ \A i \in top : first <= i
    <3> HIDE DEF top
    <3> QED BY <2>1, LeastOf
  <2> HIDE DEF first
  <2>3. best = <<first>>
    BY <1>1, <1>5 DEF first
  <2>4. best # None /\ best[1] = first
    BY <2>3 DEF None
  <2>5. first \in known /\ \A j \in known : f[first][1] >= f[j][1]
    BY <2>2
  <2>6. ASSUME NEW i \in 1..n, f[i] # None
        PROVE  f[i][1] < f[first][1] \/ (f[i] = f[first] /\ first <= i)
    <3>1. i \in known /\ f[i][1] \in {8, 10, 13} /\ f[first][1] \in {8, 10, 13}
      BY <1>2, <2>5, <2>6
    <3>2. f[first][1] >= f[i][1]
      BY <2>5, <3>1
    <3>3. CASE f[i][1] = f[first][1]
      <4>1. i \in top
        BY <2>5, <3>1, <3>3
      <4>2. f[i] = f[first]
        BY <1>2, <2>5, <3>1, <3>3
      <4> QED BY <2>2, <4>1, <4>2
    <3>4. CASE f[i][1] # f[first][1]
      BY <3>1, <3>2, <3>4
    <3> QED BY <3>3, <3>4
  <2>7. first \in 1..n /\ ~ \A i \in 1..n : f[i] = None
    BY <2>5
  <2> QED BY <2>4, <2>6, <2>7
<1> QED BY <1>4, <1>5

Walks == {None} \cup {<<v>> : v \in {-10, -7, -6, 0, 7, 8, 10, 13}}

LEMMA OverfitJudged ==
    ASSUME NEW training \in Walks, NEW testing \in Walks, training # None, testing # None
    PROVE  LET a == training[1]  b == testing[1]
           IN  /\ b >= a => ~ Overfit(training, testing)
               /\ a > 0 /\ b < 0 => Overfit(training, testing)
<1> DEFINE a == training[1]
           b == testing[1]
<1>1. a \in Int /\ b \in Int
  BY DEF Walks, None
<1> HIDE DEF a, b
<1>2. Overfit(training, testing) <=> a # 0 /\ (a - b) * 10 > 3 * (IF a > 0 THEN a ELSE -a)
  BY DEF Overfit, a, b
<1> QED BY <1>1, <1>2 DEF a, b

LEMMA IntervalInside ==
    ASSUME NEW n \in 0..200, NEW out, out = Interval(n, 200), out # None
    PROVE  1 <= out[1] /\ out[1] <= out[2] /\ out[2] <= n
<1>1. ~ (2 * n < 200) /\ out = <<(n * 25) \div 1000 + 1, (n * 975) \div 1000 + 1>>
  BY DEF Interval
<1>2. out[1] = (n * 25) \div 1000 + 1 /\ out[2] = (n * 975) \div 1000 + 1
  BY <1>1
<1> QED BY <1>1, <1>2

-----------------------------------------------------------------------------
(* Coverage. *)

Earlier(S, p) == {q \in S : q < p}
Since(S, p) == IF Earlier(S, p) = {} THEN 0 ELSE p - Max(Earlier(S, p))

LEMMA SinceShape ==
    ASSUME NEW k \in Nat, NEW S \in SUBSET (0..k), NEW p \in S
    PROVE  /\ Since(S, p) \in Nat
           /\ Earlier(S, p) # {} => /\ Max(Earlier(S, p)) \in S /\ Max(Earlier(S, p)) < p
                                    /\ \A q \in S : q < p => q <= Max(Earlier(S, p))
<1> DEFINE E == Earlier(S, p)
<1>0. \A q \in S : q \in 0..k /\ q \in Nat /\ q \in Int
  OBVIOUS
<1>1. E \in SUBSET Int /\ E \subseteq S /\ p \in Nat /\ E \subseteq 0..k
  BY <1>0 DEF Earlier
<1>2. IsFiniteSet(E)
  <2>1. IsFiniteSet(0..k) /\ E \subseteq 0..k
    BY <1>1, FS_Interval
  <2> HIDE DEF E
  <2> QED BY <2>1, FS_Subset
<1>3. \A q \in S : q < p => q \in E
  BY DEF Earlier
<1>4. \A q \in E : q < p /\ q \in Nat
  BY <1>0 DEF Earlier
<1> HIDE DEF E
<1>5. E # {} => Max(E) \in E /\ \A y \in E : Max(E) >= y
  BY <1>1, <1>2, MaxOfFinite
<1>6. E # {} => Max(E) \in S /\ Max(E) < p /\ Max(E) \in Nat /\ \A q \in S : q < p => q <= Max(E)
  BY <1>1, <1>3, <1>4, <1>5
<1>7. Since(S, p) \in Nat
  <2>1. Since(S, p) = IF E = {} THEN 0 ELSE p - Max(E)
    BY DEF Since, E
  <2> QED BY <1>1, <1>6, <2>1
<1> QED BY <1>6, <1>7 DEF E

LEMMA SinceLast ==
    ASSUME NEW S, NEW T, NEW p, Earlier(S, p) = T
    PROVE  Since(S, p) = IF T = {} THEN 0 ELSE p - Max(T)
<1>1. Since(S, p) = IF Earlier(S, p) = {} THEN 0 ELSE p - Max(Earlier(S, p))
  BY DEF Since
<1> QED BY <1>1

(* The hours between one price and the next add up to those between the     *)
(* first and the last.                                                      *)
LEMMA SinceAddsUp ==
    ASSUME NEW k \in Nat, NEW S \in SUBSET (0..k), S # {}
    PROVE  SumFunction([p \in S |-> Since(S, p)]) = Max(S) - Min(S)
<1> DEFINE total(R) == SumFunction([p \in R |-> Since(R, p)])
           H == {n \in Nat : \A R \in SUBSET (0..n) : R # {} => total(R) = Max(R) - Min(R)}
<1>1. \A n \in Nat : \A R \in SUBSET (0..n) :
        /\ IsFiniteSet(R) /\ [p \in R |-> Since(R, p)] \in [R -> Int]
        /\ R # {} => /\ Max(R) \in R /\ \A y \in R : Max(R) >= y
                     /\ Min(R) \in R /\ \A y \in R : Min(R) <= y
  <2> SUFFICES ASSUME NEW n \in Nat, NEW R \in SUBSET (0..n)
               PROVE  /\ IsFiniteSet(R) /\ [p \in R |-> Since(R, p)] \in [R -> Int]
                      /\ R # {} => /\ Max(R) \in R /\ \A y \in R : Max(R) >= y
                                   /\ Min(R) \in R /\ \A y \in R : Min(R) <= y
    OBVIOUS
  <2>0. \A q \in R : q \in 0..n /\ q \in Nat /\ q \in Int
    OBVIOUS
  <2>1. IsFiniteSet(R)
    <3>1. IsFiniteSet(0..n)
      BY FS_Interval
    <3>2. R \subseteq 0..n
      BY <2>0
    <3> QED BY <3>1, <3>2, FS_Subset
  <2>2. \A p \in R : Since(R, p) \in Int
    <3> SUFFICES ASSUME NEW p \in R PROVE Since(R, p) \in Int
      OBVIOUS
    <3>1. Since(R, p) \in Nat
      BY SinceShape
    <3> QED BY <3>1
  <2>3. R \in SUBSET Nat /\ R \in SUBSET Int
    BY <2>0
  <2> QED BY <2>1, <2>2, <2>3, MaxOfFinite, LeastOf
<1>2. ASSUME NEW R, NEW a \in Nat, R = {a} PROVE total(R) = Max(R) - Min(R)
  <2>1. R \in SUBSET (0..a) /\ R # {} /\ a \in R
    BY <1>2
  <2>2. Max(R) = a /\ Min(R) = a
    BY <1>1, <1>2, <2>1
  <2>3. Since(R, a) = 0
    BY <1>2 DEF Since, Earlier
  <2> DEFINE f == [p \in R |-> Since(R, p)]
  <2>4. IsFiniteSet(R) /\ f \in [R -> Int] /\ f[a] = 0
    BY <1>1, <2>1, <2>3
  <2>5. [y \in R \ {a} |-> f[y]] \in [{} -> Int]
    BY <1>2
  <2> HIDE DEF f
  <2>6. SumFunction(f) = f[a] + SumFunction([y \in R \ {a} |-> f[y]])
    BY <2>1, <2>4, SumRemove, ZenonT(60)
  <2>7. SumFunction([y \in R \ {a} |-> f[y]]) = 0
    BY <2>5, SumEmpty
  <2>8. SumFunction(f) = 0
    BY <2>4, <2>6, <2>7
  <2> QED BY <2>2, <2>8 DEF f
<1>3. 0 \in H
  <2>1. \A R \in SUBSET (0..0) : R # {} => R = {0}
    <3>1. 0..0 = {0}
      OBVIOUS
    <3> QED BY <3>1
  <2> HIDE DEF total
  <2> QED BY <1>2, <2>1
<1>4. ASSUME NEW n \in Nat, n \in H PROVE n + 1 \in H
  <2> SUFFICES ASSUME NEW R \in SUBSET (0..(n + 1)), R # {} PROVE total(R) = Max(R) - Min(R)
    OBVIOUS
  <2> DEFINE T == R \ {n + 1}
  <2>1. T \in SUBSET (0..n)
    OBVIOUS
  <2>2. CASE n + 1 \notin R
    <3>1. R \in SUBSET (0..n)
      BY <2>2
    <3> HIDE DEF total
    <3> QED BY <1>4, <3>1
  <2>3. CASE n + 1 \in R /\ T = {}
    <3>1. R = {n + 1}
      BY <2>3
    <3>2. n + 1 \in Nat
      OBVIOUS
    <3> HIDE DEF total
    <3> QED BY <1>2, <3>1, <3>2
  <2>4. CASE n + 1 \in R /\ T # {}
    <3>1. total(T) = Max(T) - Min(T)
      <4> HIDE DEF total, T
      <4> QED BY <1>4, <2>1, <2>4
    <3> DEFINE f == [p \in R |-> Since(R, p)]
    <3>0. \A q \in R : q \in Nat /\ q <= n + 1 /\ (q # n + 1 => q < n + 1)
      OBVIOUS
    <3>2. n + 1 \in Nat /\ IsFiniteSet(R) /\ f \in [R -> Int]
      <4>1. n + 1 \in Nat
        OBVIOUS
      <4> HIDE DEF T
      <4> QED BY <1>1, <4>1
    <3>3. SumFunction(f) = f[n + 1] + SumFunction([y \in R \ {n + 1} |-> f[y]])
      <4> HIDE DEF f
      <4> QED BY <2>4, <3>2, SumRemove, ZenonT(60)
    <3>4. \A p \in T : Earlier(R, p) = Earlier(T, p)
      BY DEF Earlier
    <3>5. [y \in R \ {n + 1} |-> f[y]] = [p \in T |-> Since(T, p)]
      BY <3>4 DEF Since
    <3>6. Earlier(R, n + 1) = T
      <4>1. \A q \in R : q < n + 1 <=> q # n + 1
        BY <3>0
      <4> QED BY <4>1 DEF Earlier
    <3>7. f[n + 1] = (n + 1) - Max(T)
      <4>1. f[n + 1] = Since(R, n + 1)
        BY <2>4
      <4> HIDE DEF f, T
      <4>2. Since(R, n + 1) = IF T = {} THEN 0 ELSE (n + 1) - Max(T)
        BY <3>6, SinceLast
      <4> QED BY <2>4, <4>1, <4>2
    <3>8. /\ Max(T) \in T /\ Min(T) \in T /\ \A y \in T : Min(T) <= y
      <4> HIDE DEF T
      <4> QED BY <1>1, <2>1, <2>4
    <3>9. /\ Max(R) \in R /\ Min(R) \in R /\ (\A y \in R : Max(R) >= y) /\ \A y \in R : Min(R) <= y
      BY <1>1, <3>2
    <3>01. \A q \in T : q \in Nat /\ q <= n
      BY <3>0
    <3> HIDE DEF f, T
    <3>10. Max(T) \in Nat /\ Min(T) \in Nat /\ Min(T) <= n /\ Max(R) \in Nat /\ Max(R) <= n + 1 /\ Min(R) \in Nat
      BY <3>0, <3>01, <3>8, <3>9
    <3>11. Max(R) = n + 1
      BY <2>4, <3>9, <3>10
    <3>12. Min(R) = Min(T)
      <4>1. Min(T) \in R /\ Min(R) <= Min(T)
        BY <3>8, <3>9 DEF T
      <4>2. Min(R) # n + 1
        BY <3>10, <4>1
      <4>3. Min(R) \in T
        BY <3>9, <4>2 DEF T
      <4>4. Min(T) <= Min(R)
        BY <3>8, <4>3
      <4> QED BY <3>10, <4>1, <4>4
    <3> HIDE DEF T, f
    <3>13. SumFunction(f) = ((n + 1) - Max(T)) + (Max(T) - Min(T))
      BY <3>1, <3>3, <3>5, <3>7
    <3> QED BY <3>10, <3>11, <3>12, <3>13 DEF f
  <2> QED BY <2>2, <2>3, <2>4
<1>5. k \in H
  <2> HIDE DEF H
  <2> QED BY <1>3, <1>4, NatInductionOnSets
<1> QED BY <1>5

LEMMA GapsJudged ==
    ASSUME NEW prices \in SUBSET Hours, NEW gaps, gaps = CoverageGaps(prices),
           NEW pct, pct = CoveragePct(prices, 0, LastHour)
    PROVE  /\ gaps * 100 <= LastHour * (pct + 1)
           /\ gaps = 0 => \A a, b \in prices :
                  a < b /\ (\A c \in prices : c <= a \/ c >= b) => b - a <= GapHours
<1> DEFINE missed == {p \in prices : Earlier(prices, p) # {} /\ p - Max(Earlier(prices, p)) > GapHours}
           g == [p \in missed |-> p - Max(Earlier(prices, p))]
           f == [p \in prices |-> Since(prices, p)]
<1>1. LastHour \in Nat \ {0} /\ GapHours \in Nat /\ prices \in SUBSET (0..LastHour)
  BY ReportsConstants DEF Hours
<1>0. \A q \in prices : q \in 0..LastHour /\ q \in Nat /\ q \in Int
  BY <1>1
<1>2. gaps = SumFunction(g)
  BY DEF CoverageGaps, Earlier
<1>3. \A p \in prices : /\ Since(prices, p) \in Nat /\ p \in Nat
                        /\ Earlier(prices, p) # {} =>
                             /\ Max(Earlier(prices, p)) \in prices /\ Max(Earlier(prices, p)) < p
                             /\ \A q \in prices : q < p => q <= Max(Earlier(prices, p))
  <2> SUFFICES ASSUME NEW p \in prices
               PROVE  /\ Since(prices, p) \in Nat /\ p \in Nat
                      /\ Earlier(prices, p) # {} =>
                           /\ Max(Earlier(prices, p)) \in prices /\ Max(Earlier(prices, p)) < p
                           /\ \A q \in prices : q < p => q <= Max(Earlier(prices, p))
    OBVIOUS
  <2> HIDE DEF f, g, missed
  <2>1. LastHour \in Nat /\ p \in Nat
    BY <1>0, <1>1
  <2> QED BY <1>1, <2>1, SinceShape
<1>4. \A p \in missed : p \in prices /\ p - Max(Earlier(prices, p)) = Since(prices, p)
  BY DEF Since
<1>5. IsFiniteSet(prices)
  <2>1. IsFiniteSet(0..LastHour)
    BY <1>1, FS_Interval
  <2> QED BY <1>1, <2>1, FS_Subset
<1>6. f \in [prices -> Int] /\ g \in [missed -> Nat] /\ missed \in SUBSET prices /\ IsFiniteSet(missed)
      /\ (\A x \in missed : g[x] <= f[x]) /\ (\A x \in prices \ missed : 0 <= f[x])
  <2>1. missed \in SUBSET prices
    OBVIOUS
  <2>2. IsFiniteSet(missed)
    <3> HIDE DEF missed
    <3> QED BY <1>5, <2>1, FS_Subset
  <2>3. \A p \in missed : g[p] = Since(prices, p)
    BY <1>4
  <2>4. g \in [missed -> Nat]
    BY <1>3, <1>4
  <2>5. f \in [prices -> Int] /\ \A p \in prices : f[p] = Since(prices, p)
    BY <1>3
  <2> HIDE DEF f, g, missed
  <2> QED BY <1>3, <2>1, <2>2, <2>3, <2>4, <2>5
<1>7. gaps \in Nat
  <2> HIDE DEF g, missed
  <2> QED BY <1>2, <1>6, SumNatural
<1>8. gaps * 100 <= LastHour * (pct + 1)
  <2>1. CASE prices = {}
    <3>1. missed = {} /\ pct = 0
      BY <2>1 DEF CoveragePct
    <3>2. gaps = 0
      <4>1. g \in [{} -> Int]
        BY <3>1
      <4> HIDE DEF g, missed
      <4> QED BY <1>2, <4>1, SumEmpty
    <3> QED BY <1>1, <3>1, <3>2
  <2>2. CASE prices # {}
    <3> DEFINE span == Max(prices) - Min(prices)
    <3>1. span \in Nat
      <4>1. prices \in SUBSET Int /\ prices \in SUBSET Nat
        BY <1>0
      <4>2. Max(prices) \in prices /\ Min(prices) \in prices /\ \A y \in prices : Min(prices) <= y
        BY <1>5, <2>2, <4>1, MaxOfFinite, LeastOf
      <4>3. Max(prices) \in Nat /\ Min(prices) \in Nat /\ Min(prices) <= Max(prices)
        BY <1>0, <4>2
      <4> QED BY <4>3
    <3>2. SumFunction(f) = span
      BY <1>1, <2>2, SinceAddsUp
    <3>3. gaps <= span
      <4>1. g \in [missed -> Int]
        BY <1>6
      <4> HIDE DEF f, g, missed
      <4>2. SumFunction(g) <= SumFunction(f)
        BY <1>5, <1>6, <4>1, SumMonotone
      <4> QED BY <1>2, <3>2, <4>2
    <3>4. pct = (span * 100) \div (LastHour - 0)
      BY <2>2 DEF CoveragePct
    <3> HIDE DEF span
    <3>5. pct \in Nat /\ span * 100 < LastHour * pct + LastHour
      <4>1. LastHour - 0 = LastHour /\ span * 100 \in Nat
        BY <1>1, <3>1
      <4>2. pct = (span * 100) \div LastHour
        BY <3>4, <4>1
      <4> DEFINE hundred == span * 100
      <4>3. hundred \in Nat /\ pct = hundred \div LastHour
        BY <4>1, <4>2
      <4> HIDE DEF hundred
      <4>4. pct \in Nat /\ hundred < pct * LastHour + LastHour
        BY <1>1, <4>3
      <4>5. pct * LastHour = LastHour * pct
        BY <1>1, <4>4
      <4> QED BY <4>4, <4>5 DEF hundred
    <3>6. LastHour * (pct + 1) = LastHour * pct + LastHour /\ LastHour * pct \in Nat
      BY <1>1, <3>5
    <3> QED BY <1>1, <1>7, <3>1, <3>3, <3>5, <3>6
  <2> QED BY <2>1, <2>2
<1>9. ASSUME gaps = 0, NEW a \in prices, NEW b \in prices, a < b,
             \A c \in prices : c <= a \/ c >= b
      PROVE  b - a <= GapHours
  <2>1. a \in Nat /\ b \in Nat /\ a \in Earlier(prices, b) /\ Earlier(prices, b) # {}
    BY <1>1, <1>9 DEF Earlier
  <2>2. Max(Earlier(prices, b)) = a
    <3> DEFINE top == Max(Earlier(prices, b))
    <3>1. top \in prices /\ top < b /\ a <= top
      BY <1>3, <1>9, <2>1
    <3>2. top \in Nat
      BY <1>0, <3>1
    <3>3. top <= a
      BY <1>9, <3>1, <3>2, <2>1
    <3> QED BY <2>1, <3>1, <3>2, <3>3
  <2> SUFFICES ASSUME b - a > GapHours PROVE FALSE
    BY <1>1, <2>1
  <2>3. b \in missed /\ g[b] = b - a
    BY <2>1, <2>2
  <2>4. g \in [missed -> Int]
    BY <1>6
  <2> HIDE DEF g, missed
  <2>5. SumFunction(g) = g[b] + SumFunction([y \in missed \ {b} |-> g[y]])
    BY <1>6, <2>3, <2>4, SumRemove
  <2>6. SumFunction([y \in missed \ {b} |-> g[y]]) \in Nat
    <3>1. IsFiniteSet(missed \ {b})
      BY <1>6, FS_Subset
    <3>2. [y \in missed \ {b} |-> g[y]] \in [missed \ {b} -> Nat]
      BY <1>6
    <3> QED BY <3>1, <3>2, SumNatural
  <2>7. g[b] > 0 /\ g[b] \in Nat
    BY <1>1, <2>1, <2>3
  <2>8. gaps > 0
    BY <1>2, <2>5, <2>6, <2>7
  <2> QED BY <1>9, <2>8
<1> QED BY <1>8, <1>9

-----------------------------------------------------------------------------
(* Every computation is judged by its own part; the others do not speak of  *)
(* it.                                                                      *)

LEMMA RangesCut == ASSUME CutRange PROVE ChunksPartition' /\ answer'.of = "chunks"
<1>1. PICK start \in Hours, end \in Hours, days \in 1..2 :
        /\ start < end
        /\ answer' = [of |-> "chunks", in |-> <<start, end, days>>, out |-> ChunkRanges(start, end, days)]
  BY DEF CutRange, Answers
<1> DEFINE ranges == ChunkRanges(start, end, days)
<1>2. /\ \A d \in start..end : Cardinality({i \in DOMAIN ranges : d \in Loads(ranges, i)}) = 1
      /\ \A i \in DOMAIN ranges : ranges[i][1] < ranges[i][2] /\ Loads(ranges, i) \subseteq start..end
  <2> HIDE DEF ranges
  <2>1. ranges = ChunkRanges(start, end, days)
    BY DEF ranges
  <2> QED BY <1>1, <2>1, ChunksRight
<1> HIDE DEF ranges
<1>3. answer'.of = "chunks" /\ answer'.in[1] = start /\ answer'.in[2] = end /\ answer'.out = ranges
  BY <1>1 DEF ranges
<1> QED BY <1>2, <1>3 DEF ChunksPartition

LEMMA RangeSplit == ASSUME SplitRange PROVE SplitInside' /\ answer'.of = "split"
<1>1. PICK start \in Hours, end \in Hours, pct \in {10, 70, 90} :
        /\ start < end
        /\ answer' = [of |-> "split", in |-> <<start, end>>, out |-> TrainEndDate(start, end, pct)]
  BY DEF SplitRange, Answers
<1> DEFINE split == TrainEndDate(start, end, pct)
<1>2. /\ split # None => start < split[1] /\ split[1] < end /\ split[1] % Day = 0
      /\ split = None => \A m \in Hours : m % Day = 0 /\ start < m => m >= end
  <2> HIDE DEF split
  <2>1. split = TrainEndDate(start, end, pct)
    BY DEF split
  <2> QED BY <1>1, <2>1, SplitRight
<1> HIDE DEF split
<1>3. answer'.of = "split" /\ answer'.in[1] = start /\ answer'.in[2] = end /\ answer'.out = split
  BY <1>1 DEF split
<1> QED BY <1>2, <1>3 DEF SplitInside

LEMMA DepthFound == ASSUME FindDepth PROVE DepthIsLatest' /\ answer'.of = "depth"
<1>1. PICK entries \in Descending, hour \in Hours :
        answer' = [of |-> "depth", in |-> <<entries, hour>>, out |-> NearestDepth(entries, hour)]
  BY DEF FindDepth, Answers
<1>2. PICK n \in 0..MaxList : entries \in [1..n -> Hours]
  BY DEF Descending
<1>3. n \in Nat /\ hour \in Nat /\ DOMAIN entries = 1..n /\ entries \in [1..n -> Nat]
  BY <1>2, ReportsConstants DEF Hours
<1>4. Len(entries) = n
  BY <1>3
<1>5. \A i, j \in 1..n : i < j => entries[i] > entries[j]
  BY <1>3 DEF Descending
<1> DEFINE found == NearestDepth(entries, hour)
           before == {i \in DOMAIN entries : entries[i] <= hour}
<1>6. found = IF before = {} THEN 0 ELSE Min(before)
  BY <1>3, <1>4, <1>5, DepthRight
<1> HIDE DEF found
<1>7. answer'.of = "depth" /\ answer'.in[1] = entries /\ answer'.in[2] = hour /\ answer'.out = found
  BY <1>1 DEF found
<1> QED BY <1>6, <1>7 DEF DepthIsLatest

LEMMA WindowChecked == ASSUME CheckWindow PROVE WindowsComplementary' /\ answer'.of = "window"
<1>1. PICK hour \in 0..(Day - 1), from \in 0..(Day - 1), to \in 0..(Day - 1) :
        /\ from # to
        /\ answer' = [of |-> "window", in |-> <<hour, from, to>>, out |-> InTradingWindow(hour, from, to)]
  BY DEF CheckWindow, Answers
<1>2. InTradingWindow(hour, from, to) <=> ~ InTradingWindow(hour, to, from)
  BY <1>1, WindowsShare
<1>3. InTradingWindow(hour, from, to) # InTradingWindow(hour, to, from)
  BY <1>2, Zenon
<1>4. /\ answer'.of = "window" /\ answer'.in[1] = hour /\ answer'.in[2] = from /\ answer'.in[3] = to
  BY <1>1
<1>5. answer'.out = InTradingWindow(hour, from, to)
  BY <1>1, Zenon
<1> QED BY <1>3, <1>4, <1>5, Zenon DEF WindowsComplementary

LEMMA SweepRead == ASSUME ReadSweep PROVE SweepReadRight' /\ answer'.of = "sweep"
<1>1. PICK f \in FactorLists :
        answer' = [of |-> "sweep", in |-> f, out |-> [even |-> BreakEven(f), best |-> Recommended(f)]]
  BY DEF ReadSweep, Answers
<1>2. PICK n \in 0..MaxList : f \in [1..n -> Factors]
  BY DEF FactorLists
<1>3. n \in Nat /\ DOMAIN f = 1..n
  BY <1>2, ReportsConstants
<1>4. Len(f) = n
  BY <1>3
<1> DEFINE even == BreakEven(f)
           best == Recommended(f)
<1> HIDE DEF even, best
<1>5. even # None =>
        /\ even[1] \in 2..n /\ f[even[1]] # None /\ f[even[1] - 1] # None
        /\ (even[2] = "above") <=> (f[even[1] - 1][1] > f[even[1]][1])
        /\ \A i \in 2..(even[1] - 1) : f[i] # None /\ f[i - 1] # None =>
               ((f[i][1] >= 10) <=> (f[i - 1][1] >= 10))
  <2>1. even = BreakEven(f)
    BY DEF even
  <2> QED BY <1>2, <1>3, <1>4, <2>1, CrossingRight
<1>6. /\ best = None <=> \A i \in 1..n : f[i] = None
      /\ best # None => /\ best[1] \in 1..n
                        /\ \A i \in 1..n : f[i] # None =>
                             f[i][1] < f[best[1]][1] \/ (f[i] = f[best[1]] /\ best[1] <= i)
  <2>1. best = Recommended(f)
    BY DEF best
  <2> QED BY <1>2, <1>3, <2>1, RecommendedRight
<1>7. answer'.of = "sweep" /\ answer'.in = f /\ answer'.out.even = even /\ answer'.out.best = best
  BY <1>1 DEF even, best
<1> QED BY <1>3, <1>5, <1>6, <1>7 DEF SweepReadRight

LEMMA WalksCompared == ASSUME CompareWalks PROVE OverfitRight' /\ answer'.of = "overfit"
<1>1. PICK training \in Walks, testing \in Walks :
        answer' = [of |-> "overfit", in |-> <<training, testing>>, out |-> Overfit(training, testing)]
  BY DEF CompareWalks, Answers, Walks
<1>2. answer'.of = "overfit" /\ answer'.in[1] = training /\ answer'.in[2] = testing
  BY <1>1
<1>3. answer'.out = Overfit(training, testing)
  BY <1>1, Zenon
<1>4. training # None /\ testing # None =>
        /\ testing[1] >= training[1] => ~ Overfit(training, testing)
        /\ training[1] > 0 /\ testing[1] < 0 => Overfit(training, testing)
  BY OverfitJudged
<1> QED BY <1>2, <1>3, <1>4, Zenon DEF OverfitRight

LEMMA IntervalFound == ASSUME FindInterval PROVE IntervalRight' /\ answer'.of = "interval"
<1>1. PICK n \in 0..200 : answer' = [of |-> "interval", in |-> n, out |-> Interval(n, 200)]
  BY DEF FindInterval, Answers
<1> DEFINE out == Interval(n, 200)
<1>2. out # None => 1 <= out[1] /\ out[1] <= out[2] /\ out[2] <= n
  <2> HIDE DEF out
  <2>1. out = Interval(n, 200)
    BY DEF out
  <2> QED BY <2>1, IntervalInside, ZenonT(60)
<1> HIDE DEF out
<1>3. answer'.of = "interval" /\ answer'.in = n /\ answer'.out = out
  BY <1>1 DEF out
<1> QED BY <1>2, <1>3 DEF IntervalRight

LEMMA GapsFound == ASSUME FindGaps PROVE GapsRight' /\ answer'.of = "gaps"
<1>1. PICK prices \in SUBSET Hours :
        answer' = [of |-> "gaps", in |-> prices,
                   out |-> <<CoverageGaps(prices), CoveragePct(prices, 0, LastHour)>>]
  BY DEF FindGaps, Answers
<1> DEFINE gaps == CoverageGaps(prices)
           pct == CoveragePct(prices, 0, LastHour)
<1>2. /\ gaps * 100 <= LastHour * (pct + 1)
      /\ gaps = 0 => \A a, b \in prices :
             a < b /\ (\A c \in prices : c <= a \/ c >= b) => b - a <= GapHours
  <2> HIDE DEF gaps, pct
  <2>1. gaps = CoverageGaps(prices) /\ pct = CoveragePct(prices, 0, LastHour)
    BY DEF gaps, pct
  <2> QED BY <2>1, GapsJudged
<1> HIDE DEF gaps, pct
<1>3. answer'.of = "gaps" /\ answer'.in = prices /\ answer'.out[1] = gaps /\ answer'.out[2] = pct
  BY <1>1 DEF gaps, pct
<1> QED BY <1>2, <1>3 DEF GapsRight

(* Chunks, splits, the search for a depth, windows, sweeps, walks,          *)
(* intervals and gaps are right for every range, list and set of prices     *)
(* (generateChunkRanges, findNearestDepthFromCache, detectCoverageGaps ...).*)
THEOREM ReportsAlwaysSound == ReportsSpec => []ReportsSound
<1>1. ReportsInit => ReportsSound
  BY DEF ReportsInit, NoAnswer, ReportsSound, ChunksPartition, SplitInside, DepthIsLatest,
         WindowsComplementary, SweepReadRight, OverfitRight, IntervalRight, GapsRight
<1>2. ReportsSound /\ [ReportsNext]_answer => ReportsSound'
  <2> SUFFICES ASSUME ReportsSound, [ReportsNext]_answer PROVE ReportsSound'
    OBVIOUS
  <2>1. /\ answer'.of # "chunks" => ChunksPartition'
        /\ answer'.of # "split" => SplitInside'
        /\ answer'.of # "depth" => DepthIsLatest'
        /\ answer'.of # "window" => WindowsComplementary'
        /\ answer'.of # "sweep" => SweepReadRight'
        /\ answer'.of # "overfit" => OverfitRight'
        /\ answer'.of # "interval" => IntervalRight'
        /\ answer'.of # "gaps" => GapsRight'
    BY DEF ChunksPartition, SplitInside, DepthIsLatest,
           WindowsComplementary, SweepReadRight, OverfitRight, IntervalRight, GapsRight
  <2>2. CASE CutRange
    BY <2>1, <2>2, RangesCut DEF ReportsSound
  <2>3. CASE SplitRange
    BY <2>1, <2>3, RangeSplit DEF ReportsSound
  <2>4. CASE FindDepth
    BY <2>1, <2>4, DepthFound DEF ReportsSound
  <2>5. CASE CheckWindow
    BY <2>1, <2>5, WindowChecked DEF ReportsSound
  <2>6. CASE ReadSweep
    BY <2>1, <2>6, SweepRead DEF ReportsSound
  <2>7. CASE CompareWalks
    BY <2>1, <2>7, WalksCompared DEF ReportsSound
  <2>8. CASE FindInterval
    BY <2>1, <2>8, IntervalFound DEF ReportsSound
  <2>9. CASE FindGaps
    BY <2>1, <2>9, GapsFound DEF ReportsSound
  <2>10. CASE UNCHANGED answer
    <3>1. answer' = answer
      BY <2>10
    <3>2. ChunksPartition'
      BY <3>1 DEF ReportsSound, ChunksPartition
    <3>3. SplitInside'
      BY <3>1 DEF ReportsSound, SplitInside
    <3>4. DepthIsLatest'
      BY <3>1 DEF ReportsSound, DepthIsLatest
    <3>5. WindowsComplementary'
      BY <3>1, Zenon DEF ReportsSound, WindowsComplementary
    <3>6. SweepReadRight'
      BY <3>1 DEF ReportsSound, SweepReadRight
    <3>7. OverfitRight'
      BY <3>1, Zenon DEF ReportsSound, OverfitRight
    <3>8. IntervalRight'
      BY <3>1 DEF ReportsSound, IntervalRight
    <3>9. GapsRight'
      BY <3>1 DEF ReportsSound, GapsRight
    <3> QED BY <3>2, <3>3, <3>4, <3>5, <3>6, <3>7, <3>8, <3>9 DEF ReportsSound
  <2> QED BY <2>2, <2>3, <2>4, <2>5, <2>6, <2>7, <2>8, <2>9, <2>10 DEF ReportsNext
<1> QED BY <1>1, <1>2, PTL DEF ReportsSpec
=============================================================================

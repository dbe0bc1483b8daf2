-------------------- MODULE StartupReconciliation_proofs --------------------
(* Proofs about the reconciliation, for any number of positions, calls,    *)
(* failed writes and crashes: the slots are counted as the rows say, filled *)
(* legs are linked, and what was flagged keeps trading halted.             *)
EXTENDS StartupReconciliation, FiniteSetTheorems, TLAPS

USE DEF Leg

-----------------------------------------------------------------------------
(* The shape of the calls.                                                 *)

Place == {"start", "idle", "orders", "store", "link", "positions",
          "flag", "recount", "set", "write", "release", "remaining"}
Verdict == {"none", "OPEN", "CLOSED"}
Found == {<<p, l, s>> : p \in Position, l \in Leg, s \in {"FILLED", "CANCELLED"}}
Act == {<<"acknowledge">>, <<"force_close">>}
Known == UNION {[P -> UNION {[L -> OrderStatus] : L \in SUBSET Leg}] : P \in SUBSET Position}
TaskState == [at: Place, todo: SUBSET (Position \cup (Position \X Leg)), seen: Found \cup Act \cup Known \cup {<<>>},
              up: SUBSET Leg, late: BOOLEAN, advice: [Position -> Verdict], loose: BOOLEAN,
              count: 0..Cardinality(Position)]

(* What a call has in hand where it stands.                                *)
InHand(s) ==
    /\ s.at \in {"store", "link"} => s.seen \in Found
    /\ s.at = "flag" => s.todo \subseteq {p \in Position : s.advice[p] # "none"}
    /\ s.at = "write" => \E p \in Position : s.todo = {p} /\ recommended[p] # "none"
OfKind(t, s) ==
    /\ t \in Resolve => s.at \in {"idle", "write", "release", "remaining", "recount", "set"}
    /\ t \notin Resolve => s.at \notin {"write", "release", "remaining"}
    /\ s.at = "start" => t = "boot"

RowTypes ==
    /\ status \in [Position -> Status] /\ linked \in [Position -> SUBSET Leg]
    /\ order \in [Position -> [Leg -> OrderStatus]] /\ recommended \in [Position -> Verdict]
    /\ halted \in BOOLEAN /\ openCount \in 0..Cardinality(Position) /\ torn \subseteq Position
    /\ overlap \in BOOLEAN /\ stale \in BOOLEAN
    /\ runs \in Nat /\ crashes \in Nat
    /\ \A p \in Flagged : recommended[p] # "none"
TypeInv ==
    /\ RowTypes /\ task \in [Task -> TaskState]
    /\ \A t \in Task : InHand(task[t]) /\ OfKind(t, task[t])

-----------------------------------------------------------------------------
(* The inductive invariants.                                               *)

(* Without an overlap one call is at work at a time; then the rows it has  *)
(* counted are the rows there are until it sets the count.                 *)
Alone == \A t, u \in Task : Busy(t) /\ Busy(u) => t = u
CountInv ==
    /\ ~overlap => Alone /\ \A t \in Task : At(t, "set") => task[t].count = Cardinality(CountedRows)
    /\ CountMatchesRows

(* A filled leg that is not linked is in the hands of a call.              *)
Linking(t, p, l) == At(t, "link") /\ task[t].seen[1] = p /\ task[t].seen[2] = l
LinkInv ==
    \A p \in Position \ torn, l \in Leg :
        ExposedRow(p) /\ order[p][l] = "FILLED" /\ l \notin linked[p] => \E t \in Task : Linking(t, p, l)

(* Up to its end nothing but the first run is at work; from then on what   *)
(* is flagged and not resolved keeps trading halted.                       *)
BeforeFlags == {"orders", "store", "link", "positions"}
FirstBoot ==
    /\ task["boot"].at \in BeforeFlags => Flagged = {}
    /\ task["boot"].at \in {"idle", "recount", "set"} /\ Flagged # {} => halted
    /\ task["boot"].at \in {"recount", "set"} /\ Flagged # {} => FoundAny("boot")
FirstRun ==
    /\ \A m \in Manual : At(m, "idle")
    /\ ~At("boot", "start")
    /\ Busy("boot") => \A t \in Task \ {"boot"} : At(t, "idle")
    /\ FirstBoot
HaltInv ==
    crashes = 0 =>
        /\ runs = 0 => At("boot", "start") /\ Flagged = {} /\ \A t \in Task \ {"boot"} : At(t, "idle")
        /\ runs = 1 => FirstRun

RecInv == TypeInv /\ CountInv /\ LinkInv /\ HaltInv

-----------------------------------------------------------------------------
(* The types.                                                              *)

LEMMA Counts ==
    ASSUME RowTypes
    PROVE  /\ CountedRows \in SUBSET Position /\ Cardinality(CountedRows) \in 0..Cardinality(Position)
           /\ Cardinality(Position) \in Nat
<1>1. IsFiniteSet(Position) /\ CountedRows \in SUBSET Position
  BY ReconciliationConstants DEF CountedRows
<1>2. Cardinality(Position) \in Nat /\ Cardinality(CountedRows) \in Nat
      /\ Cardinality(CountedRows) <= Cardinality(Position)
  BY <1>1, FS_Subset, FS_CardinalityType
<1> QED BY <1>1, <1>2

LEMMA IdleTyped ==
    /\ Idle \in TaskState /\ Idle.at = "idle" /\ Idle.todo = {} /\ Idle.seen = <<>> /\ Idle.count = 0
    /\ Idle.loose = FALSE /\ Idle.late = FALSE
    /\ [p \in Position |-> "none"] \in [Position -> Verdict]
<1>1. Cardinality(Position) \in Nat
  BY ReconciliationConstants, FS_CardinalityType
<1> QED BY <1>1 DEF Idle, TaskState, Place, Verdict

(* A call that alone takes a step is left in state r, and no row loses its *)
(* advice.                                                                 *)
Becomes(t, r) ==
    /\ task' = [task EXCEPT ![t] = r] /\ r \in TaskState
    /\ InHand(r) /\ OfKind(t, r)
    /\ \A p \in Position : recommended[p] # "none" => recommended'[p] # "none"

LEMMA TypedStep ==
    ASSUME TypeInv, NEW t \in Task, NEW r, Becomes(t, r), RowTypes'
    PROVE  TypeInv' /\ task'[t] = r /\ \A u \in Task \ {t} : task'[u] = task[u]
<1>1. task'[t] = r /\ \A u \in Task \ {t} : task'[u] = task[u]
  BY DEF Becomes, TypeInv
<1>2. task' \in [Task -> TaskState]
  BY DEF Becomes, TypeInv
<1>3. ASSUME NEW u \in Task PROVE InHand(task[u])' /\ OfKind(u, task'[u])
  <2>1. CASE u = t
    BY <1>1, <2>1 DEF Becomes, InHand
  <2>2. CASE u # t
    BY <1>1, <2>2 DEF Becomes, InHand, TypeInv
  <2> QED BY <2>1, <2>2
<1> QED BY <1>1, <1>2, <1>3 DEF TypeInv, OfKind

-----------------------------------------------------------------------------
(* What a step leaves a call with, and that it leaves the rest alone.      *)

Rest(t) == \A u \in Task \ {t} : task'[u] = task[u]

LEMMA StartStep ==
    ASSUME TypeInv, NEW t \in Task, Start(t)
    PROVE  TypeInv' /\ Rest(t) /\ task'[t].at = "orders"
<1> USE DEF rows, risk, history, Begins
<1>1. PICK up \in SUBSET Leg :
        task' = [task EXCEPT ![t] = [Idle EXCEPT !.at = "orders", !.up = up, !.todo = PendingOrders]]
  BY DEF Start
<1> DEFINE r == [Idle EXCEPT !.at = "orders", !.up = up, !.todo = PendingOrders]
<1>2. PendingOrders \in SUBSET (Position \cup (Position \X Leg))
  BY DEF PendingOrders
<1>3. r \in TaskState /\ r.at = "orders"
  BY <1>2, IdleTyped DEF TaskState, Place
<1>4. t \notin Resolve
  BY ReconciliationConstants DEF Start
<1> HIDE DEF r
<1>5. Becomes(t, r)
  BY <1>1, <1>3, <1>4 DEF r, Becomes, InHand, OfKind, Start
<1>6. RowTypes'
  BY DEF TypeInv, RowTypes, Start, Flagged
<1> QED BY <1>3, <1>5, <1>6, TypedStep DEF Rest

LEMMA AskOrderStep ==
    ASSUME TypeInv, NEW t \in Task, NEW p \in Position, NEW l \in Leg, AskOrder(t, p, l)
    PROVE  TypeInv' /\ Rest(t) /\ task[t].at = "orders" /\ task'[t].at \in {"orders", "store"}
<1> USE DEF rows, risk, bounds, history
<1>1. task[t] \in TaskState /\ task[t].at = "orders" /\ OfKind(t, task[t])
  BY DEF AskOrder, At, TypeInv
<1>2. PICK answer : task' = [task EXCEPT ![t] =
            CASE answer \in {"FILLED", "CANCELLED"} ->
                    [task[t] EXCEPT !.at = "store", !.seen = <<p, l, answer>>]
              [] answer = "not_found" -> [Missing(t, p) EXCEPT !.todo = @ \ {<<p, l>>}]
              [] OTHER                -> [task[t] EXCEPT !.todo = @ \ {<<p, l>>}]]
  BY DEF AskOrder
<1>3. RowTypes'
  BY DEF TypeInv, RowTypes, AskOrder, Flagged
<1>4. UNCHANGED recommended
  BY DEF AskOrder
<1>5. CASE answer \in {"FILLED", "CANCELLED"}
  <2> DEFINE r == [task[t] EXCEPT !.at = "store", !.seen = <<p, l, answer>>]
  <2>1. <<p, l, answer>> \in Found
    BY <1>5 DEF Found
  <2>2. r \in TaskState /\ r.at = "store" /\ r.seen \in Found
    BY <1>1, <2>1 DEF TaskState, Place
  <2>3. task' = [task EXCEPT ![t] = r]
    BY <1>2, <1>5
  <2> HIDE DEF r
  <2>4. Becomes(t, r)
    BY <1>1, <1>4, <2>2, <2>3 DEF Becomes, InHand, OfKind
  <2> QED BY <1>1, <1>3, <2>2, <2>4, TypedStep DEF Rest
<1>6. CASE answer = "not_found"
  <2> DEFINE m == Missing(t, p)
             r == [m EXCEPT !.todo = @ \ {<<p, l>>}]
  <2>1. m \in TaskState /\ m.at = "orders"
    BY <1>1 DEF Missing, TaskState, Verdict
  <2> HIDE DEF m
  <2>2. r \in TaskState /\ r.at = "orders"
    BY <2>1 DEF TaskState
  <2>3. task' = [task EXCEPT ![t] = r]
    BY <1>2, <1>6 DEF m
  <2> HIDE DEF r
  <2>4. Becomes(t, r)
    BY <1>1, <1>4, <2>2, <2>3 DEF Becomes, InHand, OfKind
  <2> QED BY <1>1, <1>3, <2>2, <2>4, TypedStep DEF Rest
<1>7. CASE answer \notin {"FILLED", "CANCELLED", "not_found"}
  <2> DEFINE r == [task[t] EXCEPT !.todo = @ \ {<<p, l>>}]
  <2>1. r \in TaskState /\ r.at = "orders"
    BY <1>1 DEF TaskState
  <2>2. task' = [task EXCEPT ![t] = r]
    BY <1>2, <1>7
  <2> HIDE DEF r
  <2>3. Becomes(t, r)
    BY <1>1, <1>4, <2>1, <2>2 DEF Becomes, InHand, OfKind
  <2> QED BY <1>1, <1>3, <2>1, <2>3, TypedStep DEF Rest
<1> QED BY <1>5, <1>6, <1>7

LEMMA StoreStep ==
    ASSUME TypeInv, NEW t \in Task, Store(t)
    PROVE  /\ TypeInv' /\ Rest(t) /\ task[t].at = "store" /\ task[t].seen \in Found
           /\ task'[t].seen = task[t].seen
           /\ task'[t].at = IF task[t].seen[3] = "FILLED" THEN "link" ELSE "orders"
<1> USE DEF risk, bounds, history
<1>1. task[t] \in TaskState /\ task[t].at = "store" /\ OfKind(t, task[t]) /\ task[t].seen \in Found
  BY DEF Store, At, TypeInv, InHand
<1> DEFINE p == task[t].seen[1]
           l == task[t].seen[2]
           s == task[t].seen[3]
           place == IF s = "FILLED" THEN "link" ELSE "orders"
           r == [task[t] EXCEPT !.at = place, !.todo = @ \ {<<p, l>>}]
<1>2. p \in Position /\ l \in Leg /\ s \in {"FILLED", "CANCELLED"}
  BY <1>1 DEF Found
<1>3. task' = [task EXCEPT ![t] = r] /\ order' = [order EXCEPT ![p][l] = s]
  BY DEF Store
<1>4. r \in TaskState /\ r.at = place /\ r.seen = task[t].seen
  BY <1>1 DEF TaskState, Place
<1>5. place \in {"link", "orders"}
  OBVIOUS
<1> HIDE DEF r, place
<1>6. Becomes(t, r)
  BY <1>1, <1>3, <1>4, <1>5 DEF Becomes, InHand, OfKind, Store
<1>7. RowTypes'
  <2> HIDE DEF p, l, s
  <2>1. order' \in [Position -> [Leg -> OrderStatus]]
    BY <1>2, <1>3 DEF TypeInv, RowTypes, OrderStatus
  <2> QED BY <2>1 DEF TypeInv, RowTypes, Store, Flagged
<1> QED BY <1>1, <1>2, <1>4, <1>6, <1>7, TypedStep DEF Rest, place

LEMMA LinkOrderStep ==
    ASSUME TypeInv, NEW t \in Task, LinkOrder(t)
    PROVE  TypeInv' /\ Rest(t) /\ task[t].at = "link" /\ task[t].seen \in Found /\ task'[t].at = "orders"
<1> USE DEF risk, bounds, history
<1>1. task[t] \in TaskState /\ task[t].at = "link" /\ OfKind(t, task[t]) /\ task[t].seen \in Found
  BY DEF LinkOrder, At, TypeInv, InHand
<1> DEFINE p == task[t].seen[1]
           l == task[t].seen[2]
           r == [task[t] EXCEPT !.at = "orders"]
<1>2. p \in Position /\ l \in Leg
  BY <1>1 DEF Found
<1>3. task' = [task EXCEPT ![t] = r]
  BY DEF LinkOrder, Goto
<1>4. r \in TaskState /\ r.at = "orders"
  BY <1>1 DEF TaskState, Place
<1> HIDE DEF r
<1>5. Becomes(t, r)
  BY <1>1, <1>3, <1>4 DEF Becomes, InHand, OfKind, LinkOrder
<1>6. RowTypes'
  <2>1. \/ /\ status' = [status EXCEPT ![p] = "OPEN"]
           /\ linked' = [linked EXCEPT ![p] = @ \cup {l}]
        \/ UNCHANGED <<status, linked>>
    BY DEF LinkOrder
  <2> HIDE DEF p, l
  <2>2. /\ status' \in [Position -> Status] /\ linked' \in [Position -> SUBSET Leg]
        /\ \A q \in Position : status'[q] = "RECONCILIATION_REQUIRED" => status[q] = "RECONCILIATION_REQUIRED"
    BY <1>2, <2>1, SMTT(30) DEF TypeInv, RowTypes, Status, Counted
  <2> QED BY <2>2 DEF TypeInv, RowTypes, LinkOrder, Flagged
<1> QED BY <1>1, <1>4, <1>5, <1>6, TypedStep DEF Rest

LEMMA OrderWriteFailsStep ==
    ASSUME TypeInv, NEW t \in Task, OrderWriteFails(t)
    PROVE  TypeInv' /\ Rest(t) /\ task[t].at \in {"store", "link"} /\ task[t].seen \in Found
           /\ task'[t].at = "orders"
<1> USE DEF rows, risk
<1>1. task[t] \in TaskState /\ task[t].at \in {"store", "link"} /\ OfKind(t, task[t]) /\ task[t].seen \in Found
  BY DEF OrderWriteFails, TypeInv, InHand
<1> DEFINE q == <<task[t].seen[1], task[t].seen[2]>>
           r == [task[t] EXCEPT !.at = "orders", !.todo = @ \ {q}]
<1>2. task' = [task EXCEPT ![t] = r]
  BY DEF OrderWriteFails
<1>3. r \in TaskState /\ r.at = "orders"
  BY <1>1 DEF TaskState, Place
<1> HIDE DEF r
<1>4. Becomes(t, r)
  BY <1>1, <1>2, <1>3 DEF Becomes, InHand, OfKind, OrderWriteFails
<1>5. RowTypes'
  <2>1. task[t].seen[1] \in Position
    BY <1>1 DEF Found
  <2> QED BY <2>1 DEF TypeInv, RowTypes, OrderWriteFails, Flagged
<1> QED BY <1>1, <1>3, <1>4, <1>5, TypedStep DEF Rest

LEMMA OverallTimeoutStep ==
    ASSUME TypeInv, NEW t \in Task, OverallTimeout(t)
    PROVE  TypeInv' /\ Rest(t) /\ task[t].at \in {"orders", "positions"} /\ task'[t].at = task[t].at
<1> USE DEF rows, risk, bounds, history
<1>1. task[t] \in TaskState /\ task[t].at \in {"orders", "positions"} /\ OfKind(t, task[t])
  BY DEF OverallTimeout, TypeInv
<1> DEFINE r == [task[t] EXCEPT !.late = TRUE, !.todo = {}, !.seen = <<>>]
<1>2. task' = [task EXCEPT ![t] = r]
  BY DEF OverallTimeout
<1>3. r \in TaskState /\ r.at = task[t].at
  BY <1>1 DEF TaskState
<1> HIDE DEF r
<1>4. Becomes(t, r)
  BY <1>1, <1>2, <1>3 DEF Becomes, InHand, OfKind, OverallTimeout
<1>5. RowTypes'
  BY DEF TypeInv, RowTypes, OverallTimeout, Flagged
<1> QED BY <1>1, <1>3, <1>4, <1>5, TypedStep DEF Rest

LEMMA ReadPositionsStep ==
    ASSUME TypeInv, NEW t \in Task, ReadPositions(t)
    PROVE  TypeInv' /\ Rest(t) /\ task[t].at = "orders" /\ task'[t].at = "positions"
<1> USE DEF rows, risk, bounds, history
<1>1. task[t] \in TaskState /\ task[t].at = "orders" /\ OfKind(t, task[t])
  BY DEF ReadPositions, At, TypeInv
<1> DEFINE snapshot == [p \in CountedRows |-> Restrict(order[p], linked[p])]
           r == [task[t] EXCEPT !.at = "positions", !.todo = CountedRows, !.seen = snapshot]
<1>2. task' = [task EXCEPT ![t] = r]
  BY DEF ReadPositions
<1>3. CountedRows \in SUBSET Position
  BY DEF CountedRows
<1>4. snapshot \in Known
  <2> DEFINE some == UNION {[L -> OrderStatus] : L \in SUBSET Leg}
  <2>1. ASSUME NEW p \in CountedRows PROVE Restrict(order[p], linked[p]) \in some
    <3>1. p \in Position /\ linked[p] \in SUBSET Leg /\ order[p] \in [Leg -> OrderStatus]
      BY <1>3 DEF TypeInv, RowTypes
    <3>2. Restrict(order[p], linked[p]) \in [linked[p] -> OrderStatus]
      BY <3>1 DEF Restrict
    <3> QED BY <3>1, <3>2
  <2> HIDE DEF some
  <2>2. snapshot \in [CountedRows -> some]
    BY <2>1
  <2> QED BY <1>3, <2>2 DEF some, Known
<1> HIDE DEF snapshot
<1>5. r \in TaskState /\ r.at = "positions"
  BY <1>1, <1>3, <1>4 DEF TaskState, Place
<1> HIDE DEF r
<1>6. Becomes(t, r)
  BY <1>1, <1>2, <1>5 DEF Becomes, InHand, OfKind, ReadPositions
<1>7. RowTypes'
  BY DEF TypeInv, RowTypes, ReadPositions, Flagged
<1> QED BY <1>1, <1>5, <1>6, <1>7, TypedStep DEF Rest

LEMMA CheckPositionStep ==
    ASSUME TypeInv, NEW t \in Task, NEW p \in Position, CheckPosition(t, p)
    PROVE  TypeInv' /\ Rest(t) /\ task[t].at = "positions" /\ task'[t].at = "positions"
<1> USE DEF rows, risk, bounds, history
<1>1. task[t] \in TaskState /\ task[t].at = "positions" /\ OfKind(t, task[t])
  BY DEF CheckPosition, At, TypeInv
<1>2. PICK v \in Verdict :
        task' = [task EXCEPT ![t] = [task[t] EXCEPT !.todo = @ \ {p},
                                        !.advice = [task[t].advice EXCEPT ![p] = v]]]
  <2>1. \A local, answer : Advice(local, answer) \in Verdict
    BY DEF Advice, Verdict
  <2>2. task[t].advice[p] \in Verdict /\ "none" \in Verdict
    BY <1>1 DEF TaskState, Verdict
  <2> QED BY <2>1, <2>2 DEF CheckPosition
<1> DEFINE r == [task[t] EXCEPT !.todo = @ \ {p}, !.advice = [task[t].advice EXCEPT ![p] = v]]
<1>3. r \in TaskState /\ r.at = "positions"
  <2>1. [task[t].advice EXCEPT ![p] = v] \in [Position -> Verdict]
    BY <1>1 DEF TaskState
  <2> QED BY <1>1, <2>1 DEF TaskState
<1> HIDE DEF r
<1>4. Becomes(t, r)
  BY <1>1, <1>2, <1>3 DEF r, Becomes, InHand, OfKind, CheckPosition
<1>5. RowTypes'
  BY DEF TypeInv, RowTypes, CheckPosition, Flagged
<1> QED BY <1>1, <1>3, <1>4, <1>5, TypedStep DEF Rest

LEMMA JudgeStep ==
    ASSUME TypeInv, NEW t \in Task, Judge(t)
    PROVE  /\ TypeInv' /\ Rest(t) /\ task[t].at \in {"orders", "positions"}
           /\ \/ FoundAny(t) /\ task'[t].at = "flag" /\ halted' = halted
              \/ ~FoundAny(t) /\ task'[t].at = "recount" /\ task'[t].loose = FALSE /\ halted' = FALSE
<1> USE DEF rows, risk, bounds, history
<1>1. task[t] \in TaskState /\ task[t].at \in {"orders", "positions"} /\ OfKind(t, task[t]) /\ UNCHANGED recommended
  BY DEF Judge, At, TypeInv
<1>2. RowTypes'
  BY DEF TypeInv, RowTypes, Judge, Flagged
<1>3. CASE FoundAny(t)
  <2> DEFINE r == [task[t] EXCEPT !.at = "flag", !.todo = Advised(t), !.seen = <<>>]
  <2>1. task' = [task EXCEPT ![t] = r] /\ halted' = halted
    BY <1>3 DEF Judge
  <2>2. r \in TaskState /\ r.at = "flag" /\ r.todo = Advised(t) /\ r.advice = task[t].advice
    BY <1>1 DEF TaskState, Place, Advised
  <2> HIDE DEF r
  <2>3. Becomes(t, r)
    BY <1>1, <2>1, <2>2 DEF Becomes, InHand, OfKind, Advised
  <2> QED BY <1>1, <1>2, <1>3, <2>1, <2>2, <2>3, TypedStep DEF Rest
<1>4. CASE ~FoundAny(t)
  <2> DEFINE r == [Idle EXCEPT !.at = "recount"]
  <2>1. task' = [task EXCEPT ![t] = r] /\ halted' = FALSE
    BY <1>4 DEF Judge
  <2>2. r \in TaskState /\ r.at = "recount" /\ r.loose = FALSE
    BY IdleTyped DEF TaskState, Place
  <2> HIDE DEF r
  <2>3. Becomes(t, r)
    BY <1>1, <2>1, <2>2 DEF Becomes, InHand, OfKind
  <2> QED BY <1>1, <1>2, <1>4, <2>1, <2>2, <2>3, TypedStep DEF Rest
<1> QED BY <1>3, <1>4

LEMMA FlagStep ==
    ASSUME TypeInv, NEW t \in Task, NEW p \in Position, Flag(t, p)
    PROVE  TypeInv' /\ Rest(t) /\ task[t].at = "flag" /\ task'[t].at = "flag"
<1> USE DEF risk, history
<1>1. task[t] \in TaskState /\ task[t].at = "flag" /\ OfKind(t, task[t]) /\ InHand(task[t])
  BY DEF Flag, At, TypeInv
<1>2. p \in task[t].todo /\ task[t].advice[p] \in Verdict /\ task[t].advice[p] # "none"
  <2>1. p \in task[t].todo
    BY DEF Flag, Turn
  <2> QED BY <1>1, <2>1 DEF InHand, TaskState
<1> DEFINE r == [task[t] EXCEPT !.todo = @ \ {p}]
<1>3. task' = [task EXCEPT ![t] = r]
  BY DEF Flag
<1>4. r \in TaskState /\ r.at = "flag" /\ r.todo \subseteq task[t].todo /\ r.advice = task[t].advice
  BY <1>1 DEF TaskState
<1> HIDE DEF r
<1>5. \/ /\ status' = [status EXCEPT ![p] = "RECONCILIATION_REQUIRED"]
         /\ recommended' = [recommended EXCEPT ![p] = task[t].advice[p]]
      \/ UNCHANGED <<status, recommended>>
  BY DEF Flag
<1>6. /\ status' \in [Position -> Status] /\ recommended' \in [Position -> Verdict]
      /\ \A q \in Position : recommended[q] # "none" => recommended'[q] # "none"
      /\ \A q \in Position : status'[q] = "RECONCILIATION_REQUIRED" => recommended'[q] # "none"
  BY <1>2, <1>5 DEF TypeInv, RowTypes, Status, Flagged
<1>7. Becomes(t, r)
  BY <1>1, <1>3, <1>4, <1>6 DEF Becomes, InHand, OfKind
<1>8. RowTypes'
  BY <1>6 DEF TypeInv, RowTypes, Flag, Flagged
<1> QED BY <1>1, <1>4, <1>7, <1>8, TypedStep DEF Rest

LEMMA HaltTradingStep ==
    ASSUME TypeInv, NEW t \in Task, HaltTrading(t)
    PROVE  TypeInv' /\ Rest(t) /\ task[t].at = "flag" /\ task'[t].at = "recount" /\ task'[t].loose = TRUE
<1> USE DEF rows, bounds, history
<1> DEFINE r == [Idle EXCEPT !.at = "recount", !.loose = TRUE]
<1>1. task[t].at = "flag" /\ OfKind(t, task[t]) /\ task' = [task EXCEPT ![t] = r] /\ UNCHANGED recommended
  BY DEF HaltTrading, At, TypeInv
<1>2. r \in TaskState /\ r.at = "recount" /\ r.loose = TRUE
  BY IdleTyped DEF TaskState, Place
<1> HIDE DEF r
<1>3. Becomes(t, r)
  BY <1>1, <1>2 DEF Becomes, InHand, OfKind
<1>4. RowTypes'
  BY DEF TypeInv, RowTypes, HaltTrading, Flagged
<1> QED BY <1>1, <1>2, <1>3, <1>4, TypedStep DEF Rest

LEMMA RecountStep ==
    ASSUME TypeInv, NEW t \in Task, Recount(t)
    PROVE  /\ TypeInv' /\ Rest(t) /\ task[t].at = "recount" /\ task'[t].at = "set"
           /\ task'[t].count = Cardinality(CountedRows)
           /\ task'[t].loose = task[t].loose /\ task'[t].advice = task[t].advice
<1> USE DEF rows, risk, bounds, history, RowsToCount
<1> DEFINE n == Cardinality(CountedRows)
           r == [task[t] EXCEPT !.at = "set", !.count = n]
<1>1. task[t] \in TaskState /\ task[t].at = "recount" /\ OfKind(t, task[t]) /\ UNCHANGED recommended
  BY DEF Recount, At, TypeInv
<1>2. task' = [task EXCEPT ![t] = r]
  BY DEF Recount
<1>3. n \in 0..Cardinality(Position)
  BY Counts DEF TypeInv
<1> HIDE DEF n
<1>4. r \in TaskState /\ r.at = "set" /\ r.count = n /\ r.loose = task[t].loose /\ r.advice = task[t].advice
  BY <1>1, <1>3 DEF TaskState, Place
<1> HIDE DEF r
<1>5. Becomes(t, r)
  BY <1>1, <1>2, <1>4 DEF Becomes, InHand, OfKind
<1>6. RowTypes'
  BY DEF TypeInv, RowTypes, Recount, Flagged
<1> QED BY <1>1, <1>4, <1>5, <1>6, TypedStep DEF Rest, n

LEMMA SetCountStep ==
    ASSUME TypeInv, NEW t \in Task, SetCount(t)
    PROVE  TypeInv' /\ Rest(t) /\ task[t].at = "set" /\ task'[t].at = "idle"
<1> USE DEF rows, bounds
<1>1. task[t] \in TaskState /\ task[t].at = "set" /\ task' = [task EXCEPT ![t] = Idle] /\ UNCHANGED recommended
  BY DEF SetCount, At, TypeInv
<1>2. Becomes(t, Idle)
  BY <1>1, IdleTyped DEF Becomes, InHand, OfKind
<1>3. RowTypes'
  <2>1. task[t].count \in 0..Cardinality(Position)
    BY <1>1 DEF TaskState
  <2>2. halted' \in BOOLEAN
    BY DEF SetCount
  <2> QED BY <2>1, <2>2 DEF TypeInv, RowTypes, SetCount, Flagged
<1> QED BY <1>1, <1>2, <1>3, IdleTyped, TypedStep DEF Rest

LEMMA QueryFailsStep ==
    ASSUME TypeInv, NEW t \in Task, QueryFails(t)
    PROVE  /\ TypeInv' /\ Rest(t) /\ task[t].at \in {"orders", "recount", "write", "remaining"}
           /\ task'[t].at = "idle"
<1> USE DEF rows
<1>1. /\ task[t].at \in {"orders", "recount", "write", "remaining"}
      /\ task' = [task EXCEPT ![t] = Idle] /\ UNCHANGED recommended
  BY DEF QueryFails, At
<1>2. Becomes(t, Idle)
  BY <1>1, IdleTyped DEF Becomes, InHand, OfKind
<1>3. RowTypes'
  <2>1. halted' \in BOOLEAN
    BY DEF QueryFails
  <2> QED BY <2>1 DEF TypeInv, RowTypes, QueryFails, Flagged
<1> QED BY <1>1, <1>2, <1>3, IdleTyped, TypedStep DEF Rest

LEMMA BeginResolveStep ==
    ASSUME TypeInv, NEW t \in Task, NEW p \in Position, BeginResolve(t, p)
    PROVE  TypeInv' /\ Rest(t) /\ task[t].at = "idle" /\ task'[t].at = "write"
<1> USE DEF rows, risk
<1>1. PICK act \in {"acknowledge", "force_close"} :
        task' = [task EXCEPT ![t] = [Idle EXCEPT !.at = "write", !.todo = {p}, !.seen = <<act>>]]
  BY DEF BeginResolve
<1> DEFINE r == [Idle EXCEPT !.at = "write", !.todo = {p}, !.seen = <<act>>]
<1>2. <<act>> \in Act
  BY DEF Act
<1>3. r \in TaskState /\ r.at = "write" /\ r.todo = {p}
  BY <1>2, IdleTyped DEF TaskState, Place
<1> HIDE DEF r
<1>4. /\ task[t].at = "idle" /\ t \in Resolve /\ recommended[p] # "none" /\ UNCHANGED recommended
      /\ task' = [task EXCEPT ![t] = r]
  BY <1>1 DEF r, BeginResolve, TypeInv, RowTypes, At
<1>5. Becomes(t, r)
  BY <1>3, <1>4 DEF Becomes, InHand, OfKind
<1>6. RowTypes'
  BY DEF TypeInv, RowTypes, BeginResolve, Begins, Flagged
<1> QED BY <1>3, <1>4, <1>5, <1>6, TypedStep DEF Rest

(* A resolution leaves its position open or closed, and no other changed.  *)
LEMMA WriteResolutionStep ==
    ASSUME TypeInv, NEW t \in Task, WriteResolution(t)
    PROVE  /\ TypeInv' /\ Rest(t) /\ task[t].at = "write" /\ task'[t].at \in {"release", "remaining"}
           /\ \A q \in Position : status'[q] \in {status[q], "OPEN", "CLOSED"}
<1> USE DEF risk, bounds, history
<1>1. task[t] \in TaskState /\ task[t].at = "write" /\ OfKind(t, task[t]) /\ UNCHANGED recommended
  BY DEF WriteResolution, At, TypeInv
<1>2. PICK p \in Position : task[t].todo = {p} /\ recommended[p] # "none"
  BY <1>1 DEF TypeInv, InHand
<1>3. (CHOOSE q \in task[t].todo : TRUE) = p
  BY <1>2
<1>4. \E next \in {"release", "remaining"} : task' = [task EXCEPT ![t].at = next]
  BY DEF WriteResolution, Goto
<1>5. PICK next \in {"release", "remaining"} : task' = [task EXCEPT ![t].at = next]
  BY <1>4
<1>6. \/ status' = [status EXCEPT ![p] = recommended[p]]
      \/ status' = [status EXCEPT ![p] = "CLOSED"]
  BY <1>3 DEF WriteResolution
<1>7. recommended[p] \in {"OPEN", "CLOSED"}
  BY <1>2 DEF TypeInv, RowTypes, Verdict
<1>8. status' \in [Position -> Status] /\ \A q \in Position : status'[q] \in {status[q], "OPEN", "CLOSED"}
  BY <1>6, <1>7 DEF TypeInv, RowTypes, Status, Counted
<1> DEFINE r == [task[t] EXCEPT !.at = next]
<1>9. r \in TaskState /\ r.at = next /\ task' = [task EXCEPT ![t] = r]
  BY <1>1, <1>5 DEF TaskState, Place
<1> HIDE DEF r
<1>10. Becomes(t, r)
  BY <1>1, <1>9 DEF Becomes, InHand, OfKind
<1>11. RowTypes'
  BY <1>8 DEF TypeInv, RowTypes, WriteResolution, Flagged
<1> QED BY <1>1, <1>8, <1>9, <1>10, <1>11, TypedStep DEF Rest

LEMMA ReleaseStep ==
    ASSUME TypeInv, NEW t \in Task, ReleasePosition(t)
    PROVE  TypeInv' /\ Rest(t) /\ task[t].at = "release" /\ task'[t].at = "remaining"
<1> USE DEF rows, bounds, history
<1> DEFINE r == [task[t] EXCEPT !.at = "remaining"]
<1>1. task[t] \in TaskState /\ task[t].at = "release" /\ OfKind(t, task[t]) /\ UNCHANGED recommended
      /\ task' = [task EXCEPT ![t] = r]
  BY DEF ReleasePosition, At, Goto, TypeInv
<1>2. openCount' \in 0..Cardinality(Position)
  <2>1. openCount \in 0..Cardinality(Position) /\ Cardinality(Position) \in Nat
    BY Counts DEF TypeInv, RowTypes
  <2> QED BY <2>1 DEF ReleasePosition, OneLess
<1>3. r \in TaskState /\ r.at = "remaining"
  BY <1>1 DEF TaskState, Place
<1> HIDE DEF r
<1>4. Becomes(t, r)
  BY <1>1, <1>3 DEF Becomes, InHand, OfKind
<1>5. RowTypes'
  BY <1>2 DEF TypeInv, RowTypes, ReleasePosition, Flagged
<1> QED BY <1>1, <1>3, <1>4, <1>5, TypedStep DEF Rest

LEMMA ResumeStep ==
    ASSUME TypeInv, NEW t \in Task, ResumeWhenNoneRemain(t)
    PROVE  TypeInv' /\ Rest(t) /\ task[t].at = "remaining" /\ task'[t].at = "recount"
<1> USE DEF rows, bounds, history
<1> DEFINE r == [Idle EXCEPT !.at = "recount"]
<1>1. /\ task[t].at = "remaining" /\ OfKind(t, task[t]) /\ task' = [task EXCEPT ![t] = r]
      /\ UNCHANGED recommended
  BY DEF ResumeWhenNoneRemain, At, TypeInv
<1>2. r \in TaskState /\ r.at = "recount"
  BY IdleTyped DEF TaskState, Place
<1> HIDE DEF r
<1>3. Becomes(t, r)
  BY <1>1, <1>2 DEF Becomes, InHand, OfKind
<1>4. RowTypes'
  <2>1. halted' \in BOOLEAN
    BY DEF ResumeWhenNoneRemain
  <2> QED BY <2>1 DEF TypeInv, RowTypes, ResumeWhenNoneRemain, Flagged
<1> QED BY <1>1, <1>2, <1>3, <1>4, TypedStep DEF Rest

LEMMA NoneCounted == 0 \in 0..Cardinality(Position)
<1>1. Cardinality(Position) \in Nat
  BY ReconciliationConstants, FS_CardinalityType
<1> QED BY <1>1

LEMMA CrashTypes ==
    ASSUME TypeInv, Crash
    PROVE  TypeInv' /\ task'["boot"].at = "start" /\ \A t \in Task \ {"boot"} : task'[t].at = "idle"
<1> USE DEF rows
<1> DEFINE fresh(t) == [Idle EXCEPT !.at = IF t = "boot" THEN "start" ELSE "idle"]
<1>1. task' = [t \in Task |-> fresh(t)]
  BY DEF Crash
<1>2. \A t \in Task : fresh(t) \in TaskState /\ fresh(t).at = IF t = "boot" THEN "start" ELSE "idle"
  BY IdleTyped DEF TaskState, Place
<1> HIDE DEF fresh
<1>3. /\ task' \in [Task -> TaskState]
      /\ \A t \in Task : task'[t].at = IF t = "boot" THEN "start" ELSE "idle"
  BY <1>1, <1>2
<1>4. \A t \in Task : InHand(task[t])' /\ OfKind(t, task'[t])
  BY <1>3, ReconciliationConstants DEF InHand, OfKind
<1>5. RowTypes'
  <2>1. \A t \in Task : At(t, "link") => task[t].seen[1] \in Position
    BY DEF TypeInv, InHand, Found, At
  <2>2. torn' \subseteq Position
    BY <2>1 DEF Crash, TypeInv, RowTypes
  <2>3. openCount' \in 0..Cardinality(Position)
    BY NoneCounted DEF Crash
  <2>4. /\ UNCHANGED <<rows, halted, runs>> /\ crashes' = crashes + 1
        /\ stale' = TRUE /\ overlap' = FALSE
    BY DEF Crash
  <2>5. crashes' \in Nat
    BY <2>4 DEF TypeInv, RowTypes
  <2> QED BY <2>2, <2>3, <2>4, <2>5 DEF TypeInv, RowTypes, Flagged
<1>6. "boot" \in Task
  BY DEF Task
<1> QED BY <1>3, <1>4, <1>5, <1>6 DEF TypeInv, OfKind

LEMMA UntouchedTypes ==
    ASSUME TypeInv, UNCHANGED <<rows, risk, task, bounds, history>>
    PROVE  TypeInv'
BY DEF TypeInv, RowTypes, InHand, OfKind, Flagged, rows, risk, bounds, history

-----------------------------------------------------------------------------
(* The slots.                                                              *)

(* A call that was at work and still is, and has not counted, changes no   *)
(* count that anybody relies on.                                           *)
LEMMA CountKept ==
    ASSUME CountInv, NEW t \in Task, Rest(t), Busy(t), task'[t].at \notin {"idle", "set"}, overlap' = overlap
    PROVE  CountInv'
<1>1. \A u \in Task : Busy(u)' <=> Busy(u)
  BY DEF Rest, Busy, At
<1>2. ~Quiet'
  BY <1>1 DEF Quiet, Busy
<1>3. ~overlap => Alone' /\ \A u \in Task : ~At(u, "set")'
  <2> SUFFICES ASSUME ~overlap PROVE Alone' /\ \A u \in Task : ~At(u, "set")'
    OBVIOUS
  <2>1. Alone /\ Alone'
    BY <1>1 DEF CountInv, Alone
  <2>2. \A u \in Task \ {t} : ~Busy(u)'
    BY <1>1, <2>1 DEF Alone
  <2> QED BY <2>1, <2>2 DEF At, Busy
<1> QED BY <1>2, <1>3 DEF CountInv, CountMatchesRows

(* A call that begins leaves the others at work only if it says so.        *)
LEMMA CountBegun ==
    ASSUME TypeInv, CountInv, NEW t \in Task, Rest(t), Begins(t), task'[t].at \notin {"idle", "set"}
    PROVE  CountInv'
<1>1. ~Quiet'
  BY DEF Quiet, At
<1>2. ~overlap' => \A u \in Task \ {t} : ~Busy(u)'
  BY DEF Begins, Busy, At, Rest, TypeInv, RowTypes
<1>3. ~overlap' => Alone' /\ \A u \in Task : ~At(u, "set")'
  BY <1>2 DEF Alone, At, Busy
<1> QED BY <1>1, <1>3 DEF CountInv, CountMatchesRows

LEMMA CountRecounted ==
    ASSUME TypeInv, CountInv, NEW t \in Task, Recount(t)
    PROVE  CountInv'
<1> USE DEF rows, risk, bounds, history
<1>1. /\ Rest(t) /\ Busy(t) /\ Busy(t)' /\ task'[t].count = Cardinality(CountedRows) /\ overlap' = overlap
  BY RecountStep DEF Busy, At, Recount
<1>2. CountedRows' = CountedRows
  BY DEF Recount, CountedRows
<1>3. ~Quiet' /\ \A u \in Task : Busy(u)' <=> Busy(u)
  BY <1>1 DEF Quiet, Busy, Rest, At
<1>4. ~overlap => Alone' /\ \A u \in Task : At(u, "set")' => task'[u].count = Cardinality(CountedRows')
  <2> SUFFICES ASSUME ~overlap
               PROVE  Alone' /\ \A u \in Task : At(u, "set")' => task'[u].count = Cardinality(CountedRows')
    OBVIOUS
  <2>1. Alone'
    BY <1>3 DEF CountInv, Alone
  <2>2. \A u \in Task \ {t} : ~Busy(u)'
    BY <1>1, <2>1 DEF Alone
  <2> QED BY <1>1, <1>2, <2>1, <2>2 DEF At, Busy
<1> QED BY <1>1, <1>3, <1>4 DEF CountInv, CountMatchesRows

LEMMA CountSet ==
    ASSUME TypeInv, CountInv, NEW t \in Task, SetCount(t)
    PROVE  CountInv'
<1> USE DEF rows, bounds
<1>1. /\ Rest(t) /\ At(t, "set") /\ Busy(t) /\ ~Busy(t)' /\ overlap' = overlap /\ openCount' = task[t].count
  BY SetCountStep DEF Busy, At, SetCount
<1>2. CountedRows' = CountedRows
  BY DEF SetCount, CountedRows
<1>3. ~overlap => /\ \A u \in Task : ~Busy(u)'
                  /\ openCount' = Cardinality(CountedRows')
  <2> SUFFICES ASSUME ~overlap
               PROVE  (\A u \in Task : ~Busy(u)') /\ openCount' = Cardinality(CountedRows')
    OBVIOUS
  <2>1. Alone /\ task[t].count = Cardinality(CountedRows)
    BY <1>1 DEF CountInv
  <2>2. \A u \in Task \ {t} : ~Busy(u)
    BY <1>1, <2>1 DEF Alone
  <2> QED BY <1>1, <1>2, <2>1, <2>2 DEF Rest, Busy, At
<1> QED BY <1>1, <1>3 DEF CountInv, CountMatchesRows, Alone, At, Busy

LEMMA CountGivenUp ==
    ASSUME TypeInv, CountInv, NEW t \in Task, QueryFails(t)
    PROVE  CountInv'
<1>1. Rest(t) /\ ~Busy(t)' /\ ~At(t, "set")' /\ overlap' = overlap /\ stale' = TRUE
  BY QueryFailsStep DEF Busy, At, QueryFails
<1>2. \A u \in Task \ {t} : task'[u] = task[u]
  BY <1>1 DEF Rest
<1>3. CountedRows' = CountedRows
  BY DEF QueryFails, CountedRows, rows
<1> QED BY <1>1, <1>2, <1>3 DEF CountInv, CountMatchesRows, Alone, Busy, At

LEMMA CountUntouched ==
    ASSUME CountInv, UNCHANGED <<rows, risk, task, bounds, history>>
    PROVE  CountInv'
BY DEF CountInv, CountMatchesRows, CountedRows, Alone, Busy, At, Quiet, rows, risk, bounds, history

LEMMA CountCrashed ==
    ASSUME TypeInv, Crash
    PROVE  CountInv'
<1>1. task'["boot"].at = "start" /\ \A t \in Task \ {"boot"} : task'[t].at = "idle"
  BY CrashTypes
<1>2. \A t \in Task : ~At(t, "set")'
  BY <1>1 DEF At
<1>3. Alone'
  BY <1>1 DEF Alone, Busy, At
<1>4. stale' = TRUE
  BY DEF Crash
<1> QED BY <1>2, <1>3, <1>4 DEF CountInv, CountMatchesRows

-----------------------------------------------------------------------------
(* The filled legs.                                                        *)

(* Calls that were about to link still are, and no row asks for more.      *)
LEMMA LinkKept ==
    ASSUME LinkInv,
           \A u \in Task : At(u, "link") => At(u, "link")' /\ task'[u].seen = task[u].seen,
           \A p \in Position : ExposedRow(p)' => ExposedRow(p),
           \A p \in Position : linked[p] \subseteq linked'[p],
           UNCHANGED order, torn \subseteq torn'
    PROVE  LinkInv'
<1> SUFFICES ASSUME NEW p \in Position \ torn', NEW l \in Leg,
                    ExposedRow(p)', order'[p][l] = "FILLED", l \notin linked'[p]
             PROVE  \E t \in Task : Linking(t, p, l)'
  BY DEF LinkInv
<1>1. PICK t \in Task : Linking(t, p, l)
  BY DEF LinkInv
<1> QED BY <1>1 DEF Linking

(* The same, for a call that was not about to link.                        *)
LEMMA LinkElsewhere ==
    ASSUME LinkInv, NEW t \in Task, Rest(t), task[t].at # "link",
           \A p \in Position : ExposedRow(p)' => ExposedRow(p),
           UNCHANGED <<order, linked, torn>>
    PROVE  LinkInv'
<1>1. \A u \in Task : At(u, "link") => At(u, "link")' /\ task'[u].seen = task[u].seen
  BY DEF Rest, At
<1> QED BY <1>1, LinkKept

(* A leg found filled is at once in the hands of the call that found it.   *)
LEMMA LinkStored ==
    ASSUME TypeInv, LinkInv, NEW t \in Task, Store(t)
    PROVE  LinkInv'
<1>1. /\ Rest(t) /\ task[t].at = "store" /\ task[t].seen \in Found /\ task'[t].seen = task[t].seen
      /\ task'[t].at = IF task[t].seen[3] = "FILLED" THEN "link" ELSE "orders"
  BY StoreStep
<1>2. PICK p \in Position, l \in Leg, s \in {"FILLED", "CANCELLED"} : task[t].seen = <<p, l, s>>
  BY <1>1 DEF Found
<1>3. task[t].seen[1] = p /\ task[t].seen[2] = l /\ task[t].seen[3] = s
  BY <1>2
<1>4. order' = [order EXCEPT ![p][l] = s] /\ UNCHANGED <<status, linked, torn>>
  BY <1>3 DEF Store, history
<1> SUFFICES ASSUME NEW q \in Position \ torn, NEW k \in Leg,
                    ExposedRow(q), order'[q][k] = "FILLED", k \notin linked[q]
             PROVE  \E u \in Task : Linking(u, q, k)'
  BY <1>4 DEF LinkInv, ExposedRow
<1>5. CASE q = p /\ k = l
  <2>1. order'[p][l] = s
    BY <1>4 DEF TypeInv, RowTypes
  <2>2. Linking(t, p, l)'
    BY <1>1, <1>3, <1>5, <2>1 DEF Linking, At
  <2> QED BY <1>5, <2>2
<1>6. CASE ~(q = p /\ k = l)
  <2>1. order'[q][k] = order[q][k]
    BY <1>4, <1>6 DEF TypeInv, RowTypes
  <2>2. PICK u \in Task : Linking(u, q, k)
    BY <2>1 DEF LinkInv
  <2>3. u # t
    BY <1>1, <2>2 DEF Linking, At
  <2> QED BY <1>1, <2>2, <2>3 DEF Linking, At, Rest
<1> QED BY <1>5, <1>6

(* Linking makes the position whole, or finds nothing to link.             *)
LEMMA LinkLinked ==
    ASSUME TypeInv, LinkInv, NEW t \in Task, LinkOrder(t)
    PROVE  LinkInv'
<1>1. Rest(t) /\ task[t].at = "link" /\ task[t].seen \in Found
  BY LinkOrderStep
<1>2. PICK p \in Position, l \in Leg : task[t].seen[1] = p /\ task[t].seen[2] = l
  BY <1>1 DEF Found
<1>3. /\ UNCHANGED <<order, torn>>
      /\ IF CompletesPosition(p, l)
         THEN status' = [status EXCEPT ![p] = "OPEN"] /\ linked' = [linked EXCEPT ![p] = @ \cup {l}]
         ELSE UNCHANGED <<status, linked>>
  BY <1>2 DEF LinkOrder, history
<1>4. /\ \A q \in Position : (ExposedRow(q)' => ExposedRow(q)) /\ linked[q] \subseteq linked'[q]
      /\ ExposedRow(p)' => l \in linked[p]
  <2>1. status \in [Position -> Status] /\ linked \in [Position -> SUBSET Leg]
    BY DEF TypeInv, RowTypes
  <2>2. CASE CompletesPosition(p, l)
    BY <1>3, <2>1, <2>2 DEF ExposedRow
  <2>3. CASE ~CompletesPosition(p, l)
    BY <1>3, <2>3 DEF CompletesPosition, ExposedRow
  <2> QED BY <2>2, <2>3
<1> SUFFICES ASSUME NEW q \in Position \ torn, NEW k \in Leg,
                    ExposedRow(q)', order[q][k] = "FILLED", k \notin linked'[q]
             PROVE  \E u \in Task : Linking(u, q, k)'
  BY <1>3 DEF LinkInv
<1>5. PICK u \in Task : Linking(u, q, k)
  BY <1>4 DEF LinkInv
<1>6. u # t
  <2> SUFFICES ASSUME u = t PROVE FALSE
    OBVIOUS
  <2>1. q = p /\ k = l
    BY <1>2, <1>5 DEF Linking
  <2> QED BY <1>4, <2>1
<1> QED BY <1>1, <1>5, <1>6 DEF Linking, At, Rest

(* A link that cannot be written leaves its position torn.                 *)
LEMMA LinkLost ==
    ASSUME TypeInv, LinkInv, NEW t \in Task, OrderWriteFails(t)
    PROVE  LinkInv'
<1>1. /\ Rest(t) /\ task[t].at \in {"store", "link"}
      /\ UNCHANGED <<status, linked, order>>
      /\ torn' = IF task[t].at = "link" THEN torn \cup {task[t].seen[1]} ELSE torn
  BY OrderWriteFailsStep DEF OrderWriteFails, rows, At
<1> SUFFICES ASSUME NEW q \in Position \ torn', NEW k \in Leg,
                    ExposedRow(q), order[q][k] = "FILLED", k \notin linked[q]
             PROVE  \E u \in Task : Linking(u, q, k)'
  BY <1>1 DEF LinkInv, ExposedRow
<1>2. PICK u \in Task : Linking(u, q, k)
  BY <1>1 DEF LinkInv
<1>3. u # t
  BY <1>1, <1>2 DEF Linking, At
<1> QED BY <1>1, <1>2, <1>3 DEF Linking, At, Rest

LEMMA LinkUntouched ==
    ASSUME LinkInv, UNCHANGED <<rows, risk, task, bounds, history>>
    PROVE  LinkInv'
BY DEF LinkInv, Linking, At, ExposedRow, rows, history

LEMMA LinkCrashed ==
    ASSUME LinkInv, Crash
    PROVE  LinkInv'
<1>1. /\ UNCHANGED <<status, linked, order>>
      /\ torn' = torn \cup {task[t].seen[1] : t \in {u \in Task : At(u, "link")}}
  BY DEF Crash, rows
<1> SUFFICES ASSUME NEW q \in Position \ torn', NEW k \in Leg,
                    ExposedRow(q), order[q][k] = "FILLED", k \notin linked[q]
             PROVE  FALSE
  BY <1>1 DEF LinkInv, ExposedRow
<1>2. PICK u \in Task : Linking(u, q, k)
  BY <1>1 DEF LinkInv
<1> QED BY <1>1, <1>2 DEF Linking

-----------------------------------------------------------------------------
(* The halt.                                                               *)

LEMMA BootIsNoOther ==
    /\ "boot" \in Task /\ "boot" \notin Resolve /\ "boot" \notin Manual
    /\ \A t \in Task : t = "boot" \/ t \in Manual \/ t \in Resolve
BY ReconciliationConstants DEF Task

(* A call at work in the first run is the boot, or a resolution after it.  *)
Alternatives(t) == t = "boot" \/ (t \in Resolve /\ At("boot", "idle") /\ At("boot", "idle")')

LEMMA HaltKept ==
    ASSUME TypeInv, TypeInv', HaltInv, NEW t \in Task, Rest(t), UNCHANGED <<runs, crashes>>,
           task[t].at \notin {"start", "idle"}, task'[t].at # "start",
           FirstRun /\ Alternatives(t) => FirstBoot'
    PROVE  HaltInv'
<1> SUFFICES ASSUME crashes = 0
             PROVE  (runs = 0 => FALSE) /\ (runs = 1 => FirstRun')
  BY DEF HaltInv
<1>1. runs # 0
  BY DEF HaltInv, At
<1>2. ASSUME runs = 1 PROVE FirstRun'
  <2>1. FirstRun
    BY <1>2 DEF HaltInv
  <2>2. t = "boot" \/ (t \in Resolve /\ At("boot", "idle"))
    BY <2>1, BootIsNoOther DEF FirstRun, At, Busy
  <2>3. Alternatives(t)
    BY <2>2, BootIsNoOther DEF Alternatives, Rest, At
  <2>4. \A m \in Manual : At(m, "idle")'
    BY <2>1, <2>2, ReconciliationConstants DEF FirstRun, Rest, At, Task
  <2>5. ~At("boot", "start")'
    BY <2>1, <2>2, BootIsNoOther DEF FirstRun, Rest, At
  <2>6. Busy("boot")' => \A u \in Task \ {"boot"} : At(u, "idle")'
    BY <2>1, <2>2, BootIsNoOther DEF FirstRun, Rest, At, Busy
  <2> QED BY <2>1, <2>3, <2>4, <2>5, <2>6 DEF FirstRun
<1> QED BY <1>1, <1>2

(* Up to the flags only the boot is at work, and nothing is flagged.       *)
LEMMA HaltBeforeFlags ==
    ASSUME TypeInv, TypeInv', HaltInv, NEW t \in Task, Rest(t), UNCHANGED <<runs, crashes>>,
           task[t].at \in BeforeFlags, task'[t].at \in BeforeFlags, Flagged' \subseteq Flagged
    PROVE  HaltInv'
<1>1. task[t].at \notin {"start", "idle"} /\ task'[t].at # "start" /\ t \notin Resolve
  BY DEF BeforeFlags, TypeInv, OfKind
<1>2. FirstRun /\ Alternatives(t) => FirstBoot'
  BY <1>1 DEF Alternatives, FirstRun, FirstBoot, BeforeFlags
<1> QED BY <1>1, <1>2, HaltKept

LEMMA HaltJudged ==
    ASSUME TypeInv, HaltInv, NEW t \in Task, Judge(t)
    PROVE  HaltInv'
<1>1. /\ TypeInv' /\ Rest(t) /\ task[t].at \in {"orders", "positions"} /\ task'[t].at \in {"flag", "recount"}
      /\ UNCHANGED <<runs, crashes, status>>
  BY JudgeStep DEF Judge, bounds, rows
<1>2. Flagged' = Flagged /\ t \notin Resolve
  BY <1>1 DEF Flagged, TypeInv, OfKind
<1>3. FirstRun /\ Alternatives(t) => FirstBoot'
  BY <1>1, <1>2 DEF Alternatives, FirstRun, FirstBoot, BeforeFlags
<1> QED BY <1>1, <1>3, HaltKept, SMTT(30)

LEMMA HaltFlagged ==
    ASSUME TypeInv, HaltInv, NEW t \in Task, NEW p \in Position, Flag(t, p)
    PROVE  HaltInv'
<1>1. TypeInv' /\ Rest(t) /\ task[t].at = "flag" /\ task'[t].at = "flag" /\ UNCHANGED <<runs, crashes>>
  BY FlagStep DEF Flag
<1>2. t \notin Resolve
  BY <1>1 DEF TypeInv, OfKind
<1>3. FirstRun /\ Alternatives(t) => FirstBoot'
  BY <1>1, <1>2 DEF Alternatives, FirstBoot, BeforeFlags
<1> QED BY <1>1, <1>3, HaltKept

LEMMA HaltHalted ==
    ASSUME TypeInv, HaltInv, NEW t \in Task, HaltTrading(t)
    PROVE  HaltInv'
<1>1. /\ TypeInv' /\ Rest(t) /\ task[t].at = "flag" /\ task'[t].at = "recount" /\ task'[t].loose = TRUE
      /\ halted' = TRUE /\ UNCHANGED <<runs, crashes>>
  BY HaltTradingStep DEF HaltTrading, bounds
<1>2. t \notin Resolve
  BY <1>1 DEF TypeInv, OfKind
<1>3. FirstRun /\ Alternatives(t) => FirstBoot'
  BY <1>1, <1>2 DEF Alternatives, FirstBoot, BeforeFlags, FoundAny
<1> QED BY <1>1, <1>3, HaltKept

LEMMA HaltRecounted ==
    ASSUME TypeInv, HaltInv, NEW t \in Task, Recount(t)
    PROVE  HaltInv'
<1>1. /\ TypeInv' /\ Rest(t) /\ task[t].at = "recount" /\ task'[t].at = "set"
      /\ task'[t].loose = task[t].loose /\ task'[t].advice = task[t].advice
      /\ UNCHANGED <<runs, crashes, halted, status>>
  BY RecountStep DEF Recount, bounds, rows, risk
<1>2. Flagged' = Flagged /\ (FoundAny(t)' <=> FoundAny(t))
  BY <1>1 DEF Flagged, FoundAny, Advised
<1>3. FirstRun /\ Alternatives(t) => FirstBoot'
  BY <1>1, <1>2 DEF Alternatives, FirstRun, FirstBoot, BeforeFlags, At
<1> QED BY <1>1, <1>3, HaltKept

LEMMA HaltSet ==
    ASSUME TypeInv, HaltInv, NEW t \in Task, SetCount(t)
    PROVE  HaltInv'
<1>1. /\ TypeInv' /\ Rest(t) /\ task[t].at = "set" /\ task'[t].at = "idle"
      /\ UNCHANGED <<runs, crashes, status>> /\ halted' = (halted /\ (t = "boot" => FoundAny(t)))
  BY SetCountStep DEF SetCount, bounds, rows
<1>2. Flagged' = Flagged
  BY <1>1 DEF Flagged
<1>3. FirstRun /\ Alternatives(t) => FirstBoot'
  BY <1>1, <1>2, BootIsNoOther DEF Alternatives, FirstRun, FirstBoot, BeforeFlags, At
<1> QED BY <1>1, <1>3, HaltKept

LEMMA HaltGivenUp ==
    ASSUME TypeInv, HaltInv, NEW t \in Task, QueryFails(t)
    PROVE  HaltInv'
<1>1. /\ TypeInv' /\ Rest(t) /\ task[t].at \in {"orders", "recount", "write", "remaining"} /\ task'[t].at = "idle"
      /\ UNCHANGED <<runs, crashes, status>> /\ halted' = (halted \/ (t = "boot" /\ CountedRows # {}))
  BY QueryFailsStep DEF QueryFails, rows
<1>2. Flagged' = Flagged /\ (t \notin Resolve => task[t].at \in {"orders", "recount"})
  BY <1>1 DEF Flagged, TypeInv, OfKind
<1>3. FirstRun /\ Alternatives(t) => FirstBoot'
  BY <1>1, <1>2, BootIsNoOther DEF Alternatives, FirstRun, FirstBoot, BeforeFlags, At
<1> QED BY <1>1, <1>3, HaltKept

LEMMA HaltResolved ==
    ASSUME TypeInv, HaltInv, NEW t \in Task, WriteResolution(t)
    PROVE  HaltInv'
<1>1. /\ TypeInv' /\ Rest(t) /\ task[t].at = "write" /\ task'[t].at \in {"release", "remaining"}
      /\ UNCHANGED <<runs, crashes, halted>>
      /\ \A q \in Position : status'[q] \in {status[q], "OPEN", "CLOSED"}
  BY WriteResolutionStep DEF WriteResolution, bounds, risk
<1>2. Flagged' \subseteq Flagged /\ t \in Resolve
  BY <1>1 DEF Flagged, TypeInv, OfKind
<1>3. FirstRun /\ Alternatives(t) => FirstBoot'
  BY <1>1, <1>2, BootIsNoOther DEF Alternatives, FirstRun, FirstBoot, BeforeFlags, At
<1> QED BY <1>1, <1>3, HaltKept

LEMMA HaltReleased ==
    ASSUME TypeInv, HaltInv, NEW t \in Task, ReleasePosition(t)
    PROVE  HaltInv'
<1>1. /\ TypeInv' /\ Rest(t) /\ task[t].at = "release" /\ task'[t].at = "remaining"
      /\ UNCHANGED <<runs, crashes, halted, status>>
  BY ReleaseStep DEF ReleasePosition, bounds, rows
<1>2. Flagged' = Flagged /\ t \in Resolve
  BY <1>1 DEF Flagged, TypeInv, OfKind
<1>3. FirstRun /\ Alternatives(t) => FirstBoot'
  BY <1>1, <1>2, BootIsNoOther DEF Alternatives, FirstRun, FirstBoot, BeforeFlags, At
<1> QED BY <1>1, <1>3, HaltKept

LEMMA HaltResumed ==
    ASSUME TypeInv, HaltInv, NEW t \in Task, ResumeWhenNoneRemain(t)
    PROVE  HaltInv'
<1>1. /\ TypeInv' /\ Rest(t) /\ task[t].at = "remaining" /\ task'[t].at = "recount"
      /\ UNCHANGED <<runs, crashes, status>> /\ halted' = (halted /\ Flagged # {})
  BY ResumeStep DEF ResumeWhenNoneRemain, NoneFlagged, bounds, rows
<1>2. Flagged' = Flagged /\ t \in Resolve
  BY <1>1 DEF Flagged, TypeInv, OfKind
<1>3. FirstRun /\ Alternatives(t) => FirstBoot'
  BY <1>1, <1>2, BootIsNoOther DEF Alternatives, FirstRun, FirstBoot, BeforeFlags, At
<1> QED BY <1>1, <1>3, HaltKept

(* The first run is the boot's.                                            *)
LEMMA HaltStarted ==
    ASSUME TypeInv, HaltInv, NEW t \in Task, Start(t)
    PROVE  HaltInv'
<1>1. /\ Rest(t) /\ task'[t].at = "orders" /\ runs' = runs + 1 /\ UNCHANGED <<crashes, status>>
      /\ t = "boot" \/ (t \in Manual /\ At("boot", "idle"))
  BY StartStep DEF Start, rows
<1>2. Flagged' = Flagged /\ runs \in Nat
  BY <1>1 DEF Flagged, TypeInv, RowTypes
<1> SUFFICES ASSUME crashes = 0
             PROVE  (runs' = 0 => FALSE) /\ (runs' = 1 => FirstRun')
  BY <1>1 DEF HaltInv
<1>3. runs' # 0 /\ (runs' = 1 => runs = 0)
  BY <1>1, <1>2
<1>4. ASSUME runs = 0 PROVE FirstRun'
  <2>1. At("boot", "start") /\ Flagged = {} /\ \A u \in Task \ {"boot"} : At(u, "idle")
    BY <1>4 DEF HaltInv
  <2>2. t = "boot"
    BY <1>1, <2>1 DEF At
  <2>3. task'["boot"].at = "orders" /\ \A u \in Task \ {"boot"} : At(u, "idle")'
    BY <1>1, <2>1, <2>2 DEF Rest, At
  <2>4. FirstBoot'
    BY <1>2, <2>1, <2>3 DEF FirstBoot
  <2> QED BY <2>3, <2>4, BootIsNoOther DEF FirstRun, At, Task
<1> QED BY <1>3, <1>4

(* A resolution begins after it.                                           *)
LEMMA HaltBegun ==
    ASSUME TypeInv, HaltInv, NEW t \in Task, NEW p \in Position, BeginResolve(t, p)
    PROVE  HaltInv'
<1>1. /\ Rest(t) /\ t \in Resolve /\ At("boot", "idle")
      /\ UNCHANGED <<runs, crashes, halted, status>>
  BY BeginResolveStep DEF BeginResolve, rows, risk
<1>2. Flagged' = Flagged /\ task'["boot"] = task["boot"] /\ \A m \in Manual : task'[m] = task[m]
  BY <1>1, ReconciliationConstants DEF Flagged, Rest, Task
<1> SUFFICES ASSUME crashes = 0
             PROVE  (runs = 0 => FALSE) /\ (runs = 1 => FirstRun')
  BY <1>1 DEF HaltInv
<1>3. runs # 0
  BY <1>1 DEF HaltInv, At
<1>4. ASSUME runs = 1 PROVE FirstRun'
  <2>1. FirstRun
    BY <1>4 DEF HaltInv
  <2>2. FirstBoot'
    BY <1>1, <1>2, <2>1 DEF FirstRun, FirstBoot, BeforeFlags, At
  <2> QED BY <1>1, <1>2, <2>1, <2>2 DEF FirstRun, At, Busy
<1> QED BY <1>3, <1>4

LEMMA HaltUntouched ==
    ASSUME HaltInv, UNCHANGED <<rows, risk, task, bounds, history>>
    PROVE  HaltInv'
BY DEF HaltInv, FirstRun, FirstBoot, Flagged, FoundAny, Advised, At, Busy, rows, risk, bounds, history

-----------------------------------------------------------------------------
(* The invariants are inductive.                                           *)

(* Steps between orders and positions. *)
LEMMA CheckingSteps ==
    ASSUME RecInv, NEW t \in Task,
           \/ \E p \in Position, l \in Leg : AskOrder(t, p, l)
           \/ Store(t) \/ LinkOrder(t) \/ OrderWriteFails(t) \/ OverallTimeout(t) \/ ReadPositions(t)
           \/ \E p \in Position : CheckPosition(t, p)
    PROVE  RecInv'
<1> USE DEF rows, bounds, history, RecInv
<1>1. /\ TypeInv' /\ Rest(t) /\ task[t].at \in BeforeFlags /\ task'[t].at \in BeforeFlags
      /\ \A p \in Position : status'[p] \in {status[p], "OPEN"}
      /\ UNCHANGED <<runs, crashes, overlap>>
  <2>1. CASE \E p \in Position, l \in Leg : AskOrder(t, p, l)
    BY <2>1, AskOrderStep, ZenonT(60) DEF AskOrder, BeforeFlags
  <2>2. CASE Store(t)
    BY <2>2, StoreStep DEF Store, BeforeFlags
  <2>3. CASE LinkOrder(t)
    <3>1. TypeInv' /\ Rest(t) /\ task[t].at = "link" /\ task'[t].at = "orders" /\ UNCHANGED <<runs, crashes, overlap>>
      BY <2>3, LinkOrderStep DEF LinkOrder
    <3>2. \A p \in Position : status'[p] \in {status[p], "OPEN"}
      BY <2>3 DEF LinkOrder, TypeInv, RowTypes
    <3> QED BY <3>1, <3>2 DEF BeforeFlags
  <2>4. CASE OrderWriteFails(t)
    BY <2>4, OrderWriteFailsStep DEF OrderWriteFails, BeforeFlags
  <2>5. CASE OverallTimeout(t)
    BY <2>5, OverallTimeoutStep, ZenonT(60) DEF OverallTimeout, BeforeFlags
  <2>6. CASE ReadPositions(t)
    BY <2>6, ReadPositionsStep, ZenonT(60) DEF ReadPositions, BeforeFlags
  <2>7. CASE \E p \in Position : CheckPosition(t, p)
    BY <2>7, CheckPositionStep, ZenonT(60) DEF CheckPosition, BeforeFlags
  <2> QED BY <2>1, <2>2, <2>3, <2>4, <2>5, <2>6, <2>7, SMTT(30)
<1>2. CountInv'
  BY <1>1, CountKept DEF BeforeFlags, Busy, At
<1>3. HaltInv'
  <2>1. Flagged' \subseteq Flagged
    BY <1>1 DEF Flagged
  <2> QED BY <1>1, <2>1, HaltBeforeFlags
<1>4. LinkInv'
  <2>1. CASE \E p \in Position, l \in Leg : AskOrder(t, p, l)
    BY <1>1, <2>1, AskOrderStep, LinkElsewhere, ZenonT(60) DEF AskOrder, ExposedRow
  <2>2. CASE OverallTimeout(t)
    BY <1>1, <2>2, OverallTimeoutStep, LinkElsewhere DEF OverallTimeout, ExposedRow
  <2>3. CASE ReadPositions(t)
    BY <1>1, <2>3, ReadPositionsStep, LinkElsewhere, ZenonT(60) DEF ReadPositions, ExposedRow
  <2>4. CASE \E p \in Position : CheckPosition(t, p)
    BY <1>1, <2>4, CheckPositionStep, LinkElsewhere, ZenonT(60) DEF CheckPosition, ExposedRow
  <2> QED BY <2>1, <2>2, <2>3, <2>4, LinkStored, LinkLinked, LinkLost
<1> QED BY <1>1, <1>2, <1>3, <1>4, SMTT(30)

(* The rest of a call. *)
LEMMA ClosingSteps ==
    ASSUME RecInv, NEW t \in Task,
           \/ Judge(t) \/ \E p \in Position : Flag(t, p)
           \/ HaltTrading(t) \/ Recount(t) \/ SetCount(t) \/ QueryFails(t)
           \/ WriteResolution(t) \/ ReleasePosition(t) \/ ResumeWhenNoneRemain(t)
    PROVE  RecInv'
<1> USE DEF rows, bounds, history, RecInv
<1>1. CASE Judge(t)
  <2>1. TypeInv' /\ Rest(t) /\ task[t].at \in {"orders", "positions"} /\ task'[t].at \in {"flag", "recount"}
    BY <1>1, JudgeStep
  <2>2. UNCHANGED <<status, order, linked, torn, overlap>>
    BY <1>1 DEF Judge
  <2> QED BY <1>1, <2>1, <2>2, CountKept, LinkElsewhere, HaltJudged DEF Busy, At, ExposedRow
<1>2. CASE \E p \in Position : Flag(t, p)
  <2> PICK p \in Position : Flag(t, p)
    BY <1>2
  <2>1. TypeInv' /\ Rest(t) /\ task[t].at = "flag" /\ task'[t].at = "flag"
    BY FlagStep
  <2>2. UNCHANGED <<order, linked, torn, overlap>> /\ \A q \in Position : ExposedRow(q)' => ExposedRow(q)
    BY DEF Flag, ExposedRow, TypeInv, RowTypes
  <2> QED BY <2>1, <2>2, CountKept, LinkElsewhere, HaltFlagged DEF Busy, At
<1>3. CASE HaltTrading(t)
  <2>1. TypeInv' /\ Rest(t) /\ task[t].at = "flag" /\ task'[t].at = "recount"
    BY <1>3, HaltTradingStep
  <2>2. UNCHANGED <<status, order, linked, torn, overlap>>
    BY <1>3 DEF HaltTrading
  <2> QED BY <1>3, <2>1, <2>2, CountKept, LinkElsewhere, HaltHalted DEF Busy, At, ExposedRow
<1>4. CASE Recount(t)
  <2>1. TypeInv' /\ Rest(t) /\ task[t].at = "recount"
    BY <1>4, RecountStep
  <2>2. UNCHANGED <<status, order, linked, torn>>
    BY <1>4 DEF Recount
  <2> QED BY <1>4, <2>1, <2>2, CountRecounted, LinkElsewhere, HaltRecounted DEF ExposedRow
<1>5. CASE SetCount(t)
  <2>1. TypeInv' /\ Rest(t) /\ task[t].at = "set"
    BY <1>5, SetCountStep
  <2>2. UNCHANGED <<status, order, linked, torn>>
    BY <1>5 DEF SetCount
  <2> QED BY <1>5, <2>1, <2>2, CountSet, LinkElsewhere, HaltSet DEF ExposedRow
<1>6. CASE QueryFails(t)
  <2>1. TypeInv' /\ Rest(t) /\ task[t].at # "link"
    BY <1>6, QueryFailsStep
  <2>2. UNCHANGED <<status, order, linked, torn>>
    BY <1>6 DEF QueryFails
  <2> QED BY <1>6, <2>1, <2>2, CountGivenUp, LinkElsewhere, HaltGivenUp DEF ExposedRow
<1>7. CASE WriteResolution(t)
  <2>1. /\ TypeInv' /\ Rest(t) /\ task[t].at = "write" /\ task'[t].at \in {"release", "remaining"}
        /\ \A q \in Position : status'[q] \in {status[q], "OPEN", "CLOSED"}
    BY <1>7, WriteResolutionStep
  <2>2. UNCHANGED <<order, linked, torn, overlap>>
    BY <1>7 DEF WriteResolution
  <2> QED BY <1>7, <2>1, <2>2, CountKept, LinkElsewhere, HaltResolved DEF Busy, At, ExposedRow
<1>8. CASE ResumeWhenNoneRemain(t)
  <2>1. TypeInv' /\ Rest(t) /\ task[t].at = "remaining" /\ task'[t].at = "recount"
    BY <1>8, ResumeStep
  <2>2. UNCHANGED <<status, order, linked, torn, overlap>>
    BY <1>8 DEF ResumeWhenNoneRemain
  <2> QED BY <1>8, <2>1, <2>2, CountKept, LinkElsewhere, HaltResumed DEF Busy, At, ExposedRow
<1>9. CASE ReleasePosition(t)
  <2>1. TypeInv' /\ Rest(t) /\ task[t].at = "release" /\ task'[t].at = "remaining"
    BY <1>9, ReleaseStep
  <2>2. UNCHANGED <<status, order, linked, torn, overlap>>
    BY <1>9 DEF ReleasePosition
  <2> QED BY <1>9, <2>1, <2>2, CountKept, LinkElsewhere, HaltReleased DEF Busy, At, ExposedRow
<1> QED BY <1>1, <1>2, <1>3, <1>4, <1>5, <1>6, <1>7, <1>8, <1>9

LEMMA BeginningSteps ==
    ASSUME RecInv, NEW t \in Task, Start(t) \/ \E p \in Position : BeginResolve(t, p)
    PROVE  RecInv'
<1> USE DEF rows, RecInv
<1>1. CASE Start(t)
  <2>1. TypeInv' /\ Rest(t) /\ task'[t].at = "orders" /\ Begins(t) /\ task[t].at # "link"
    BY <1>1, StartStep DEF Start, At
  <2>2. UNCHANGED <<status, order, linked, torn>>
    BY <1>1 DEF Start, Begins
  <2> QED BY <1>1, <2>1, <2>2, CountBegun, LinkElsewhere, HaltStarted DEF ExposedRow
<1>2. CASE \E p \in Position : BeginResolve(t, p)
  <2> PICK p \in Position : BeginResolve(t, p)
    BY <1>2
  <2>1. TypeInv' /\ Rest(t) /\ task[t].at = "idle" /\ task'[t].at = "write" /\ Begins(t)
    BY BeginResolveStep DEF BeginResolve
  <2>2. UNCHANGED <<status, order, linked, torn>>
    BY DEF BeginResolve, Begins
  <2> QED BY <2>1, <2>2, CountBegun, LinkElsewhere, HaltBegun DEF ExposedRow
<1> QED BY <1>1, <1>2

LEMMA RecInvStep == RecInv /\ [Next]_vars => RecInv'
<1> SUFFICES ASSUME RecInv, [Next]_vars PROVE RecInv'
  OBVIOUS
<1>1. CASE UNCHANGED <<rows, risk, task, bounds, history>>
  BY <1>1, UntouchedTypes, CountUntouched, LinkUntouched, HaltUntouched DEF RecInv
<1>2. CASE \E p \in Position, l \in Leg : VenueMoves(p, l)
  BY <1>1, <1>2 DEF VenueMoves
<1>3. CASE UNCHANGED vars
  BY <1>1, <1>3 DEF vars
<1>4. CASE Crash
  <2>1. HaltInv'
    <3>1. crashes' # 0
      BY <1>4 DEF Crash, RecInv, TypeInv, RowTypes
    <3> QED BY <3>1 DEF HaltInv
  <2> QED BY <1>4, <2>1, CrashTypes, CountCrashed, LinkCrashed DEF RecInv
<1>5. ASSUME NEW t \in Task,
             \/ Start(t) \/ OverallTimeout(t) \/ OrderWriteFails(t) \/ QueryFails(t)
             \/ \E p \in Position : BeginResolve(t, p)
             \/ RunStep(t)
      PROVE  RecInv'
  BY <1>5, CheckingSteps, ClosingSteps, BeginningSteps DEF RunStep
<1> QED BY <1>2, <1>3, <1>4, <1>5 DEF Next

LEMMA InitTasks ==
    ASSUME Init
    PROVE  /\ task \in [Task -> TaskState]
           /\ task["boot"].at = "start" /\ \A t \in Task \ {"boot"} : task[t].at = "idle"
<1> DEFINE fresh(t) == [Idle EXCEPT !.at = IF t = "boot" THEN "start" ELSE "idle"]
<1>1. task = [t \in Task |-> fresh(t)]
  BY DEF Init
<1>2. \A t \in Task : fresh(t) \in TaskState /\ fresh(t).at = IF t = "boot" THEN "start" ELSE "idle"
  BY IdleTyped DEF TaskState, Place
<1>3. "boot" \in Task
  BY DEF Task
<1> HIDE DEF fresh
<1> QED BY <1>1, <1>2, <1>3

LEMMA InitRecInv == Init => RecInv
<1> SUFFICES ASSUME Init PROVE RecInv
  OBVIOUS
<1>1. PICK kind \in [Position -> Kinds], gone \in [Position -> {{}, Leg}] :
         /\ status = [p \in Position |-> kind[p].status]
         /\ linked = [p \in Position |->
                        IF kind[p].status = "SINGLE_LEG_EXPOSED" THEN {"kalshi"} ELSE Leg]
         /\ order = [p \in Position |-> [l \in Leg |->
                        IF l = "polymarket" THEN kind[p].missing ELSE kind[p].other]]
  BY DEF Init
<1>2. \A p \in Position : /\ status[p] \in Counted
                          /\ status[p] = "SINGLE_LEG_EXPOSED" =>
                                linked[p] = {"kalshi"} /\ order[p]["polymarket"] \in {"PENDING", "none"}
                          /\ kind[p].missing \in OrderStatus /\ kind[p].other \in OrderStatus
  <2>1. \A k \in Kinds : /\ k.status \in Counted
                         /\ k.status = "SINGLE_LEG_EXPOSED" => k.missing \in {"PENDING", "none"}
                         /\ k.missing \in OrderStatus /\ k.other \in OrderStatus
    BY DEF Kinds, Counted, OrderStatus
  <2>2. \A p \in Position : kind[p] \in Kinds
    OBVIOUS
  <2> QED BY <1>1, <2>1, <2>2
<1>3. /\ recommended = [p \in Position |-> "none"] /\ halted = FALSE /\ openCount = 0
      /\ runs = 0 /\ crashes = 0 /\ overlap = FALSE /\ stale = FALSE /\ torn = {}
  BY DEF Init
<1>4. Flagged = {}
  BY <1>2 DEF Flagged, Counted
<1>5. RowTypes
  <2>1. status \in [Position -> Status] /\ linked \in [Position -> SUBSET Leg]
    BY <1>1, <1>2 DEF Status
  <2>2. order \in [Position -> [Leg -> OrderStatus]]
    BY <1>1, <1>2
  <2>3. recommended \in [Position -> Verdict]
    BY <1>3 DEF Verdict
  <2> QED BY <1>3, <1>4, <2>1, <2>2, <2>3, NoneCounted DEF RowTypes
<1>6. TypeInv
  BY <1>5, InitTasks, BootIsNoOther DEF TypeInv, InHand, OfKind
<1>7. CountInv
  BY <1>3, InitTasks DEF CountInv, CountMatchesRows, Alone, At, Busy
<1>8. LinkInv
  BY <1>2 DEF LinkInv, ExposedRow
<1>9. HaltInv
  BY <1>3, <1>4, InitTasks DEF HaltInv, At
<1> QED BY <1>6, <1>7, <1>8, <1>9 DEF RecInv

-----------------------------------------------------------------------------
(* The theorems.                                                           *)

(* Calls, rows and counts stay well formed, and what relates them holds,   *)
(* whatever overlaps, fails or crashes.                                    *)
THEOREM ReconciliationInvariant == Spec => []RecInv
<1>1. Init => RecInv
  BY InitRecInv
<1>2. RecInv /\ [Next]_vars => RecInv'
  BY RecInvStep
<1> QED BY <1>1, <1>2, PTL DEF Spec

(* After calls that did not overlap the risk manager counts the positions  *)
(* that take a slot, and no leg found filled is left out of its position   *)
(* unless its second write was lost.                                       *)
THEOREM RowsAlwaysAgree == Spec => []RowsAgree
<1>1. TypeInv => TypeOK
  <2> SUFFICES ASSUME TypeInv PROVE TypeOK
    OBVIOUS
  <2>1. \A t \in Task : task[t].at \in Place /\ task[t].count \in 0..Cardinality(Position)
    BY DEF TypeInv, TaskState
  <2> QED BY <2>1 DEF TypeInv, RowTypes, TypeOK, Place, Verdict
<1>2. LinkInv => FilledLegsLinked
  BY DEF LinkInv, Linking, FilledLegsLinked, Quiet, At
<1>3. RecInv => RowsAgree
  BY <1>1, <1>2 DEF RecInv, CountInv, RowsAgree
<1> QED BY <1>3, ReconciliationInvariant, PTL

(* After the first run, what is flagged and not resolved keeps trading     *)
(* halted.                                                                 *)
THEOREM UnresolvedAlwaysKeepsHalt == Spec => []UnresolvedKeepsHalt
<1>1. RecInv => UnresolvedKeepsHalt
  BY BootIsNoOther DEF RecInv, HaltInv, FirstRun, FirstBoot, UnresolvedKeepsHalt, Quiet, At
<1> QED BY <1>1, ReconciliationInvariant, PTL
=============================================================================

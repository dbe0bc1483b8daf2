----------------------- MODULE EntryExecution_proofs -----------------------
(* Proofs about the entry of positions, for every set of opportunities,    *)
(* every cost of the legs, and any number of lost answers, failed inserts  *)
(* and crashes.                                                            *)
EXTENDS EntryExecution, TLAPS

USE DEF Platform, Other

-----------------------------------------------------------------------------
(* Sizing.                                                                 *)

(* The equalised size costs no more than the reservation it is cut from.   *)
LEMMA SizeWithinCapital ==
    ASSUME NEW c \in Nat, NEW u \in Nat \ {0}, NEW n \in 0..(c \div u)
    PROVE  n * u <= c /\ n <= c
<1>1. (c \div u) * u <= c /\ c \div u \in Nat
  OBVIOUS
<1>2. n * u <= (c \div u) * u
  BY <1>1
<1>3. n <= n * u
  OBVIOUS
<1> QED
  BY <1>1, <1>2, <1>3

(* A minimum fill of something is something.                               *)
LEMMA MinFillPositive ==
    ASSUME NEW n \in Nat \ {0}
    PROVE  MinFillSize(n) \in Nat /\ MinFillSize(n) > 0
<1>1. MinFillPercent \in 1..100
  BY EntryConstants
<1>2. n * MinFillPercent \in Nat /\ n * MinFillPercent >= 1
  BY <1>1
<1> QED
  BY <1>2 DEF MinFillSize

LEMMA CostsPositive == KalshiCost \in Nat /\ PolymarketCost \in Nat /\ UnitCost \in Nat \ {0}
BY EntryConstants DEF UnitCost

(* Whatever size the gates let through is positive and covered.            *)
LEMMA GatesSize ==
    ASSUME TypeOK, NEW o \in Opportunity, IdealCount(o) > 0,
           NEW n \in MinFillSize(IdealCount(o))..IdealCount(o)
    PROVE  n \in 1..MaxReserved /\ n * UnitCost <= budget[o].capital
<1>1. budget[o].capital \in 0..MaxReserved /\ MaxReserved \in Nat
  BY EntryConstants DEF TypeOK
<1>2. IdealCount(o) \in Nat \ {0}
  BY <1>1, CostsPositive DEF IdealCount
<1>3. MinFillSize(IdealCount(o)) \in Nat /\ MinFillSize(IdealCount(o)) > 0
  BY <1>2, MinFillPositive
<1>4. n \in 0..(budget[o].capital \div UnitCost)
  BY <1>2, <1>3 DEF IdealCount
<1>5. n * UnitCost <= budget[o].capital /\ n <= budget[o].capital
  BY <1>1, <1>4, CostsPositive, SizeWithinCapital
<1> QED
  BY <1>1, <1>2, <1>3, <1>5

-----------------------------------------------------------------------------
(* The inductive invariant, one opportunity at a time.                     *)

Unfilled(o) == \A p \in Platform : ~Filled(o, p)
OnlyPrimary(o) == Filled(o, primary[o]) /\ ~Filled(o, Other(primary[o]))
BothFilled(o) == \A p \in Platform : Filled(o, p)

(* Orders are for the size that was cut from the reservation, so what is   *)
(* filled never costs more than that.                                      *)
Covered(o) ==
    /\ stage[o] = "queued" => size[o] = 0
    /\ stage[o] \in {"queued", "gates"} => told[o] = [p \in Platform |-> Unanswered]
    /\ size[o] * UnitCost <= budget[o].capital
    /\ \A p \in Platform : told[o][p].quantity <= size[o]

(* What the process has heard, and the position row, at each stage.        *)
Booked(o) == o \notin spoiled =>
    /\ stage[o] \in {"queued", "gates", "primary", "release"} =>
            Unfilled(o) /\ position[o] = "none"
    /\ stage[o] \in {"recordPrimary", "secondary", "recordPending", "expose"} =>
            OnlyPrimary(o) /\ position[o] = "none"
    /\ stage[o] \in {"recordSecondary", "open"} => BothFilled(o) /\ position[o] = "none"
    /\ stage[o] = "announce" => OnlyPrimary(o) /\ position[o] = "SINGLE_LEG_EXPOSED"
    /\ stage[o] = "adjust" => BothFilled(o) /\ position[o] = "OPEN"
    /\ stage[o] \in {"commit", "over"} =>
            \/ OnlyPrimary(o) /\ position[o] = "SINGLE_LEG_EXPOSED"
            \/ BothFilled(o) /\ position[o] = "OPEN"
            \/ stage[o] = "over" /\ Unfilled(o) /\ position[o] = "none"
    /\ stage[o] = "queued" => budget[o].status = "none"
    /\ stage[o] = "over" => (budget[o].status = "committed" <=> ~Unfilled(o))

(* The second venue is reached after the primary order's row is stored,    *)
(* and what it does after it was heard leads to a row.                     *)
Traced(o) ==
    LET second == venue[o][Other(primary[o])] IN
    /\ stage[o] \in {"secondary", "recordPending", "recordSecondary"} =>
            order[o][primary[o]] = "FILLED"
    /\ second # Nothing => order[o][primary[o]] = "FILLED"
    /\ second # Nothing /\ o \notin spoiled \cup unheard =>
            stage[o] \in {"recordPending", "recordSecondary"} \/ order[o][Other(primary[o])] # "none"

Local(o) == Covered(o) /\ Booked(o) /\ Traced(o)
IInv == TypeOK /\ \A o \in Opportunity : Local(o)

-----------------------------------------------------------------------------
(* The type invariant. *)

LEMMA InitTyped == Init => TypeOK
BY EntryConstants DEF Init, TypeOK, Unanswered, Nothing, Stage

(* Where a step may lead.  A stage past the gates needs a positive size.   *)
LEMMA GotoTyped ==
    ASSUME TypeOK, NEW o \in Opportunity, NEW s \in Stage \ {"queued", "over"},
           stage[o] \in Stage \ {"queued", "over"}, Goto(o, s),
           size' \in [Opportunity -> 0..MaxReserved],
           \A q \in Opportunity : q # o => size'[q] = size[q],
           s \notin {"gates", "release"} => size'[o] > 0
    PROVE  /\ working' \in Opportunity \cup {NoOpportunity}
           /\ stage' \in [Opportunity -> Stage] /\ primary' \in [Opportunity -> Platform]
           /\ \A q \in Opportunity :
                /\ stage'[q] \in Stage \ {"queued", "over"} <=> working' = q
                /\ stage'[q] \notin {"queued", "gates", "release", "over"} => size'[q] > 0
BY DEF Goto, TypeOK, Stage

LEMMA FinishTyped ==
    ASSUME TypeOK, NEW o \in Opportunity, working = o, Finish(o), UNCHANGED size
    PROVE  /\ working' \in Opportunity \cup {NoOpportunity}
           /\ stage' \in [Opportunity -> Stage] /\ primary' \in [Opportunity -> Platform]
           /\ \A q \in Opportunity :
                /\ stage'[q] \in Stage \ {"queued", "over"} <=> working' = q
                /\ stage'[q] \notin {"queued", "gates", "release", "over"} => size'[q] > 0
BY EntryConstants DEF Finish, TypeOK, Stage

LEMMA ReserveTyped ==
    ASSUME TypeOK, NEW o \in Opportunity, Reserve(o)
    PROVE  TypeOK'
<1> DEFINE Granted(c) ==
             /\ budget' = [budget EXCEPT ![o] = [status |-> "held", capital |-> c]]
             /\ working' = o
             /\ stage' = [stage EXCEPT ![o] = "gates"]
           Refused == stage' = [stage EXCEPT ![o] = "over"] /\ UNCHANGED <<working, budget>>
<1>1. (\E c \in 1..MaxReserved : Granted(c)) \/ Refused
  BY DEF Reserve
<1>2. working = NoOpportunity /\ stage[o] = "queued" /\ UNCHANGED <<primary, size>>
  BY DEF Reserve
<1>3. budget' \in [Opportunity -> [status : {"none", "held", "committed", "released", "gone"},
                                   capital : 0..MaxReserved]]
  <2>1. CASE \E c \in 1..MaxReserved : Granted(c)
    <3>1. PICK c \in 1..MaxReserved : Granted(c)
      BY <2>1
    <3>2. c \in 0..MaxReserved
      BY EntryConstants
    <3> QED
      BY <3>1, <3>2 DEF TypeOK
  <2>2. CASE Refused
    BY <2>2 DEF TypeOK
  <2> QED
    BY <1>1, <2>1, <2>2
<1>4. \A q \in Opportunity : stage[q] \notin Stage \ {"queued", "over"}
  BY <1>2, EntryConstants DEF TypeOK
<1>5. /\ working' \in Opportunity \cup {NoOpportunity} /\ stage' \in [Opportunity -> Stage]
      /\ \A q \in Opportunity :
           /\ stage'[q] \in Stage \ {"queued", "over"} <=> working' = q
           /\ stage'[q] \notin {"queued", "gates", "release", "over"} => size'[q] > 0
  <2>1. CASE \E c \in 1..MaxReserved : Granted(c)
    BY <1>2, <1>4, <2>1 DEF TypeOK, Stage
  <2>2. CASE Refused
    BY <1>2, <1>4, <2>2, EntryConstants DEF TypeOK, Stage
  <2> QED
    BY <1>1, <2>1, <2>2
<1> QED
  BY <1>3, <1>5 DEF Reserve, TypeOK, rows, faults

LEMMA GatesTyped ==
    ASSUME TypeOK, NEW o \in Opportunity, Gates(o)
    PROVE  TypeOK'
<1> DEFINE Sized(n) == /\ IdealCount(o) > 0 /\ size' = [size EXCEPT ![o] = n]
                       /\ Goto(o, "primary")
<1>1. \/ \E n \in MinFillSize(IdealCount(o))..IdealCount(o) : Sized(n)
      \/ Goto(o, "release") /\ UNCHANGED size
  BY DEF Gates
<1>2. stage[o] \in Stage \ {"queued", "over"}
  BY DEF Gates, At, Stage
<1>3. /\ size' \in [Opportunity -> 0..MaxReserved]
      /\ working' \in Opportunity \cup {NoOpportunity}
      /\ stage' \in [Opportunity -> Stage] /\ primary' \in [Opportunity -> Platform]
      /\ \A q \in Opportunity :
           /\ stage'[q] \in Stage \ {"queued", "over"} <=> working' = q
           /\ stage'[q] \notin {"queued", "gates", "release", "over"} => size'[q] > 0
  <2>1. CASE \E n \in MinFillSize(IdealCount(o))..IdealCount(o) : Sized(n)
    <3>1. PICK n \in MinFillSize(IdealCount(o))..IdealCount(o) : Sized(n)
      BY <2>1
    <3>2. n \in 1..MaxReserved /\ n \in 0..MaxReserved
      BY <3>1, GatesSize, EntryConstants
    <3>3. size' \in [Opportunity -> 0..MaxReserved] /\ size'[o] > 0
      BY <3>1, <3>2, EntryConstants DEF TypeOK
    <3>4. \A q \in Opportunity : q # o => size'[q] = size[q]
      BY <3>1 DEF TypeOK
    <3> QED
      BY <1>2, <3>1, <3>3, <3>4, GotoTyped DEF Stage
  <2>2. CASE Goto(o, "release") /\ UNCHANGED size
    <3>1. size' \in [Opportunity -> 0..MaxReserved]
      BY <2>2 DEF TypeOK
    <3> QED
      BY <1>2, <2>2, <3>1, GotoTyped DEF Stage
  <2> QED
    BY <1>1, <2>1, <2>2
<1> QED
  BY <1>3 DEF Gates, TypeOK, rows, faults

(* The answer of a venue, and what reaches it.                             *)
LEMMA AnswerTyped ==
    ASSUME NEW n \in Nat, NEW a \in Answers(n), NEW held \in HeldBy(a, n)
    PROVE  /\ a.status \in {"filled", "rejected", "pending", "error"}
           /\ a.quantity \in 0..n /\ a.resting \in 0..n /\ held \in 0..n
           /\ a.status = "rejected" => held = 0 /\ a.resting = 0
BY DEF Answers, HeldBy

LEMMA ReachesTyped ==
    ASSUME TypeOK, NEW o \in Opportunity, NEW held \in Nat, NEW resting \in Nat,
           Reaches(o, held, resting)
    PROVE  venue' \in [Opportunity -> [Platform -> [held : Nat, resting : Nat]]]
<1>1. Leg(o) \in Platform
  BY DEF Leg, TypeOK
<1> QED
  BY <1>1 DEF Reaches, TypeOK

(* The effect of one answer a, after which the venue has filled held.       *)
Answered(o, a, held) ==
    LET silent == a.status = "error" /\ held + a.resting > 0 IN
    /\ silent => lost < MaxLost
    /\ lost' = IF silent THEN lost + 1 ELSE lost
    /\ unheard' = IF silent THEN unheard \cup {o} ELSE unheard
    /\ told' = [told EXCEPT ![o][Leg(o)] = [status |-> a.status, quantity |-> a.quantity]]
    /\ Reaches(o, held, a.resting)
    /\ Goto(o, NextAfter(o, a))

LEMMA SubmitTyped ==
    ASSUME TypeOK, NEW o \in Opportunity, Submit(o)
    PROVE  TypeOK'
<1>1. PICK a \in Answers(size[o]) : \E held \in HeldBy(a, size[o]) : Answered(o, a, held)
  BY DEF Submit, Answered
<1>a. PICK held \in HeldBy(a, size[o]) : Answered(o, a, held)
  BY <1>1
<1>2. size[o] \in Nat /\ MaxLost \in Nat /\ Leg(o) \in Platform
  BY EntryConstants DEF TypeOK, Leg
<1>3. /\ a.status \in {"filled", "rejected", "pending", "error"}
      /\ a.quantity \in Nat /\ a.resting \in Nat /\ held \in Nat
  BY <1>2, AnswerTyped
<1>4. told' \in [Opportunity -> [Platform ->
         [status : {"none", "filled", "rejected", "pending", "error"}, quantity : Nat]]]
  BY <1>a, <1>2, <1>3 DEF Answered, TypeOK
<1>5. venue' \in [Opportunity -> [Platform -> [held : Nat, resting : Nat]]]
  BY <1>a, <1>3, ReachesTyped DEF Answered
<1>6. lost' \in 0..MaxLost /\ unheard' \subseteq Opportunity
  BY <1>a, <1>2, <1>3 DEF Answered, TypeOK
<1>7. stage[o] \in Stage \ {"queued", "over"} /\ size[o] > 0
  BY DEF Submit, At, TypeOK, Stage
<1>8. NextAfter(o, a) \in Stage \ {"queued", "over"}
  BY DEF NextAfter, Stage
<1>9. UNCHANGED size
  BY DEF Submit
<1>10. /\ working' \in Opportunity \cup {NoOpportunity}
       /\ stage' \in [Opportunity -> Stage] /\ primary' \in [Opportunity -> Platform]
       /\ \A q \in Opportunity :
            /\ stage'[q] \in Stage \ {"queued", "over"} <=> working' = q
            /\ stage'[q] \notin {"queued", "gates", "release", "over"} => size'[q] > 0
  BY <1>a, <1>7, <1>8, <1>9, GotoTyped DEF Answered, TypeOK
<1> QED
  BY <1>4, <1>5, <1>6, <1>10 DEF Submit, TypeOK, rows

LEMMA ResubmitTyped ==
    ASSUME TypeOK, NEW o \in Opportunity, Resubmit(o)
    PROVE  TypeOK'
<1>1. size[o] \in Nat /\ MaxLost \in Nat
  BY EntryConstants DEF TypeOK
<1>2. venue' \in [Opportunity -> [Platform -> [held : Nat, resting : Nat]]]
  <2>1. PICK held \in 0..size[o] : Reaches(o, held, size[o] - held)
    BY DEF Resubmit
  <2> QED
    BY <1>1, <2>1, ReachesTyped
<1>3. lost' \in 0..MaxLost /\ unheard' \subseteq Opportunity
  BY <1>1 DEF Resubmit, TypeOK
<1> QED
  BY <1>2, <1>3 DEF Resubmit, TypeOK, rows, progress

(* An insert writes its row or fails, and nothing else happens to rows.     *)
LEMMA InsertOrderEffect ==
    ASSUME NEW o, NEW p, NEW status, NEW next, InsertOrder(o, p, status, next)
    PROVE  \/ /\ order' = [order EXCEPT ![o][p] = status] /\ position' = position
              /\ dbFailures' = dbFailures /\ spoiled' = spoiled /\ Goto(o, next)
           \/ /\ order' = order /\ position' = position
              /\ dbFailures < MaxDbFailures /\ dbFailures' = dbFailures + 1
              /\ spoiled' = spoiled \cup {o} /\ Goto(o, "release")
BY DEF InsertOrder, Insert, InsertFails, rows

LEMMA InsertPositionEffect ==
    ASSUME NEW o, NEW status, NEW next, InsertPosition(o, status, next)
    PROVE  \/ /\ position' = [position EXCEPT ![o] = status] /\ order' = order
              /\ dbFailures' = dbFailures /\ spoiled' = spoiled /\ Goto(o, next)
           \/ /\ order' = order /\ position' = position
              /\ dbFailures < MaxDbFailures /\ dbFailures' = dbFailures + 1
              /\ spoiled' = spoiled \cup {o} /\ Goto(o, "release")
BY DEF InsertPosition, Insert, InsertFails, rows

LEMMA InsertOrderTyped ==
    ASSUME TypeOK, NEW o \in Opportunity, NEW p \in Platform, NEW status \in {"PENDING", "FILLED"},
           NEW next, InsertOrder(o, p, status, next)
    PROVE  /\ order' \in [Opportunity -> [Platform -> {"none", "PENDING", "FILLED"}]]
           /\ UNCHANGED position
           /\ dbFailures' \in 0..MaxDbFailures /\ spoiled' \subseteq Opportunity
           /\ Goto(o, next) \/ Goto(o, "release")
<1>1. order' \in [Opportunity -> [Platform -> {"none", "PENDING", "FILLED"}]]
  <2>1. order \in [Opportunity -> [Platform -> {"none", "PENDING", "FILLED"}]]
    BY DEF TypeOK
  <2>2. order' = order \/ order' = [order EXCEPT ![o][p] = status]
    BY InsertOrderEffect
  <2> QED
    BY <2>1, <2>2
<1>2. dbFailures' \in 0..MaxDbFailures
  BY InsertOrderEffect, EntryConstants DEF TypeOK
<1>3. spoiled' \subseteq Opportunity
  BY InsertOrderEffect DEF TypeOK
<1> QED
  BY <1>1, <1>2, <1>3, InsertOrderEffect

LEMMA InsertPositionTyped ==
    ASSUME TypeOK, NEW o \in Opportunity, NEW status \in {"OPEN", "SINGLE_LEG_EXPOSED"},
           NEW next, InsertPosition(o, status, next)
    PROVE  /\ position' \in [Opportunity -> {"none", "OPEN", "SINGLE_LEG_EXPOSED"}]
           /\ UNCHANGED order
           /\ dbFailures' \in 0..MaxDbFailures /\ spoiled' \subseteq Opportunity
           /\ Goto(o, next) \/ Goto(o, "release")
<1>1. position' \in [Opportunity -> {"none", "OPEN", "SINGLE_LEG_EXPOSED"}]
  BY InsertPositionEffect DEF TypeOK
<1>2. dbFailures' \in 0..MaxDbFailures
  BY InsertPositionEffect, EntryConstants DEF TypeOK
<1>3. spoiled' \subseteq Opportunity
  BY InsertPositionEffect DEF TypeOK
<1> QED
  BY <1>1, <1>2, <1>3, InsertPositionEffect

LEMMA InsertTyped ==
    ASSUME TypeOK, NEW o \in Opportunity, Store(o)
    PROVE  /\ order' \in [Opportunity -> [Platform -> {"none", "PENDING", "FILLED"}]]
           /\ position' \in [Opportunity -> {"none", "OPEN", "SINGLE_LEG_EXPOSED"}]
           /\ dbFailures' \in 0..MaxDbFailures /\ spoiled' \subseteq Opportunity
           /\ \E s \in {"secondary", "expose", "open", "adjust", "commit", "announce", "release"} :
                Goto(o, s)
<1>1. primary[o] \in Platform /\ Other(primary[o]) \in Platform
  BY DEF TypeOK
<1>2. /\ order \in [Opportunity -> [Platform -> {"none", "PENDING", "FILLED"}]]
      /\ position \in [Opportunity -> {"none", "OPEN", "SINGLE_LEG_EXPOSED"}]
  BY DEF TypeOK
<1>3. CASE InsertOrder(o, primary[o], "FILLED", "secondary")
  BY <1>1, <1>2, <1>3, InsertOrderTyped
<1>4. CASE InsertOrder(o, Other(primary[o]), "PENDING", "expose")
  BY <1>1, <1>2, <1>4, InsertOrderTyped
<1>5. CASE InsertOrder(o, Other(primary[o]), "FILLED", "open")
  BY <1>1, <1>2, <1>5, InsertOrderTyped
<1>6. CASE InsertPosition(o, "OPEN", IF UsedCapital(o) < budget[o].capital THEN "adjust" ELSE "commit")
  BY <1>2, <1>6, InsertPositionTyped
<1>7. CASE InsertPosition(o, "SINGLE_LEG_EXPOSED", "announce")
  BY <1>2, <1>7, InsertPositionTyped
<1> QED
  BY <1>3, <1>4, <1>5, <1>6, <1>7 DEF Store

LEMMA StoreTyped ==
    ASSUME TypeOK, NEW o \in Opportunity, Store(o)
    PROVE  TypeOK'
<1>1. PICK s \in {"secondary", "expose", "open", "adjust", "commit", "announce", "release"} :
         Goto(o, s)
  BY InsertTyped
<1>2. stage[o] \in Stage \ {"queued", "over"} /\ s \in Stage \ {"queued", "over"} /\ size[o] > 0
  BY DEF Store, At, Stage, TypeOK
<1>3. UNCHANGED size
  BY DEF Store
<1>4. /\ working' \in Opportunity \cup {NoOpportunity}
      /\ stage' \in [Opportunity -> Stage] /\ primary' \in [Opportunity -> Platform]
      /\ \A q \in Opportunity :
           /\ stage'[q] \in Stage \ {"queued", "over"} <=> working' = q
           /\ stage'[q] \notin {"queued", "gates", "release", "over"} => size'[q] > 0
  BY <1>1, <1>2, <1>3, GotoTyped DEF TypeOK
<1> QED
  BY <1>3, <1>4, InsertTyped DEF Store, TypeOK

LEMMA AnnounceTyped ==
    ASSUME TypeOK, NEW o \in Opportunity, Announce(o)
    PROVE  TypeOK'
<1>1. stage[o] \in Stage \ {"queued", "over"} /\ size[o] > 0 /\ UNCHANGED size
  BY DEF Announce, At, Stage, TypeOK
<1>2. Goto(o, "commit") /\ "commit" \in Stage \ {"queued", "over"}
  BY DEF Announce, Stage
<1>3. /\ working' \in Opportunity \cup {NoOpportunity}
      /\ stage' \in [Opportunity -> Stage] /\ primary' \in [Opportunity -> Platform]
      /\ \A q \in Opportunity :
           /\ stage'[q] \in Stage \ {"queued", "over"} <=> working' = q
           /\ stage'[q] \notin {"queued", "gates", "release", "over"} => size'[q] > 0
  BY <1>1, <1>2, GotoTyped DEF TypeOK
<1> QED
  BY <1>1, <1>3 DEF Announce, TypeOK, rows, faults

(* What is given back was never more than what was held.                    *)
LEMMA AdjustTyped ==
    ASSUME TypeOK, NEW o \in Opportunity, Covered(o), AdjustReservation(o)
    PROVE  TypeOK'
<1>1. stage[o] \in Stage \ {"queued", "over"} /\ size[o] > 0 /\ UNCHANGED size
  BY DEF AdjustReservation, At, Stage, TypeOK
<1>2. Goto(o, "commit") /\ "commit" \in Stage \ {"queued", "over"}
  BY DEF AdjustReservation, Stage
<1>3. /\ working' \in Opportunity \cup {NoOpportunity}
      /\ stage' \in [Opportunity -> Stage] /\ primary' \in [Opportunity -> Platform]
      /\ \A q \in Opportunity :
           /\ stage'[q] \in Stage \ {"queued", "over"} <=> working' = q
           /\ stage'[q] \notin {"queued", "gates", "release", "over"} => size'[q] > 0
  BY <1>1, <1>2, GotoTyped DEF TypeOK
<1>4. UsedCapital(o) \in 0..MaxReserved
  <2>1. size[o] \in Nat /\ budget[o].capital \in 0..MaxReserved /\ MaxReserved \in Nat
    BY EntryConstants DEF TypeOK
  <2>2. size[o] * UnitCost \in Nat /\ size[o] * UnitCost <= budget[o].capital
    BY <2>1, CostsPositive DEF Covered
  <2> QED
    BY <2>1, <2>2 DEF UsedCapital
<1>5. budget' \in [Opportunity -> [status : {"none", "held", "committed", "released", "gone"},
                                  capital : 0..MaxReserved]]
  <2>1. budget' = [budget EXCEPT ![o].capital = UsedCapital(o)]
    BY DEF AdjustReservation
  <2>2. budget \in [Opportunity -> [status : {"none", "held", "committed", "released", "gone"},
                                    capital : 0..MaxReserved]]
    BY DEF TypeOK
  <2> QED
    BY <1>4, <2>1, <2>2
<1> QED
  BY <1>1, <1>3, <1>5 DEF AdjustReservation, TypeOK, rows, faults

LEMMA SettleTyped ==
    ASSUME TypeOK, NEW o \in Opportunity, Settle(o)
    PROVE  TypeOK'
<1>1. working = o /\ UNCHANGED size /\ Finish(o)
  BY DEF Settle, At
<1>2. /\ working' \in Opportunity \cup {NoOpportunity}
      /\ stage' \in [Opportunity -> Stage] /\ primary' \in [Opportunity -> Platform]
      /\ \A q \in Opportunity :
           /\ stage'[q] \in Stage \ {"queued", "over"} <=> working' = q
           /\ stage'[q] \notin {"queued", "gates", "release", "over"} => size'[q] > 0
  BY <1>1, FinishTyped
<1>3. budget' \in [Opportunity -> [status : {"none", "held", "committed", "released", "gone"},
                                  capital : 0..MaxReserved]]
  <2>1. Settled(o) \in {"none", "held", "committed", "released", "gone"}
    BY DEF Settled
  <2>2. budget' = [budget EXCEPT ![o].status = Settled(o)]
    BY DEF Settle
  <2>3. budget \in [Opportunity -> [status : {"none", "held", "committed", "released", "gone"},
                                    capital : 0..MaxReserved]]
    BY DEF TypeOK
  <2> QED
    BY <2>1, <2>2, <2>3
<1> QED
  BY <1>1, <1>2, <1>3 DEF Settle, TypeOK, rows, faults

LEMMA CrashTyped ==
    ASSUME TypeOK, NEW o \in Opportunity, Crash(o)
    PROVE  TypeOK'
<1>1. working = o /\ UNCHANGED size /\ Finish(o)
  BY DEF Crash
<1>2. /\ working' \in Opportunity \cup {NoOpportunity}
      /\ stage' \in [Opportunity -> Stage] /\ primary' \in [Opportunity -> Platform]
      /\ \A q \in Opportunity :
           /\ stage'[q] \in Stage \ {"queued", "over"} <=> working' = q
           /\ stage'[q] \notin {"queued", "gates", "release", "over"} => size'[q] > 0
  BY <1>1, FinishTyped
<1>3. budget' \in [Opportunity -> [status : {"none", "held", "committed", "released", "gone"},
                                  capital : 0..MaxReserved]]
  <2>1. budget' = [budget EXCEPT ![o].status = "gone"]
    BY DEF Crash
  <2>2. budget \in [Opportunity -> [status : {"none", "held", "committed", "released", "gone"},
                                    capital : 0..MaxReserved]]
    BY DEF TypeOK
  <2> QED
    BY <2>1, <2>2
<1>4. venue' \in [Opportunity -> [Platform -> [held : Nat, resting : Nat]]]
  <2>1. CASE stage[o] \in {"primary", "secondary"}
    <3>1. PICK held \in 0..size[o] : \E resting \in 0..size[o] :
             held + resting <= size[o] /\ Reaches(o, held, resting)
      BY <2>1 DEF Crash
    <3>2. PICK resting \in 0..size[o] : Reaches(o, held, resting)
      BY <3>1
    <3>3. held \in Nat /\ resting \in Nat
      BY DEF TypeOK
    <3> QED
      BY <3>2, <3>3, ReachesTyped
  <2>2. CASE stage[o] \notin {"primary", "secondary"}
    BY <2>2 DEF Crash, TypeOK
  <2> QED
    BY <2>1, <2>2
<1>5. crashes' \in 0..MaxCrashes /\ spoiled' \subseteq Opportunity
  BY EntryConstants DEF Crash, TypeOK
<1> QED
  BY <1>1, <1>2, <1>3, <1>4, <1>5 DEF Crash, TypeOK, rows

LEMMA WorldTyped ==
    ASSUME TypeOK, NEW o \in Opportunity,
           Relink \/ Remind(o) \/ \E p \in Platform : VenueFills(o, p)
    PROVE  TypeOK'
<1>1. CASE Relink
  BY <1>1 DEF Relink, TypeOK, progress, rows, faults
<1>2. CASE Remind(o)
  BY <1>2 DEF Remind, TypeOK, progress, rows, faults
<1>3. ASSUME NEW p \in Platform, VenueFills(o, p)
      PROVE  TypeOK'
  <2>1. venue' \in [Opportunity -> [Platform -> [held : Nat, resting : Nat]]]
    BY <1>3 DEF VenueFills, TypeOK
  <2> QED
    BY <1>3, <2>1 DEF VenueFills, TypeOK, progress, rows, faults
<1> QED
  BY <1>1, <1>2, <1>3

LEMMA StepTyped ==
    ASSUME TypeOK, NEW o \in Opportunity, Covered(o), Step(o)
    PROVE  TypeOK'
BY ReserveTyped, GatesTyped, SubmitTyped, ResubmitTyped, StoreTyped, AnnounceTyped,
   AdjustTyped, SettleTyped, CrashTyped, WorldTyped DEF Step

-----------------------------------------------------------------------------
(* A step of one opportunity leaves what is known of the others alone.      *)

Kept(q) ==
    /\ stage'[q] = stage[q] /\ primary'[q] = primary[q] /\ size'[q] = size[q]
    /\ budget'[q] = budget[q] /\ told'[q] = told[q] /\ order'[q] = order[q]
    /\ position'[q] = position[q] /\ venue'[q] = venue[q]
    /\ q \in spoiled' <=> q \in spoiled
    /\ q \in unheard' <=> q \in unheard

LEMMA KeptLocal ==
    ASSUME NEW q \in Opportunity, Local(q), Kept(q)
    PROVE  Local(q)'
<1>1. Covered(q)'
  BY DEF Kept, Local, Covered
<1>2. Booked(q)'
  BY DEF Kept, Local, Booked, Unfilled, OnlyPrimary, BothFilled, Filled
<1>3. Traced(q)'
  BY DEF Kept, Local, Traced
<1> QED
  BY <1>1, <1>2, <1>3 DEF Local

LEMMA OthersKept ==
    ASSUME TypeOK, NEW o \in Opportunity, NEW q \in Opportunity, q # o, Step(o)
    PROVE  Kept(q)
<1> USE DEF TypeOK, Kept
<1>1. CASE Reserve(o)
  BY <1>1 DEF Reserve, rows
<1>2. CASE Gates(o)
  BY <1>2 DEF Gates, Goto, rows
<1>3. CASE Submit(o)
  <2>1. PICK a \in Answers(size[o]) : \E held \in HeldBy(a, size[o]) : Answered(o, a, held)
    BY <1>3 DEF Submit, Answered
  <2>2. PICK held \in HeldBy(a, size[o]) : Answered(o, a, held)
    BY <2>1
  <2>3. UNCHANGED <<size, budget, order, position, spoiled>>
    BY <1>3 DEF Submit, rows
  <2>4. venue'[q] = venue[q] /\ told'[q] = told[q] /\ (q \in unheard' <=> q \in unheard)
    BY <2>2 DEF Answered, Reaches
  <2>5. stage'[q] = stage[q] /\ UNCHANGED primary
    BY <2>2 DEF Answered, Goto
  <2> QED
    BY <2>3, <2>4, <2>5
<1>4. CASE Resubmit(o)
  BY <1>4 DEF Resubmit, Reaches, rows, progress
<1>5. CASE Store(o)
  <2>1. UNCHANGED <<size, budget, told, venue, unheard>>
    BY <1>5 DEF Store
  <2>2. \E s : Goto(o, s)
    BY <1>5, InsertTyped
  <2>3. order'[q] = order[q] /\ position'[q] = position[q] /\ (q \in spoiled' <=> q \in spoiled)
    <3>1. CASE \E p \in Platform : \E status, next : InsertOrder(o, p, status, next)
      <4>1. \/ \E p \in Platform : \E status : order' = [order EXCEPT ![o][p] = status]
            \/ order' = order
        BY <3>1, InsertOrderEffect
      <4>2. position' = position /\ (spoiled' = spoiled \/ spoiled' = spoiled \cup {o})
        BY <3>1, InsertOrderEffect
      <4> QED
        BY <4>1, <4>2
    <3>2. CASE \E status, next : InsertPosition(o, status, next)
      <4>1. (\E status : position' = [position EXCEPT ![o] = status]) \/ position' = position
        BY <3>2, InsertPositionEffect
      <4>2. order' = order /\ (spoiled' = spoiled \/ spoiled' = spoiled \cup {o})
        BY <3>2, InsertPositionEffect
      <4> QED
        BY <4>1, <4>2
    <3> QED
      BY <1>5, <3>1, <3>2 DEF Store
  <2> QED
    BY <2>1, <2>2, <2>3 DEF Goto
<1>6. CASE Announce(o)
  BY <1>6 DEF Announce, Goto, rows, faults
<1>7. CASE AdjustReservation(o)
  BY <1>7 DEF AdjustReservation, Goto, rows, faults
<1>8. CASE Settle(o)
  BY <1>8 DEF Settle, Finish, rows, faults
<1>9. CASE Crash(o)
  BY <1>9 DEF Crash, Finish, Reaches, rows
<1>10. CASE Remind(o)
  BY <1>10 DEF Remind, progress, rows, faults
<1>11. ASSUME NEW p \in Platform, VenueFills(o, p)
       PROVE  Kept(q)
  BY <1>11 DEF VenueFills, progress, rows, faults
<1> QED
  BY <1>1, <1>2, <1>3, <1>4, <1>5, <1>6, <1>7, <1>8, <1>9, <1>10, <1>11 DEF Step

-----------------------------------------------------------------------------
(* Each step preserves the invariant of its own opportunity.                *)

LEMMA ReserveLocal ==
    ASSUME TypeOK, NEW o \in Opportunity, Local(o), Reserve(o)
    PROVE  Local(o)'
<1> USE DEF TypeOK, Local
<1>1. UNCHANGED <<primary, size, told, order, position, venue, unheard, spoiled>> /\ stage[o] = "queued"
  BY DEF Reserve, rows
<1>2. \/ stage'[o] = "gates" /\ budget'[o].capital \in Nat /\ budget'[o].status = "held"
      \/ stage'[o] = "over" /\ budget' = budget
  BY DEF Reserve
<1>3. Covered(o)'
  BY <1>1, <1>2, CostsPositive DEF Covered
<1>4. Booked(o)'
  BY <1>1, <1>2 DEF Booked, Unfilled, OnlyPrimary, BothFilled, Filled
<1>5. Traced(o)'
  BY <1>1, <1>2 DEF Traced
<1> QED
  BY <1>3, <1>4, <1>5

LEMMA GatesLocal ==
    ASSUME TypeOK, NEW o \in Opportunity, Local(o), Gates(o)
    PROVE  Local(o)'
<1> USE DEF TypeOK, Local
<1>1. /\ UNCHANGED <<primary, budget, told, order, position, venue, unheard, spoiled>>
      /\ stage[o] = "gates"
  BY DEF Gates, At, Goto, rows
<1>2. \/ stage'[o] = "primary" /\ size'[o] * UnitCost <= budget[o].capital /\ size'[o] \in Nat
      \/ stage'[o] = "release" /\ size' = size
  BY GatesSize DEF Gates, Goto
<1>3. Covered(o)'
  BY <1>1, <1>2 DEF Covered, Unanswered
<1>4. Booked(o)'
  BY <1>1, <1>2 DEF Booked, Unfilled, OnlyPrimary, BothFilled, Filled
<1>5. Traced(o)'
  BY <1>1, <1>2 DEF Traced
<1> QED
  BY <1>3, <1>4, <1>5

LEMMA SubmitLocal ==
    ASSUME TypeOK, NEW o \in Opportunity, Local(o), Submit(o)
    PROVE  Local(o)'
<1> USE DEF TypeOK, Local
<1>1. PICK a \in Answers(size[o]) : \E held \in HeldBy(a, size[o]) : Answered(o, a, held)
  BY DEF Submit, Answered
<1>2. PICK held \in HeldBy(a, size[o]) : Answered(o, a, held)
  BY <1>1
<1>3. /\ a.status \in {"filled", "rejected", "pending", "error"}
      /\ a.quantity \in 0..size[o] /\ a.resting \in Nat /\ held \in Nat
      /\ a.status = "rejected" => held = 0 /\ a.resting = 0
  BY AnswerTyped
<1>4. UNCHANGED <<primary, size, budget, order, position, spoiled>> /\ stage[o] \in {"primary", "secondary"}
  BY <1>2 DEF Submit, Answered, Goto, At, rows
<1>5. /\ Leg(o) \in Platform
      /\ told'[o] = [told[o] EXCEPT ![Leg(o)] = [status |-> a.status, quantity |-> a.quantity]]
      /\ venue'[o] = [venue[o] EXCEPT ![Leg(o)] =
                         [held |-> @.held + held, resting |-> @.resting + a.resting]]
  BY <1>2 DEF Answered, Reaches, Leg
<1>6. stage'[o] = NextAfter(o, a)
  BY <1>2 DEF Answered, Goto
<1>7. o \notin unheard' => o \notin unheard /\ (a.status = "error" => held = 0 /\ a.resting = 0)
  BY <1>2, <1>3 DEF Answered
<1>8. CASE stage[o] = "primary"
  <2>1. Leg(o) = primary[o] /\ stage'[o] = IF a.status = "filled" THEN "recordPrimary" ELSE "release"
    BY <1>6, <1>8 DEF Leg, NextAfter
  <2>2. /\ told'[o][primary[o]] = [status |-> a.status, quantity |-> a.quantity]
        /\ told'[o][Other(primary[o])] = told[o][Other(primary[o])]
        /\ venue'[o][Other(primary[o])] = venue[o][Other(primary[o])]
    BY <1>5, <2>1
  <2>3. Covered(o)'
    BY <1>3, <1>4, <2>1, <2>2 DEF Covered
  <2>4. Booked(o)'
    BY <1>4, <1>8, <2>1, <2>2 DEF Booked, Unfilled, OnlyPrimary, BothFilled, Filled
  <2>5. Traced(o)'
    BY <1>4, <1>7, <1>8, <2>1, <2>2 DEF Traced
  <2> QED
    BY <2>3, <2>4, <2>5
<1>9. CASE stage[o] = "secondary"
  <2>1. /\ Leg(o) = Other(primary[o])
        /\ stage'[o] = CASE a.status = "filled" -> "recordSecondary"
                         [] a.status = "pending" -> "recordPending"
                         [] OTHER -> "expose"
    BY <1>6, <1>9 DEF Leg, NextAfter
  <2>2. /\ told'[o][Other(primary[o])] = [status |-> a.status, quantity |-> a.quantity]
        /\ told'[o][primary[o]] = told[o][primary[o]]
        /\ venue'[o][Other(primary[o])] =
              [held |-> venue[o][Other(primary[o])].held + held,
               resting |-> venue[o][Other(primary[o])].resting + a.resting]
    BY <1>5, <2>1
  <2>3. Covered(o)'
    BY <1>3, <1>4, <2>1, <2>2 DEF Covered
  <2>4. Booked(o)'
    BY <1>4, <1>9, <2>1, <2>2 DEF Booked, Unfilled, OnlyPrimary, BothFilled, Filled
  <2>5. Traced(o)'
    <3>1. order[o][primary[o]] = "FILLED"
      BY <1>9 DEF Traced
    <3>2. o \notin unheard' /\ stage'[o] = "expose" =>
             venue'[o][Other(primary[o])] = venue[o][Other(primary[o])]
      BY <1>3, <1>7, <2>1, <2>2
    <3> QED
      BY <1>3, <1>4, <1>7, <1>9, <2>1, <3>1, <3>2 DEF Traced
  <2> QED
    BY <2>3, <2>4, <2>5
<1> QED
  BY <1>4, <1>8, <1>9

LEMMA ResubmitLocal ==
    ASSUME TypeOK, NEW o \in Opportunity, Local(o), Resubmit(o)
    PROVE  Local(o)'
<1> USE DEF TypeOK, Local
<1>1. /\ UNCHANGED <<stage, primary, size, budget, told, order, position, spoiled>>
      /\ o \in unheard' /\ stage[o] \in {"primary", "secondary"}
  BY DEF Resubmit, At, progress, rows
<1>2. stage[o] = "primary" => venue'[o][Other(primary[o])] = venue[o][Other(primary[o])]
  BY DEF Resubmit, Reaches, Leg
<1>3. Covered(o)'
  BY <1>1 DEF Covered
<1>4. Booked(o)'
  BY <1>1 DEF Booked, Unfilled, OnlyPrimary, BothFilled, Filled
<1>5. Traced(o)'
  BY <1>1, <1>2 DEF Traced
<1> QED
  BY <1>3, <1>4, <1>5

LEMMA StoreLocal ==
    ASSUME TypeOK, NEW o \in Opportunity, Local(o), Store(o)
    PROVE  Local(o)'
<1> USE DEF TypeOK, Local
<1>1. UNCHANGED <<size, budget, told, venue, unheard>>
  BY DEF Store
<1>2. UNCHANGED primary
  BY InsertTyped DEF Goto
<1>3. CASE At(o, "recordPrimary") /\ InsertOrder(o, primary[o], "FILLED", "secondary")
  <2>1. \/ /\ order'[o] = [order[o] EXCEPT ![primary[o]] = "FILLED"] /\ position' = position
           /\ spoiled' = spoiled /\ stage'[o] = "secondary"
        \/ order' = order /\ position' = position /\ o \in spoiled' /\ stage'[o] = "release"
    BY <1>3, InsertOrderEffect, SMTT(30) DEF Goto
  <2>2. stage[o] = "recordPrimary"
    BY <1>3 DEF At
  <2>3. Covered(o)'
    BY <1>1, <2>1 DEF Covered
  <2>4. Booked(o)'
    BY <1>1, <1>2, <2>1, <2>2 DEF Booked, Unfilled, OnlyPrimary, BothFilled, Filled
  <2>5. Traced(o)'
    BY <1>1, <1>2, <2>1, <2>2 DEF Traced
  <2> QED BY <2>3, <2>4, <2>5
<1>4. CASE At(o, "recordPending") /\ InsertOrder(o, Other(primary[o]), "PENDING", "expose")
  <2>1. \/ /\ order'[o] = [order[o] EXCEPT ![Other(primary[o])] = "PENDING"] /\ position' = position
           /\ spoiled' = spoiled /\ stage'[o] = "expose"
        \/ order' = order /\ position' = position /\ o \in spoiled' /\ stage'[o] = "release"
    <3>1. \/ /\ order' = [order EXCEPT ![o][Other(primary[o])] = "PENDING"] /\ position' = position
             /\ spoiled' = spoiled /\ Goto(o, "expose")
          \/ /\ order' = order /\ position' = position
             /\ spoiled' = spoiled \cup {o} /\ Goto(o, "release")
      BY <1>4, InsertOrderEffect
    <3>2. order'[o] = [order[o] EXCEPT ![Other(primary[o])] = "PENDING"] \/ order' = order
      BY <3>1
    <3> QED
      BY <3>1, <3>2 DEF Goto
  <2>2. stage[o] = "recordPending"
    BY <1>4 DEF At
  <2>3. Covered(o)'
    BY <1>1, <2>1 DEF Covered
  <2>4. Booked(o)'
    BY <1>1, <1>2, <2>1, <2>2 DEF Booked, Unfilled, OnlyPrimary, BothFilled, Filled
  <2>5. Traced(o)'
    BY <1>1, <1>2, <2>1, <2>2 DEF Traced
  <2> QED BY <2>3, <2>4, <2>5
<1>5. CASE At(o, "recordSecondary") /\ InsertOrder(o, Other(primary[o]), "FILLED", "open")
  <2>1. \/ /\ order'[o] = [order[o] EXCEPT ![Other(primary[o])] = "FILLED"] /\ position' = position
           /\ spoiled' = spoiled /\ stage'[o] = "open"
        \/ order' = order /\ position' = position /\ o \in spoiled' /\ stage'[o] = "release"
    <3>1. \/ /\ order' = [order EXCEPT ![o][Other(primary[o])] = "FILLED"] /\ position' = position
             /\ spoiled' = spoiled /\ Goto(o, "open")
          \/ /\ order' = order /\ position' = position
             /\ spoiled' = spoiled \cup {o} /\ Goto(o, "release")
      BY <1>5, InsertOrderEffect
    <3>2. order'[o] = [order[o] EXCEPT ![Other(primary[o])] = "FILLED"] \/ order' = order
      BY <3>1
    <3> QED
      BY <3>1, <3>2 DEF Goto
  <2>2. stage[o] = "recordSecondary"
    BY <1>5 DEF At
  <2>3. Covered(o)'
    BY <1>1, <2>1 DEF Covered
  <2>4. Booked(o)'
    BY <1>1, <1>2, <2>1, <2>2 DEF Booked, Unfilled, OnlyPrimary, BothFilled, Filled
  <2>5. Traced(o)'
    BY <1>1, <1>2, <2>1, <2>2 DEF Traced
  <2> QED BY <2>3, <2>4, <2>5
<1>6. CASE At(o, "open") /\ InsertPosition(o, "OPEN",
               IF UsedCapital(o) < budget[o].capital THEN "adjust" ELSE "commit")
  <2>1. \/ /\ position'[o] = "OPEN" /\ order' = order /\ spoiled' = spoiled
           /\ stage'[o] \in {"adjust", "commit"}
        \/ order' = order /\ position' = position /\ o \in spoiled' /\ stage'[o] = "release"
    BY <1>6, InsertPositionEffect DEF Goto
  <2>2. stage[o] = "open"
    BY <1>6 DEF At
  <2>3. Covered(o)'
    BY <1>1, <2>1 DEF Covered
  <2>4. Booked(o)'
    BY <1>1, <1>2, <2>1, <2>2 DEF Booked, Unfilled, OnlyPrimary, BothFilled, Filled
  <2>5. Traced(o)'
    BY <1>1, <1>2, <2>1, <2>2 DEF Traced
  <2> QED BY <2>3, <2>4, <2>5
<1>7. CASE At(o, "expose") /\ InsertPosition(o, "SINGLE_LEG_EXPOSED", "announce")
  <2>1. \/ /\ position'[o] = "SINGLE_LEG_EXPOSED" /\ order' = order /\ spoiled' = spoiled
           /\ stage'[o] = "announce"
        \/ order' = order /\ position' = position /\ o \in spoiled' /\ stage'[o] = "release"
    BY <1>7, InsertPositionEffect DEF Goto
  <2>2. stage[o] = "expose"
    BY <1>7 DEF At
  <2>3. Covered(o)'
    BY <1>1, <2>1 DEF Covered
  <2>4. Booked(o)'
    BY <1>1, <1>2, <2>1, <2>2 DEF Booked, Unfilled, OnlyPrimary, BothFilled, Filled
  <2>5. Traced(o)'
    BY <1>1, <1>2, <2>1, <2>2 DEF Traced
  <2> QED BY <2>3, <2>4, <2>5
<1> QED
  BY <1>3, <1>4, <1>5, <1>6, <1>7 DEF Store

LEMMA SettlingLocal ==
    ASSUME TypeOK, NEW o \in Opportunity, Local(o), Announce(o) \/ AdjustReservation(o) \/ Settle(o)
    PROVE  Local(o)'
<1> USE DEF TypeOK, Local
<1>1. UNCHANGED <<primary, size, told, order, position, venue, unheard, spoiled>>
  BY DEF Announce, AdjustReservation, Settle, Goto, Finish, rows, faults
<1>2. CASE Announce(o)
  <2>1. stage[o] = "announce" /\ stage'[o] = "commit" /\ UNCHANGED budget
    BY <1>2 DEF Announce, At, Goto
  <2>2. Covered(o)'
    BY <1>1, <2>1 DEF Covered
  <2>3. Booked(o)'
    BY <1>1, <2>1 DEF Booked, Unfilled, OnlyPrimary, BothFilled, Filled
  <2>4. Traced(o)'
    BY <1>1, <2>1 DEF Traced
  <2> QED BY <2>2, <2>3, <2>4
<1>3. CASE AdjustReservation(o)
  <2>1. stage[o] = "adjust" /\ stage'[o] = "commit" /\ budget'[o].capital = size[o] * UnitCost
    BY <1>3 DEF AdjustReservation, At, Goto, UsedCapital
  <2>2. Covered(o)'
    BY <1>1, <2>1, CostsPositive DEF Covered
  <2>3. Booked(o)'
    BY <1>1, <2>1 DEF Booked, Unfilled, OnlyPrimary, BothFilled, Filled
  <2>4. Traced(o)'
    BY <1>1, <2>1 DEF Traced
  <2> QED BY <2>2, <2>3, <2>4
<1>4. CASE Settle(o)
  <2>1. /\ stage[o] \in {"commit", "release"} /\ stage'[o] = "over"
        /\ budget'[o].capital = budget[o].capital
        /\ budget'[o].status = IF stage[o] = "commit" THEN "committed" ELSE "released"
    BY <1>4 DEF Settle, At, Settled, Finish
  <2>2. Covered(o)'
    BY <1>1, <2>1 DEF Covered
  <2>3. Booked(o)'
    BY <1>1, <2>1 DEF Booked, Unfilled, OnlyPrimary, BothFilled, Filled
  <2>4. Traced(o)'
    BY <1>1, <2>1 DEF Traced
  <2> QED BY <2>2, <2>3, <2>4
<1> QED
  BY <1>2, <1>3, <1>4

(* A crash spoils the opportunity: what is left to keep is its capital and  *)
(* the order of the two legs.                                               *)
LEMMA CrashLocal ==
    ASSUME TypeOK, NEW o \in Opportunity, Local(o), Crash(o)
    PROVE  Local(o)'
<1> USE DEF TypeOK, Local
<1>1. /\ UNCHANGED <<primary, size, told, order, position, unheard>>
      /\ o \in spoiled' /\ stage'[o] = "over" /\ budget'[o].capital = budget[o].capital
  BY DEF Crash, Finish, rows
<1>2. stage[o] # "secondary" => venue'[o][Other(primary[o])] = venue[o][Other(primary[o])]
  <2>1. CASE stage[o] = "primary"
    BY <2>1 DEF Crash, Reaches, Leg
  <2>2. CASE stage[o] \notin {"primary", "secondary"}
    BY <2>2 DEF Crash
  <2> QED BY <2>1, <2>2
<1>3. Covered(o)'
  BY <1>1 DEF Covered
<1>4. Booked(o)'
  BY <1>1 DEF Booked
<1>5. Traced(o)'
  BY <1>1, <1>2 DEF Traced
<1> QED
  BY <1>3, <1>4, <1>5

LEMMA WorldLocal ==
    ASSUME TypeOK, NEW o \in Opportunity, Local(o),
           Remind(o) \/ \E p \in Platform : VenueFills(o, p)
    PROVE  Local(o)'
<1> USE DEF TypeOK, Local
<1>1. UNCHANGED <<stage, primary, size, budget, told, order, position, unheard, spoiled>>
  BY DEF Remind, VenueFills, progress, rows, faults
<1>2. venue[o][Other(primary[o])] = Nothing =>
         venue'[o][Other(primary[o])] = venue[o][Other(primary[o])]
  BY DEF Remind, VenueFills, Nothing
<1>3. Covered(o)'
  BY <1>1 DEF Covered
<1>4. Booked(o)'
  BY <1>1 DEF Booked, Unfilled, OnlyPrimary, BothFilled, Filled
<1>5. Traced(o)'
  BY <1>1, <1>2 DEF Traced
<1> QED
  BY <1>3, <1>4, <1>5

LEMMA StepLocal ==
    ASSUME TypeOK, NEW o \in Opportunity, Local(o), Step(o)
    PROVE  Local(o)'
BY ReserveLocal, GatesLocal, SubmitLocal, ResubmitLocal, StoreLocal, SettlingLocal,
   CrashLocal, WorldLocal DEF Step

-----------------------------------------------------------------------------
(* The invariant and what follows from it.                                  *)

LEMMA InitInvariant == Init => IInv
<1> SUFFICES ASSUME Init PROVE IInv
  OBVIOUS
<1>1. TypeOK
  BY InitTyped
<1>2. ASSUME NEW o \in Opportunity PROVE Local(o)
  <2>1. Covered(o)
    BY CostsPositive DEF Init, Covered, Unanswered
  <2>2. Booked(o)
    BY DEF Init, Booked, Unfilled, Filled, Unanswered
  <2>3. Traced(o)
    BY DEF Init, Traced, Nothing
  <2> QED BY <2>1, <2>2, <2>3 DEF Local
<1> QED
  BY <1>1, <1>2 DEF IInv

LEMMA NextInvariant == IInv /\ [Next]_vars => IInv'
<1> SUFFICES ASSUME IInv, [Next]_vars PROVE IInv'
  OBVIOUS
<1> USE DEF IInv
<1>1. ASSUME NEW o \in Opportunity, Step(o) PROVE IInv'
  <2>1. TypeOK'
    BY <1>1, StepTyped DEF Local
  <2>2. ASSUME NEW q \in Opportunity PROVE Local(q)'
    BY <1>1, StepLocal, OthersKept, KeptLocal
  <2> QED BY <2>1, <2>2
<1>2. CASE Relink
  <2>1. \A o \in Opportunity : Kept(o)
    BY <1>2 DEF Relink, Kept, progress, rows
  <2>2. TypeOK'
    BY <1>2 DEF Relink, TypeOK, progress, rows, faults
  <2> QED BY <2>1, <2>2, KeptLocal
<1>3. CASE UNCHANGED vars
  <2>1. \A o \in Opportunity : Kept(o)
    BY <1>3 DEF vars, Kept, progress, rows
  <2>2. TypeOK'
    BY <1>3 DEF vars, TypeOK, progress, rows, faults
  <2> QED BY <2>1, <2>2, KeptLocal
<1> QED
  BY <1>1, <1>2, <1>3 DEF Next

THEOREM EntryInvariant == Spec => []IInv
BY InitInvariant, NextInvariant, PTL DEF Spec

(* Reserved or committed capital is never less than what the fills it       *)
(* stands for cost (ExecutionService.execute, adjustReservation).           *)
THEOREM CommitmentAlwaysCovers == Spec => []CommitmentCovers
<1>1. IInv => CommitmentCovers
  <2> SUFFICES ASSUME IInv, NEW o \in Opportunity
               PROVE  FilledCost(o, "kalshi") + FilledCost(o, "polymarket") <= budget[o].capital
    BY DEF CommitmentCovers
  <2>1. /\ size[o] \in Nat /\ budget[o].capital \in Nat
        /\ size[o] * UnitCost <= budget[o].capital
        /\ told[o]["kalshi"].quantity \in 0..size[o]
        /\ told[o]["polymarket"].quantity \in 0..size[o]
    BY DEF IInv, TypeOK, Local, Covered
  <2>2. \A p \in Platform : Cost(p) \in Nat
    BY CostsPositive DEF Cost
  <2>3. \A q \in 0..size[o], c \in Nat : q * c \in Nat /\ q * c <= size[o] * c
    BY <2>1
  <2>4. \A p \in Platform : FilledCost(o, p) \in Nat /\ FilledCost(o, p) <= size[o] * Cost(p)
    BY <2>1, <2>2, <2>3, SMTT(30) DEF FilledCost
  <2>5. size[o] * UnitCost = size[o] * Cost("kalshi") + size[o] * Cost("polymarket")
    BY <2>1, CostsPositive DEF UnitCost, Cost
  <2>6. size[o] * Cost("kalshi") \in Nat /\ size[o] * Cost("polymarket") \in Nat
    BY <2>1, <2>2
  <2> QED
    BY <2>1, <2>4, <2>5, <2>6
<1> QED
  BY <1>1, EntryInvariant, PTL

(* An opportunity that is over, with no failed insert and no crash, has the *)
(* position and the settlement its fills call for, and what the second      *)
(* venue filled has an order row.                                           *)
THEOREM OutcomeAlwaysTraced == Spec => []OutcomeTraced
<1>1. IInv => OutcomeBooked
  <2> SUFFICES ASSUME IInv, NEW o \in Opportunity, stage[o] = "over", o \notin spoiled
               PROVE  LET filled == {p \in Platform : Filled(o, p)} IN
                      /\ position[o] = CASE filled = Platform -> "OPEN"
                                         [] filled = {primary[o]} -> "SINGLE_LEG_EXPOSED"
                                         [] OTHER -> "none"
                      /\ filled # {} <=> budget[o].status = "committed"
    BY DEF OutcomeBooked
  <2> DEFINE filled == {p \in Platform : Filled(o, p)}
  <2>1. Booked(o) /\ primary[o] \in Platform
    BY DEF IInv, Local, TypeOK
  <2>2. /\ Unfilled(o) => filled = {}
        /\ OnlyPrimary(o) => filled = {primary[o]}
        /\ BothFilled(o) => filled = Platform
    BY <2>1 DEF Unfilled, OnlyPrimary, BothFilled
  <2>3. filled # {} <=> budget[o].status = "committed"
    BY <2>1 DEF Booked, Unfilled
  <2>4. \/ filled = {primary[o]} /\ position[o] = "SINGLE_LEG_EXPOSED"
        \/ filled = Platform /\ position[o] = "OPEN"
        \/ filled = {} /\ position[o] = "none"
    BY <2>1, <2>2 DEF Booked
  <2>5. {primary[o]} # Platform /\ {} # Platform /\ {} # {primary[o]}
    BY <2>1
  <2> HIDE DEF filled
  <2>6. position[o] = CASE filled = Platform -> "OPEN"
                        [] filled = {primary[o]} -> "SINGLE_LEG_EXPOSED"
                        [] OTHER -> "none"
    BY <2>4, <2>5
  <2> QED
    BY <2>3, <2>6 DEF filled
<1>2. IInv => SecondaryFillsTraced
  BY DEF IInv, Local, Traced, SecondaryFillsTraced, Nothing
<1>3. IInv => TypeOK
  BY DEF IInv
<1> QED
  BY <1>1, <1>2, <1>3, EntryInvariant, PTL DEF OutcomeTraced

(* Nothing reaches the second venue before the first fill is stored         *)
(* (submitOrderPair persists the primary order before the second submit).   *)
THEOREM SecondLegAlwaysAfterRecord == Spec => SecondLegAfterRecord
<1> DEFINE Ordered == \A o \in Opportunity :
             venue'[o][Other(primary[o])] # venue[o][Other(primary[o])] =>
                 order[o][primary[o]] = "FILLED"
<1>1. IInv /\ [Next]_vars => [Ordered]_vars
  <2> SUFFICES ASSUME IInv, Next, NEW o \in Opportunity,
                      venue'[o][Other(primary[o])] # venue[o][Other(primary[o])]
               PROVE  order[o][primary[o]] = "FILLED"
    OBVIOUS
  <2> USE DEF IInv
  <2>1. PICK q \in Opportunity : Step(q)
    BY DEF Next, Relink
  <2>2. q = o
    BY <2>1, OthersKept DEF Kept
  <2>3. Step(o) /\ TypeOK /\ Traced(o)
    BY <2>1, <2>2 DEF Local
  <2>4. ASSUME stage[o] \in {"primary", "secondary"}, NEW held, NEW resting, Reaches(o, held, resting)
        PROVE  order[o][primary[o]] = "FILLED"
    BY <2>3, <2>4 DEF Reaches, Leg, TypeOK, Traced
  <2>5. CASE Submit(o)
    BY <2>4, <2>5 DEF Submit, At
  <2>6. CASE Resubmit(o)
    BY <2>4, <2>6 DEF Resubmit, At
  <2>7. CASE Crash(o)
    BY <2>4, <2>7 DEF Crash
  <2>8. ASSUME NEW p \in Platform, VenueFills(o, p)
        PROVE  order[o][primary[o]] = "FILLED"
    <3>1. venue[o][Other(primary[o])] # Nothing
      BY <2>3, <2>8 DEF VenueFills, TypeOK, Nothing
    <3> QED BY <2>3, <3>1 DEF Traced
  <2>9. \/ Submit(o) \/ Resubmit(o) \/ Crash(o) \/ \E p \in Platform : VenueFills(o, p)
    BY <2>3 DEF Step, Reserve, Gates, Store, Announce, AdjustReservation, Settle, Remind
  <2> QED
    BY <2>5, <2>6, <2>7, <2>8, <2>9
<1> QED
  BY <1>1, EntryInvariant, PTL DEF Spec, SecondLegAfterRecord
=============================================================================

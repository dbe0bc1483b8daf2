--------------------------- MODULE PlatformHealth ---------------------------
(***************************************************************************)
(* How fresh a venue's data is, and what the engine makes of it: the       *)
(* polling of the order books (DataIngestionService.ingestCurrentOrder-    *)
(* Books, with its fallback for degraded venues), the health check that    *)
(* runs every thirty seconds and after every ingestion (PlatformHealth-    *)
(* Service.publishHealth), and the degradation protocol it turns on and    *)
(* off (DegradationProtocolService).                                       *)
(*                                                                         *)
(* Time passes in steps of thirty seconds, the period of the check; every  *)
(* threshold of the code is a number of them.  A check that finds a new    *)
(* status awaits a write to the database, so the check of the cron and the *)
(* check of a polling cycle interleave there.                              *)
(***************************************************************************)
EXTENDS Integers, Sequences, FiniteSets

CONSTANTS
    PlatformOrder,      \* the venues, in the order the code goes through them
    Book,               \* the order books that are polled, by venue
    Batched,            \* the venues polled with one call for all books
    ReturnsAtOnce       \* publishHealth begins with a bare return, as it does at this commit

Platform == {PlatformOrder[i] : i \in DOMAIN PlatformOrder}
Books == UNION {Book[p] : p \in Platform}
VenueOf(b) == CHOOSE p \in Platform : b \in Book[p]

ASSUME HealthConstants ==
    /\ \A p, q \in Platform : p # q => Book[p] \cap Book[q] = {}
    /\ Batched \subseteq Platform /\ ReturnsAtOnce \in BOOLEAN

VARIABLES
    age,            \* by venue: how old its last update is, or NoData
    slow,           \* by venue: the latency of its last answers is too high
    lastStatus,     \* previousStatus
    badTicks, goodTicks,    \* consecutiveUnhealthyTicks, consecutiveHealthyTicks
    bookStale,      \* orderbookStale
    degraded,       \* by venue: it is in degradedPlatforms
    check,          \* by caller of publishHealth: the venues it has still to check
    cycle,          \* ingestCurrentOrderBooks: the phases and the books still to fetch
    cronDue, polled,        \* the cron, a completed cycle since time last passed
    venueState, socketUp    \* external: what a venue's API and its socket do

healthVars == <<age, slow, lastStatus, badTicks, goodTicks, bookStale, degraded,
                check, cycle, cronDue, polled, venueState, socketUp>>
data == <<age, slow>>
judged == <<lastStatus, badTicks, goodTicks, bookStale, degraded>>
external == <<venueState, socketUp>>

StaleAge == 2       \* STALENESS_THRESHOLD
BookStaleAge == 3   \* orderbookStalenessThreshold
FreshAge == 1       \* DATA_FRESHNESS_THRESHOLD
TickThreshold == 2  \* CONSECUTIVE_UNHEALTHY_TICKS_THRESHOLD, CONSECUTIVE_HEALTHY_TICKS_THRESHOLD
MaxAge == BookStaleAge + 1      \* bound: older is as old
NoData == -1

Checker == {"cron", "cycle"}
Unchecked == [todo |-> <<>>, status |-> "none"]
NoCycle == [phases |-> <<>>, todo |-> {}, entered |-> FALSE]
InCycle == cycle.phases # <<>>

HealthInit ==
    /\ age = [p \in Platform |-> NoData]
    /\ slow = [p \in Platform |-> FALSE]
    /\ lastStatus = [p \in Platform |-> "initializing"]
    /\ badTicks = [p \in Platform |-> 0] /\ goodTicks = [p \in Platform |-> 0]
    /\ bookStale = [p \in Platform |-> FALSE] /\ degraded = [p \in Platform |-> FALSE]
    /\ check = [k \in Checker |-> Unchecked] /\ cycle = NoCycle
    /\ cronDue = FALSE /\ polled = FALSE
    /\ venueState = [p \in Platform |-> "up"] /\ socketUp = [p \in Platform |-> FALSE]

-----------------------------------------------------------------------------
(* publishHealth *)

Min2(a, b) == IF a < b THEN a ELSE b

(* calculateHealth; the connection is taken to be up. *)
Health(p) ==
    CASE age[p] = NoData            -> "initializing"
      [] age[p] > StaleAge \/ slow[p] -> "degraded"
      [] OTHER                      -> "healthy"

BookIsStale(p) == age[p] > BookStaleAge

Degrades(p, bad) == ~degraded[p] /\ bad >= TickThreshold
Recovers(p, good) == degraded[p] /\ good >= TickThreshold /\ age[p] <= FreshAge

(* What follows the write of the status, or follows at once when the status *)
(* is the last one.                                                         *)
Settle(k, p, status, bad, good) ==
    /\ bookStale' = [bookStale EXCEPT ![p] = BookIsStale(p)]
    /\ degraded' = [degraded EXCEPT ![p] =
                        (@ \/ Degrades(p, bad)) /\ ~Recovers(p, good)]
    /\ lastStatus' = [lastStatus EXCEPT ![p] = status]
    /\ check' = [check EXCEPT ![k] = [todo |-> Tail(@.todo), status |-> "none"]]

CheckVenue(k) ==
    /\ check[k].todo # <<>> /\ check[k].status = "none"
    /\ LET p == Head(check[k].todo)
           status == Health(p)
           bad == IF status = "degraded" THEN Min2(badTicks[p] + 1, TickThreshold) ELSE 0
           good == IF status = "degraded" THEN 0 ELSE Min2(goodTicks[p] + 1, TickThreshold) IN
       /\ badTicks' = [badTicks EXCEPT ![p] = bad]
       /\ goodTicks' = [goodTicks EXCEPT ![p] = good]
       /\ IF status = lastStatus[p]
            THEN Settle(k, p, status, bad, good)
            ELSE /\ check' = [check EXCEPT ![k].status = status]
                 /\ UNCHANGED <<bookStale, degraded, lastStatus>>
    /\ UNCHANGED <<data, cycle, cronDue, polled, external>>

StatusWritten(k) ==
    /\ check[k].status # "none"
    /\ LET p == Head(check[k].todo) IN Settle(k, p, check[k].status, badTicks[p], goodTicks[p])
    /\ UNCHANGED <<data, badTicks, goodTicks, cycle, cronDue, polled, external>>

(* What a call of publishHealth goes through. *)
VenuesChecked == IF ReturnsAtOnce THEN <<>> ELSE PlatformOrder

CronFires ==
    /\ cronDue /\ cronDue' = FALSE
    /\ check' = [check EXCEPT !["cron"].todo = VenuesChecked]
    /\ UNCHANGED <<data, judged, cycle, polled, external>>

-----------------------------------------------------------------------------
(* ingestCurrentOrderBooks: the venues that are not degraded, then, book by *)
(* book, the degraded ones, then a health check.                            *)

Phases == [i \in 1 .. 2 * Len(PlatformOrder) |->
             IF i <= Len(PlatformOrder)
               THEN [kind |-> "main", venue |-> PlatformOrder[i]]
               ELSE [kind |-> "fallback", venue |-> PlatformOrder[i - Len(PlatformOrder)]]]
             \o <<[kind |-> "publish", venue |-> PlatformOrder[1]]>>
Phase == Head(cycle.phases)

StartCycle ==
    /\ ~InCycle
    /\ cycle' = [NoCycle EXCEPT !.phases = Phases]
    /\ UNCHANGED <<data, judged, check, cronDue, polled, external>>

Polls(phase) ==
    IF (phase.kind = "fallback") = degraded[phase.venue] THEN Book[phase.venue] ELSE {}

EnterPhase ==
    /\ InCycle /\ ~cycle.entered /\ Phase.kind # "publish"
    /\ cycle' = IF Polls(Phase) = {} THEN [cycle EXCEPT !.phases = Tail(@)]
                                     ELSE [cycle EXCEPT !.entered = TRUE, !.todo = Polls(Phase)]
    /\ UNCHANGED <<data, judged, check, cronDue, polled, external>>

Without(gone) ==
    IF cycle.todo \subseteq gone THEN [NoCycle EXCEPT !.phases = Tail(cycle.phases)]
                                 ELSE [cycle EXCEPT !.todo = @ \ gone]

(* recordContractUpdate *)
Recorded(b, latencyHigh) ==
    /\ age' = [age EXCEPT ![VenueOf(b)] = 0]
    /\ slow' = [slow EXCEPT ![VenueOf(b)] = latencyHigh]

(* fault: the fallback stores its books and records nothing *)
RecordsUpdateMainOnly == Phase.kind = "main"

RecordsUpdate == TRUE

(* A book that is fetched and stored. *)
FetchBook(b) ==
    /\ b \in cycle.todo /\ venueState[VenueOf(b)] # "down"
    /\ cycle' = Without({b})
    /\ IF RecordsUpdate THEN Recorded(b, venueState[VenueOf(b)] = "slow") ELSE UNCHANGED data
    /\ UNCHANGED <<judged, check, cronDue, polled, external>>

(* A failure ends a batch, and costs one book otherwise. *)
FetchFails(b) ==
    /\ b \in cycle.todo /\ venueState[VenueOf(b)] = "down"
    /\ cycle' = Without(IF Phase.kind = "main" /\ VenueOf(b) \in Batched THEN Books ELSE {b})
    /\ UNCHANGED <<data, judged, check, cronDue, polled, external>>

PublishAfterCycle ==
    /\ InCycle /\ Phase.kind = "publish" /\ ~cycle.entered
    /\ cycle' = [cycle EXCEPT !.entered = TRUE]
    /\ check' = [check EXCEPT !["cycle"].todo = VenuesChecked]
    /\ UNCHANGED <<data, judged, cronDue, polled, external>>

EndCycle ==
    /\ InCycle /\ Phase.kind = "publish" /\ cycle.entered /\ check["cycle"].todo = <<>>
    /\ cycle' = NoCycle /\ polled' = TRUE
    /\ UNCHANGED <<data, judged, check, cronDue, external>>

(* processWebSocketUpdate: its latency is that of the database. *)
SocketUpdate(b) ==
    /\ socketUp[VenueOf(b)]
    /\ Recorded(b, FALSE)
    /\ UNCHANGED <<judged, check, cycle, cronDue, polled, external>>

-----------------------------------------------------------------------------
(* Thirty seconds pass.  While every venue answers, a polling cycle is done *)
(* in each of them; a check is done before the next is due.                 *)
Older(a) == IF a = NoData THEN NoData ELSE Min2(a + 1, MaxAge)

HalfMinutePasses ==
    /\ ~cronDue /\ check["cron"] = Unchecked
    /\ (\A p \in Platform : venueState[p] = "up") => polled /\ ~InCycle
    /\ age' = [p \in Platform |-> Older(age[p])]
    /\ cronDue' = TRUE /\ polled' = FALSE
    /\ UNCHANGED <<slow, judged, check, cycle, external>>

VenueTurns(p) ==
    /\ \E s \in {"up", "slow", "down"} \ {venueState[p]} : venueState' = [venueState EXCEPT ![p] = s]
    /\ UNCHANGED <<data, judged, check, cycle, cronDue, polled, socketUp>>

SocketTurns(p) ==
    /\ socketUp' = [socketUp EXCEPT ![p] = ~@]
    /\ UNCHANGED <<data, judged, check, cycle, cronDue, polled, venueState>>

CycleStep ==
    \/ StartCycle \/ EnterPhase \/ PublishAfterCycle \/ EndCycle
    \/ \E b \in Books : FetchBook(b) \/ FetchFails(b)
CheckStep(k) == CheckVenue(k) \/ StatusWritten(k)

HealthNext ==
    \/ CycleStep \/ CronFires \/ HalfMinutePasses
    \/ \E k \in Checker : CheckStep(k)
    \/ \E b \in Books : SocketUpdate(b)
    \/ \E p \in Platform : VenueTurns(p) \/ SocketTurns(p)

(* The scheduler keeps polling, calls return or time out, the cron fires. *)
HealthFairness ==
    /\ WF_healthVars(CycleStep) /\ WF_healthVars(CronFires) /\ WF_healthVars(HalfMinutePasses)
    /\ \A k \in Checker : WF_healthVars(CheckStep(k))

HealthSpec == HealthInit /\ [][HealthNext]_healthVars /\ HealthFairness

-----------------------------------------------------------------------------
HealthTypeOK ==
    /\ age \in [Platform -> NoData .. MaxAge]
    /\ slow \in [Platform -> BOOLEAN]
    /\ lastStatus \in [Platform -> {"initializing", "healthy", "degraded"}]
    /\ badTicks \in [Platform -> 0 .. TickThreshold] /\ goodTicks \in [Platform -> 0 .. TickThreshold]
    /\ bookStale \in [Platform -> BOOLEAN] /\ degraded \in [Platform -> BOOLEAN]
    /\ check \in [Checker -> [todo : {<<>>} \cup {SubSeq(PlatformOrder, i, Len(PlatformOrder)) :
                                                    i \in DOMAIN PlatformOrder},
                              status : {"none", "initializing", "healthy", "degraded"}]]
    /\ cycle.todo \subseteq Books /\ cycle.entered \in BOOLEAN
    /\ {cronDue, polled} \subseteq BOOLEAN

(* A venue that answers for good is not degraded for good: although the     *)
(* polling leaves a degraded venue out, the fallback feeds the health check *)
(* that ends the protocol, whatever the two checks do to each other.        *)
VenueRecovers == \A p \in Platform :
    <>[](\A q \in Platform : venueState[q] = "up") => <>[]~degraded[p]

(* A venue that was heard and is silent for good is degraded for good. A    *)
(* venue never heard since the boot is left out: it stays "initializing".   *)
SilentVenueDegrades == \A p \in Platform :
    <>[](venueState[p] = "down" /\ ~socketUp[p] /\ age[p] # NoData) => <>[]degraded[p]

(* Both: in the end the protocol follows what the venue does. *)
DegradationFollowsVenue == []HealthTypeOK /\ VenueRecovers /\ SilentVenueDegrades
=============================================================================

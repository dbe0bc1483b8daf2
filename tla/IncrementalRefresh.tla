------------------------ MODULE IncrementalRefresh ------------------------
(***************************************************************************)
(* The refresh of the third-party data (IncrementalIngestionService with   *)
(* IncrementalFetchService and PredexonHistoricalService): it starts from  *)
(* the latest row there is, once after boot, without a look at any flag,   *)
(* and once a day.                                                         *)
(*                                                                         *)
(* Abstractions: one contract, whose prices and books come at the same     *)
(* time; time is in instants, and Predexon has a row for each; the pages   *)
(* of an answer come in the order of time; the first refresh looks back    *)
(* farther than the bound on time.                                         *)
(***************************************************************************)
EXTENDS Integers, FiniteSets, FiniteSetsExt

CONSTANTS
    LastRefresh,    \* bound on time
    ChunkSpan,      \* THIRTY_DAYS_MS, in instants
    PageRows,       \* PAGE_SIZE
    FlushSize,      \* FLUSH_SIZE
    MaxRefreshes,   \* bound on refreshes of the cron
    MaxTroubles     \* bound on requests, reads and writes that fail

ASSUME RefreshConstants ==
    /\ {LastRefresh, ChunkSpan, PageRows, FlushSize} \subseteq Nat \ {0}
    /\ {MaxRefreshes, MaxTroubles} \subseteq Nat

VARIABLES
    refresh,        \* by refresher: [stage, price, depth, end]
    refreshing,     \* _isRunning
    orchestrating,  \* IngestionOrchestratorService.isRunning
    predexon,       \* [price, depth]: the instants whose rows are in the database
    refused,        \* history: a 403 made a refresh skip a chunk of prices
    freshness,      \* the row of PREDEXON: [status, success]
    moment,
    tried           \* [refreshes, troubles]

refreshVars == <<refresh, refreshing, orchestrating, predexon, refused, freshness, moment, tried>>

Refreshers == {"boot", "cron"}
NoFetch == [next |-> 1, held |-> {}, state |-> "off"]
AtRest == [stage |-> "off", price |-> NoFetch, depth |-> NoFetch, end |-> 1]

RefreshInit ==
    /\ refresh = [r \in Refreshers |-> AtRest] /\ refreshing = FALSE /\ orchestrating = FALSE
    /\ predexon = [price |-> {}, depth |-> {}] /\ refused = FALSE
    /\ freshness = [status |-> "none", success |-> 0]
    /\ moment = 1
    /\ tried = [refreshes |-> 0, troubles |-> 0]

TroubleLeft == tried.troubles < MaxTroubles
HasTrouble == tried' = [tried EXCEPT !.troubles = @ + 1]

At(r, stage) == refresh[r].stage = stage
Goes(r, stage) == refresh' = [refresh EXCEPT ![r].stage = stage]

(* onModuleInit: without a look at the flags. *)
BootRefresh ==
    /\ At("boot", "off") /\ Goes("boot", "listing")
    /\ UNCHANGED <<orchestrating, refreshing, predexon, refused, freshness, moment, tried>>

(* handleCron *)
CronRefresh ==
    /\ At("cron", "off") /\ ~refreshing /\ ~orchestrating
    /\ tried.refreshes < MaxRefreshes
    /\ refreshing' = TRUE /\ Goes("cron", "listing")
    /\ tried' = [tried EXCEPT !.refreshes = @ + 1]
    /\ UNCHANGED <<orchestrating, predexon, refused, freshness, moment>>

(* A process that starts anew: only the rows are left. *)
Restarted ==
    /\ orchestrating' = FALSE
    /\ refresh' = [r \in Refreshers |-> AtRest] /\ refreshing' = FALSE

RefreshCrashes ==
    /\ TroubleLeft /\ HasTrouble /\ Restarted
    /\ UNCHANGED <<predexon, refused, freshness, moment>>

(* A read or a write of the refresh fails: the cron catches it, the one of  *)
(* boot is a rejection that nobody handles and ends the process.            *)
RefreshThrows(r) ==
    /\ refresh[r].stage \in {"listing", "recording", "checking"} /\ TroubleLeft /\ HasTrouble
    /\ IF r = "boot" THEN Restarted
       ELSE refreshing' = FALSE /\ Goes(r, "off") /\ UNCHANGED orchestrating
    /\ UNCHANGED <<predexon, refused, freshness, moment>>

ListTargets(r) ==
    /\ At(r, "listing") /\ Goes(r, "starting")
    /\ UNCHANGED <<orchestrating, refreshing, predexon, refused, freshness, moment, tried>>

(* batchGetIncrementalStarts: the latest row, or as far back as one goes. *)
IncrementalStart(rows) == IF rows = {} THEN 1 ELSE Max(rows)

(* The starts are read, or three attempts at that have failed. *)
StartsRead(r) ==
    /\ At(r, "starting")
    /\ \/ /\ refresh' = [refresh EXCEPT ![r] =
                [stage |-> "fetching", end |-> moment,
                 price |-> [NoFetch EXCEPT !.next = IncrementalStart(predexon.price), !.state = "on"],
                 depth |-> [NoFetch EXCEPT !.next = IncrementalStart(predexon.depth), !.state = "on"]]]
          /\ UNCHANGED tried
       \/ /\ TroubleLeft /\ HasTrouble
          /\ refresh' = [refresh EXCEPT ![r] = [AtRest EXCEPT !.stage = "recording",
                                                             !.price.state = "failed"]]
    /\ UNCHANGED <<orchestrating, refreshing, predexon, refused, freshness, moment>>

(* The buffer and what of it is inserted now; the rest waits. *)
Flushed(r, kind, held, next, over) ==
    /\ refresh' = [refresh EXCEPT ![r][kind] =
            [next |-> next, held |-> IF over \/ Cardinality(held) >= FlushSize THEN {} ELSE held,
             state |-> IF over THEN "done" ELSE "on"]]
    /\ predexon' = (IF over \/ Cardinality(held) >= FlushSize
                    THEN [predexon EXCEPT ![kind] = @ \cup held] ELSE predexon)

Fetching(r, kind) == At(r, "fetching") /\ refresh[r][kind].state = "on"

(* ingestPolymarketPrices: a chunk that is refused is passed over. *)
PriceChunk(r) ==
    LET f == refresh[r].price
        end == refresh[r].end
        to == Min({f.next + ChunkSpan, end})
    IN
    /\ Fetching(r, "price")
    /\ IF f.next >= end THEN Flushed(r, "price", f.held, end, TRUE) /\ UNCHANGED refused
       ELSE \/ Flushed(r, "price", f.held \cup (f.next..to), to, to = end) /\ UNCHANGED refused
            \/ Flushed(r, "price", f.held, to, to = end) /\ refused' = TRUE
    /\ UNCHANGED <<orchestrating, refreshing, freshness, moment, tried>>

(* ingestPolymarketDepth, ingestKalshiDepth: one that is refused is the last. *)
DepthPage(r) ==
    LET f == refresh[r].depth
        end == refresh[r].end
        to == Min({f.next + PageRows - 1, end})
    IN
    /\ Fetching(r, "depth")
    /\ \/ Flushed(r, "depth", f.held \cup (f.next..to), to + 1, to = end)
       \/ Flushed(r, "depth", f.held, f.next, TRUE)
    /\ UNCHANGED <<orchestrating, refreshing, refused, freshness, moment, tried>>

(* A request or an insert fails: what the buffer holds is lost. *)
FetchFails(r) ==
    /\ TroubleLeft /\ HasTrouble
    /\ \E kind \in {"price", "depth"} :
        /\ Fetching(r, kind)
        /\ refresh' = [refresh EXCEPT ![r][kind] = [NoFetch EXCEPT !.state = "failed"]]
    /\ UNCHANGED <<orchestrating, refreshing, predexon, refused, freshness, moment>>

(* allSettled: whatever became of the streams, the fetch has succeeded. *)
FetchesSettled(r) ==
    /\ At(r, "fetching")
    /\ \A kind \in {"price", "depth"} : refresh[r][kind].state \in {"done", "failed"}
    /\ refresh' = [refresh EXCEPT ![r] = [AtRest EXCEPT !.stage = "recording", !.end = moment]]
    /\ UNCHANGED <<orchestrating, refreshing, predexon, refused, freshness, moment, tried>>

FreshnessRecorded(r) ==
    /\ At(r, "recording") /\ Goes(r, "checking")
    /\ freshness' = (IF refresh[r].price.state = "failed"
                     THEN [freshness EXCEPT !.status = "failed"]
                     ELSE [status |-> "success", success |-> refresh[r].end])
    /\ UNCHANGED <<orchestrating, refreshing, predexon, refused, moment, tried>>

(* checkStaleness, which changes nothing, and the end. *)
RefreshEnds(r) ==
    /\ At(r, "checking")
    /\ refresh' = [refresh EXCEPT ![r] = [AtRest EXCEPT !.stage = IF r = "boot" THEN "done" ELSE "off"]]
    /\ refreshing' = (IF r = "cron" THEN FALSE ELSE refreshing)
    /\ UNCHANGED <<orchestrating, predexon, refused, freshness, moment, tried>>

RefreshStep(r) ==
    \/ ListTargets(r) \/ StartsRead(r) \/ PriceChunk(r) \/ DepthPage(r) \/ FetchFails(r)
    \/ FetchesSettled(r) \/ FreshnessRecorded(r) \/ RefreshEnds(r) \/ RefreshThrows(r)

(* A run of an operator begins, whatever is refreshed, or ends. *)
OrchestratorMoves ==
    /\ orchestrating' = ~orchestrating
    /\ UNCHANGED <<refresh, refreshing, predexon, refused, freshness, moment, tried>>

RefreshWaits ==
    /\ moment < LastRefresh
    /\ moment' = moment + 1
    /\ UNCHANGED <<refresh, refreshing, orchestrating, predexon, refused, freshness, tried>>

RefreshNext ==
    \/ BootRefresh \/ CronRefresh \/ RefreshCrashes \/ OrchestratorMoves \/ RefreshWaits
    \/ \E r \in Refreshers : RefreshStep(r)

RefreshSpec == RefreshInit /\ [][RefreshNext]_refreshVars

-----------------------------------------------------------------------------
RefreshTypeOK ==
    /\ refreshing \in BOOLEAN /\ orchestrating \in BOOLEAN /\ refused \in BOOLEAN
    /\ \A r \in Refreshers : refresh[r].stage \in {"off", "listing", "starting", "fetching",
                                                   "recording", "checking", "done"}
    /\ \A kind \in {"price", "depth"} : predexon[kind] \subseteq 1..LastRefresh
    /\ freshness.status \in {"none", "success", "failed"} /\ freshness.success \in 0..LastRefresh

(* Whatever fails, the flag of the cron is given back. *)
FlagGivenBack == refreshing <=> ~At("cron", "off")

(* The next refresh starts from the latest row, so that nothing may be      *)
(* missing before it: not when a page fails, the process stops, or two      *)
(* refreshes overlap.  Prices keep a hole where a chunk was refused.        *)
NoHoleBelowTheMark ==
    /\ \A i \in predexon.depth : 1..i \subseteq predexon.depth
    /\ refused \/ \A i \in predexon.price : 1..i \subseteq predexon.price

RefreshSound == RefreshTypeOK /\ FlagGivenBack /\ NoHoleBelowTheMark
=============================================================================

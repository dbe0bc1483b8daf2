------------------------ MODULE HistoricalIngestion ------------------------
(***************************************************************************)
(* How the prices, trades and books of the past reach the database: an     *)
(* operator starts a run over a date range (IngestionOrchestratorService), *)
(* and for every approved pair six streams are fetched in order.           *)
(*                                                                         *)
(* Kalshi keeps the data of before a cutoff that moves in one place and    *)
(* the data from it on in another; the cutoff is asked for once an hour.   *)
(*                                                                         *)
(* Abstractions: time is in instants, and a venue has a row for each; the  *)
(* answer to a request is that of its retries (HistoricalData); an answer  *)
(* has the rows that its place has of the window or none at all; the pages *)
(* of an answer come in the order of time, with their cursors; inserts     *)
(* skip the rows that are there; the two cutoffs of Kalshi are one.        *)
(***************************************************************************)
EXTENDS Integers, Sequences, FiniteSets, FiniteSetsExt, SequencesExt

CONSTANTS
    Targets,        \* the approved pairs, in the order of the target list
    LastMoment,     \* bound on time
    DateRanges,     \* what an operator asks for: [from, to]
    HistoryChunk,   \* SEVEN_DAYS_MS, in instants
    LiveChunk,      \* LIVE_CHUNK_MS
    PageSize,       \* rows of a page
    MaxIngestions,  \* bound on runs of an operator
    MaxFailures     \* bound on requests, reads and writes that fail, and on empty answers

ASSUME IngestionAssumption ==
    /\ Targets \in Seq(ToSet(Targets))
    /\ LastMoment \in Nat \ 0..1
    /\ DateRanges \subseteq [from : 1..LastMoment, to : 1..LastMoment]
    /\ {HistoryChunk, LiveChunk, PageSize} \subseteq Nat \ {0}
    /\ {MaxIngestions, MaxFailures} \subseteq Nat

VARIABLES
    ingestion,      \* [stage, left, range, windows, held, cut]: the run under way
    running,        \* _isRunning
    progress,       \* progressMap: by pair [status, range, cuts], and what was skipped
    ingested,       \* by pair and stream: the instants whose rows are in the database
    cutoff,         \* of Kalshi
    cachedCutoff,   \* 0: none that is younger than an hour
    spent           \* [runs, failures]

ingestionVars == <<ingestion, running, progress, ingested, cutoff, cachedCutoff, spent>>

Moments == 1..LastMoment
Kalshi == {"candles", "trades"}
Required == Kalshi \cup {"prices", "fills"}
Streams == <<"candles", "trades", "prices", "fills", "archive", "ohlcv">>

Idle == [stage |-> "idle", left |-> <<>>, range |-> [from |-> 1, to |-> 1],
         windows |-> <<>>, held |-> {}, cut |-> 0]
NoEntry == [status |-> "none", range |-> Idle.range, cuts |-> [s \in Kalshi |-> 0],
            skipped |-> [s \in Required |-> {}]]

IngestionInit ==
    /\ ingestion = Idle /\ running = FALSE
    /\ progress = [p \in ToSet(Targets) |-> NoEntry]
    /\ ingested = [p \in ToSet(Targets) |-> [s \in Required |-> {}]]
    /\ cutoff = 2 /\ cachedCutoff = 0
    /\ spent = [runs |-> 0, failures |-> 0]

CanFail == spent.failures < MaxFailures
Fails == spent' = [spent EXCEPT !.failures = @ + 1]

-----------------------------------------------------------------------------
(* The requests of a stream: <<where, from, to>>, in order. *)

(* chunkDateRange: the end of a chunk is the start of the next.             *)
RangeChunks(where, start, end, length) ==
    [k \in 1..((end - start + length - 1) \div length) |->
        <<where, start + (k - 1) * length, Min({start + k * length, end})>>]

(* A cursor: there is always a first page. *)
Pages(where, start, end) ==
    [k \in 1..Max({1, (end - start + PageSize) \div PageSize}) |->
        <<where, start + (k - 1) * PageSize, Min({start + k * PageSize - 1, end})>>]

NoPart == <<>>

(* fault: the live part starts after the cutoff *)
PartsAfterCutoff(range, cut) ==
    LET past == range.from < cut
        live == range.to > cut
    IN  [past |-> IF past THEN <<range.from, IF live THEN cut - 1 ELSE range.to>> ELSE NoPart,
         live |-> IF live THEN <<Max({range.from, cut + 1}), range.to>> ELSE NoPart]

(* The parts of a range before the cutoff and from it on. *)
Parts(range, cut) ==
    LET past == range.from < cut
        live == range.to > cut
    IN  [past |-> IF past THEN <<range.from, IF live THEN cut - 1 ELSE range.to>> ELSE NoPart,
         live |-> IF live THEN <<Max({range.from, cut}), range.to>> ELSE NoPart]

CandleRequests(range, cut) ==
    LET part == Parts(range, cut)
        Chunked(where, length) ==
            IF part[where] = NoPart THEN <<>>
            ELSE RangeChunks(where, part[where][1], part[where][2], length)
    IN  Chunked("past", HistoryChunk) \o Chunked("live", LiveChunk)
TradeRequests(range, cut) ==
    LET part == Parts(range, cut)
        Paged(where) ==
            IF part[where] = NoPart THEN <<>> ELSE Pages(where, part[where][1], part[where][2])
    IN  Paged("past") \o Paged("live")
PriceRequests(range) == RangeChunks("any", range.from, range.to, HistoryChunk)
(* The fills of Goldsky, where the token is the maker's, then the taker's. *)
FillRequests(range) == Pages("maker", range.from, range.to) \o Pages("taker", range.from, range.to)

Requests(stream, range, cut) ==
    CASE stream = "candles" -> CandleRequests(range, cut)
      [] stream = "trades" -> TradeRequests(range, cut)
      [] stream = "prices" -> PriceRequests(range)
      [] stream = "fills" -> FillRequests(range)
      [] OTHER -> <<<<"any", range.from, range.to>>>>

(* What a place answers for a request. *)
Answer(request) ==
    {i \in request[2]..request[3] :
        CASE request[1] = "past" -> i < cutoff
          [] request[1] = "live" -> i >= cutoff
          [] request[1] = "maker" -> i % 2 = 0
          [] request[1] = "taker" -> i % 2 = 1
          [] OTHER -> TRUE}

-----------------------------------------------------------------------------
(* A run of an operator. *)

(* triggerIngestion: a run that is under way refuses the next; runIngestion *)
(* takes the flag before its first await.                                   *)
TriggerIngestion ==
    /\ ~running
    /\ spent.runs < MaxIngestions
    /\ \E range \in DateRanges :
        /\ range.from < range.to /\ range.to <= LastMoment
        /\ running' = TRUE
        /\ progress' = [p \in DOMAIN progress |-> NoEntry]
        /\ ingestion' = [Idle EXCEPT !.stage = "listing", !.range = range]
    /\ spent' = [spent EXCEPT !.runs = @ + 1]
    /\ UNCHANGED <<ingested, cutoff, cachedCutoff>>

Ended == ingestion' = Idle /\ running' = FALSE

Begun(entries, pair) == [entries EXCEPT ![pair] = [NoEntry EXCEPT !.status = "in-progress",
                                                                  !.range = ingestion.range]]

(* The next pair of the list, its first stream. *)
NextTarget(left, entries) ==
    IF left = <<>>
    THEN Ended /\ progress' = entries
    ELSE /\ ingestion' = [ingestion EXCEPT !.stage = "candles", !.left = left, !.windows = <<>>,
                                           !.held = {}, !.cut = 0]
         /\ progress' = Begun(entries, Head(left))
         /\ UNCHANGED running

BuildTargetList ==
    /\ ingestion.stage = "listing"
    /\ \/ NextTarget(Targets, progress) /\ UNCHANGED spent
       \/ CanFail /\ Ended /\ Fails /\ UNCHANGED progress
    /\ UNCHANGED <<ingested, cutoff, cachedCutoff>>

Current == Head(ingestion.left)

TargetFails ==
    NextTarget(Tail(ingestion.left), [progress EXCEPT ![Current].status = "failed"])

AfterStream(stream) ==
    LET i == CHOOSE i \in DOMAIN Streams : Streams[i] = stream IN
    IF i = Len(Streams) THEN "assessing" ELSE Streams[i + 1]

(* The first requests of a stream; cut = 0 says that they are not made yet. *)
StreamBegins ==
    LET stream == ingestion.stage
        cut == IF cachedCutoff = 0 THEN cutoff ELSE cachedCutoff
        requests == Requests(stream, ingestion.range, cut)
    IN
    /\ stream \in ToSet(Streams) /\ ingestion.cut = 0
    /\ \/ /\ cachedCutoff' = (IF stream \in Kalshi THEN cut ELSE cachedCutoff)
          /\ ingestion' = [ingestion EXCEPT !.windows = requests, !.cut = cut]
          /\ progress' = (IF stream \in Kalshi THEN [progress EXCEPT ![Current].cuts[stream] = cut]
                          ELSE progress)
          /\ UNCHANGED <<running, spent>>
       \/ /\ stream \in Kalshi /\ cachedCutoff = 0 /\ CanFail   \* fetchCutoff
          /\ TargetFails /\ Fails /\ UNCHANGED cachedCutoff
    /\ UNCHANGED <<ingested, cutoff>>

StreamEnds(rows) ==
    /\ ingestion' = [ingestion EXCEPT !.stage = AfterStream(@), !.windows = <<>>, !.held = {},
                                      !.cut = 0]
    /\ ingested' = (IF ingestion.stage \in Required
                    THEN [ingested EXCEPT ![Current][ingestion.stage] = @ \cup rows]
                    ELSE ingested)

(* The insert of the rows of one answer; the fills, and the books of the    *)
(* archive, are inserted when all of them are there.                        *)
AnswerTaken(rows) ==
    LET stream == ingestion.stage
        rest == Tail(ingestion.windows)
        whole == stream \notin Kalshi \cup {"prices"}
    IN
    /\ stream \in ToSet(Streams) /\ ingestion.cut # 0 /\ ingestion.windows # <<>>
    /\ IF rest = <<>> THEN StreamEnds(ingestion.held \cup rows)
       ELSE /\ ingestion' = [ingestion EXCEPT !.windows = rest,
                                             !.held = IF whole THEN @ \cup rows ELSE @]
            /\ ingested' = (IF whole THEN ingested
                          ELSE [ingested EXCEPT ![Current][stream] = @ \cup rows])
    /\ UNCHANGED <<running, cutoff, cachedCutoff>>

RequestAnswered ==
    /\ AnswerTaken(Answer(Head(ingestion.windows)))
    /\ UNCHANGED <<progress, spent>>

(* An answer without the market (of live candles: a warning, and the next   *)
(* chunk), or without its list (?? []): nothing is inserted, and the stream *)
(* goes on as if there were no data.  One that breaks off the pages of the  *)
(* trades or the fills is this of every page that is left.                  *)
MarketMissing ==
    LET stream == ingestion.stage
        request == Head(ingestion.windows)
    IN
    /\ stream \in Required /\ CanFail
    /\ AnswerTaken({})
    /\ progress' = [progress EXCEPT ![Current].skipped[stream] = @ \cup Answer(request)]
    /\ Fails

(* A range before the cutoff that its last second leaves empty. *)
NothingToRequest ==
    /\ ingestion.stage \in ToSet(Streams) /\ ingestion.cut # 0 /\ ingestion.windows = <<>>
    /\ StreamEnds({})
    /\ UNCHANGED <<running, progress, cutoff, cachedCutoff, spent>>

(* The archive and OddsPipe may fail, the others take their pair with them. *)
RequestFails ==
    /\ ingestion.stage \in ToSet(Streams) /\ ingestion.cut # 0 /\ CanFail
    /\ IF ingestion.stage \in Required THEN TargetFails /\ UNCHANGED ingested
       ELSE StreamEnds({}) /\ UNCHANGED <<progress, running>>
    /\ Fails
    /\ UNCHANGED <<cutoff, cachedCutoff>>

(* runQualityAssessment reads what was inserted and writes its reports. *)
QualityAssessed ==
    /\ ingestion.stage = "assessing"
    /\ \/ /\ NextTarget(Tail(ingestion.left), [progress EXCEPT ![Current].status = "complete"])
          /\ UNCHANGED spent
       \/ CanFail /\ TargetFails /\ Fails
    /\ UNCHANGED <<ingested, cutoff, cachedCutoff>>

CutoffMoves ==
    /\ cutoff < LastMoment
    /\ cutoff' = cutoff + 1
    /\ UNCHANGED <<ingestion, running, progress, ingested, cachedCutoff, spent>>

(* CUTOFF_TTL_MS *)
CutoffExpires ==
    /\ cachedCutoff # 0
    /\ cachedCutoff' = 0
    /\ UNCHANGED <<ingestion, running, progress, ingested, cutoff, spent>>

(* The process dies and starts anew: only the rows are left. *)
IngestionCrashes ==
    /\ running /\ CanFail /\ Fails
    /\ ingestion' = Idle /\ running' = FALSE /\ cachedCutoff' = 0
    /\ progress' = [p \in DOMAIN progress |-> NoEntry]
    /\ UNCHANGED <<ingested, cutoff>>

IngestionNext ==
    \/ TriggerIngestion \/ BuildTargetList \/ StreamBegins \/ RequestAnswered \/ MarketMissing
    \/ NothingToRequest \/ RequestFails \/ QualityAssessed \/ CutoffMoves \/ CutoffExpires
    \/ IngestionCrashes

IngestionSpec == IngestionInit /\ [][IngestionNext]_ingestionVars

-----------------------------------------------------------------------------
IngestionTypeOK ==
    /\ running \in BOOLEAN /\ cutoff \in Moments /\ cachedCutoff \in 0..LastMoment
    /\ ingestion.stage \in {"idle", "listing", "assessing"} \cup ToSet(Streams)
    /\ \A p \in ToSet(Targets) :
        /\ progress[p].status \in {"none", "in-progress", "complete", "failed"}
        /\ \A s \in Required : ingested[p][s] \subseteq Moments

(* Whatever fails, a run gives its flag back and leaves no pair in progress; *)
(* one that went through its list has judged every pair of it.              *)
RunsSettle ==
    /\ running <=> ingestion.stage # "idle"
    /\ \A p \in ToSet(Targets) :
        progress[p].status = "in-progress" => running /\ ingestion.left # <<>> /\ p = Current
    /\ running \/ \A p, q \in ToSet(Targets) :
        (progress[p].status = "none") = (progress[q].status = "none")

(* What no request of a complete pair has asked the right place for: the    *)
(* data that went to the other place since the cutoff was read, and the     *)
(* ends of a range that the cutoff touches.                                 *)
Overlooked(stream, range, cut) ==
    (cut..(cutoff - 1))
    \cup (IF range.to = cut THEN {cut} ELSE {})
    \cup (IF stream = "candles" /\ range.from = cut - 1 THEN {range.from} ELSE {})

(* A pair is complete only when the four streams that it needs are stored   *)
(* for all of the range, whatever chunks, pages and parts they came in; but *)
(* what an answer was silent about is skipped, and the pair complete        *)
(* without it (fetchAndPersistLiveCandlesticks:370-378).                    *)
IngestedIsWhole ==
    \A p \in ToSet(Targets) : progress[p].status = "complete" =>
        LET range == progress[p].range IN
        \A s \in Required :
            (range.from..range.to)
            \ ((IF s \in Kalshi THEN Overlooked(s, range, progress[p].cuts[s]) ELSE {})
               \cup progress[p].skipped[s])
                \subseteq ingested[p][s]

IngestionSound == IngestionTypeOK /\ RunsSettle /\ IngestedIsWhole
=============================================================================

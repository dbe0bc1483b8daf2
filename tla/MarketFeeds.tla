----------------------------- MODULE MarketFeeds -----------------------------
(***************************************************************************)
(* The live order books of the contracts an open position needs: who is    *)
(* subscribed (DataIngestionService.subscribeForPosition and the handlers  *)
(* of the position events, with their reference counts), and the client    *)
(* that rebuilds Kalshi's books from snapshots and deltas                  *)
(* (KalshiWebSocketClient).                                                *)
(*                                                                         *)
(* A book is one of its two sides, which are kept alike: the quantity at   *)
(* each price, zero where there is no level, the highest price the best.   *)
(* The venue numbers the changes of a book, each of one level.  A book is  *)
(* given on by the handler that changes it, so the rebuilt books are the   *)
(* books the engine is given.  A subscription id is new for every          *)
(* subscribe command.  A command is carried out when it is sent, and its   *)
(* answer follows what the venue sent before.                              *)
(***************************************************************************)
EXTENDS Integers, Sequences, FiniteSets, SequencesExt

CONSTANTS
    FeedPair,           \* the pairs positions are held on
    Ticker,             \* Kalshi's contracts
    LegsOf,             \* by pair: its two contracts
    FeedRetries,        \* maxRetries of RETRY_STRATEGIES.WEBSOCKET_RECONNECT
    PriceLevel,         \* the prices of one side of a book
    FeedDepth,          \* MAX_ORDERBOOK_DEPTH
    BookAt,             \* external: by contract and number, the venue's book
    MaxOpens, MaxMoves, MaxSids, MaxLost, MaxChannel    \* bounds

Contract == UNION {LegsOf[p] : p \in FeedPair}

ASSUME FeedConstants ==
    /\ Ticker \subseteq Contract
    /\ IsFiniteSet(FeedPair) /\ IsFiniteSet(Ticker)
    /\ {FeedRetries, MaxOpens, MaxMoves, MaxSids, MaxLost, MaxChannel} \subseteq Nat
    /\ PriceLevel \subseteq Nat /\ IsFiniteSet(PriceLevel) /\ FeedDepth \in Nat
    /\ BookAt \in [Ticker -> [0 .. MaxMoves -> [PriceLevel -> Nat]]]
    /\ \A t \in Ticker : \A n \in 1 .. MaxMoves : \E l \in PriceLevel :
            /\ BookAt[t][n][l] # BookAt[t][n - 1][l]
            /\ \A m \in PriceLevel \ {l} : BookAt[t][n][m] = BookAt[t][n - 1][m]

VARIABLES
    openPair,           \* the pairs with an open position
    rowRead,            \* handleOrderFilled has read the row as OPEN, and not subscribed
    activeSubscriptions, contractRefCounts,
    subscriptions,      \* the client's tickers
    connected, reconnecting, attempts, sid,
    localBook,          \* orderbookState and lastSequence, or NoBook; "from" is
                        \* history: the number of the snapshot it was begun with
    cooling,            \* the tickers resubscribed less than a second ago
    venueSubs, nextSid, venueSeq, channel,      \* external: the venue and the wire
    opens, lost         \* history

feedVars == <<openPair, rowRead, activeSubscriptions, contractRefCounts, subscriptions, connected,
              reconnecting, attempts, sid, localBook, cooling, venueSubs, nextSid,
              venueSeq, channel, opens, lost>>
pairsOpen == <<openPair, rowRead, activeSubscriptions, contractRefCounts, opens>>
link == <<connected, reconnecting, attempts>>
wire == <<venueSubs, nextSid, channel>>

NoBook == [from |-> -1, seq |-> -1, levels |-> [l \in PriceLevel |-> 0]]
NoSid == 0

Users(pairs, c) == Cardinality({p \in pairs : c \in LegsOf[p]})
TickersOf(pairs) == {t \in Ticker : Users(pairs, t) > 0}

(* onModuleInit subscribes the positions the last run left. *)
FeedInit ==
    /\ openPair \in SUBSET FeedPair /\ rowRead = {}
    /\ activeSubscriptions = openPair
    /\ contractRefCounts = [c \in Contract |-> Users(openPair, c)]
    /\ subscriptions = TickersOf(openPair)
    /\ connected = FALSE /\ reconnecting = TRUE /\ attempts = 0 /\ sid = NoSid
    /\ localBook = [t \in Ticker |-> NoBook] /\ cooling = {}
    /\ venueSubs = {} /\ nextSid = 1 /\ venueSeq = [t \in Ticker |-> 0] /\ channel = <<>>
    /\ opens = 0 /\ lost = 0

-----------------------------------------------------------------------------
(* The commands the client sends, as operators on the wire.                 *)
Snapshot(t) == [type |-> "snapshot", ticker |-> t, seq |-> venueSeq[t]]
Delta(t, n) == [type |-> "delta", ticker |-> t, seq |-> n]
Subscribed(n) == [type |-> "subscribed", sid |-> n]

SendSubscribes(tickers) ==
    LET order == SetToSeq(tickers)
        Answer(i) == IF i % 2 = 1 THEN Subscribed(nextSid + (i \div 2)) ELSE Snapshot(order[i \div 2]) IN
    /\ venueSubs' = venueSubs \cup {<<nextSid + i - 1, order[i]>> : i \in DOMAIN order}
    /\ nextSid' = nextSid + Cardinality(tickers)
    /\ channel' = channel \o [i \in 1 .. 2 * Cardinality(tickers) |-> Answer(i)]

(* A venue knows the ids of its own connection.                             *)
KnownSid == \E sub \in venueSubs : sub[1] = sid
SendDeleteMarkets(tickers) ==
    /\ venueSubs' = venueSubs \ ({sid} \X tickers)
    /\ UNCHANGED <<nextSid, channel>>

-----------------------------------------------------------------------------
(* subscribeForPosition and unsubscribeForPosition.                         *)

FirstUse(p) == {c \in LegsOf[p] : contractRefCounts[c] = 0}

(* fault: the first position to leave takes the contract with it *)
LastUseAny(p) == {c \in LegsOf[p] : contractRefCounts[c] <= 2}

LastUse(p) == {c \in LegsOf[p] : contractRefCounts[c] <= 1}

Subscribe(p) ==
    IF p \in activeSubscriptions
      THEN UNCHANGED <<activeSubscriptions, contractRefCounts, subscriptions, wire>>
      ELSE /\ activeSubscriptions' = activeSubscriptions \cup {p}
           /\ contractRefCounts' = [c \in Contract |->
                contractRefCounts[c] + (IF c \in LegsOf[p] THEN 1 ELSE 0)]
           /\ LET fresh == (FirstUse(p) \cap Ticker) \ subscriptions IN
              /\ subscriptions' = subscriptions \cup fresh
              /\ IF connected THEN SendSubscribes(fresh) ELSE UNCHANGED wire

Unsubscribe(p) ==
    IF p \notin activeSubscriptions
      THEN UNCHANGED <<activeSubscriptions, contractRefCounts, subscriptions, localBook, cooling, wire>>
      ELSE /\ activeSubscriptions' = activeSubscriptions \ {p}
           /\ contractRefCounts' = [c \in Contract |->
                IF c \in LastUse(p) THEN 0
                ELSE contractRefCounts[c] - (IF c \in LegsOf[p] THEN 1 ELSE 0)]
           /\ LET gone == LastUse(p) \cap Ticker IN
              /\ subscriptions' = subscriptions \ gone
              /\ localBook' = [t \in Ticker |-> IF t \in gone THEN NoBook ELSE localBook[t]]
              /\ cooling' = cooling \ gone
              /\ IF connected /\ sid # NoSid THEN SendDeleteMarkets(gone) ELSE UNCHANGED wire

(* A position opens; handleOrderFilled reads its row.                       *)
PositionOpens(p) ==
    /\ p \notin openPair /\ opens < MaxOpens /\ opens' = opens + 1
    /\ openPair' = openPair \cup {p} /\ rowRead' = rowRead \cup {p}
    /\ UNCHANGED <<activeSubscriptions, contractRefCounts, subscriptions, link, sid, localBook,
                   cooling, wire, venueSeq, lost>>

HandleOrderFilled(p) ==
    /\ p \in rowRead /\ rowRead' = rowRead \ {p}
    /\ Subscribe(p)
    /\ UNCHANGED <<openPair, link, sid, localBook, cooling, venueSeq, opens, lost>>

(* handleExitTriggered, handleSingleLegResolved.                            *)
PositionCloses(p) ==
    /\ p \in openPair /\ openPair' = openPair \ {p}
    /\ Unsubscribe(p)
    /\ UNCHANGED <<rowRead, link, sid, venueSeq, opens, lost>>

-----------------------------------------------------------------------------
(* connect, and its close handler.                                          *)

ConnectionOpens ==
    /\ reconnecting /\ nextSid + Cardinality(subscriptions) <= MaxSids
    /\ reconnecting' = FALSE /\ connected' = TRUE /\ attempts' = 0
    /\ SendSubscribes(subscriptions)
    /\ localBook' = [t \in Ticker |-> NoBook]
    /\ UNCHANGED <<pairsOpen, subscriptions, sid, cooling, venueSeq, lost>>

(* scheduleReconnect gives up after its retries.                            *)
ScheduleReconnect ==
    IF attempts < FeedRetries
      THEN attempts' = attempts + 1 /\ reconnecting' = TRUE
      ELSE reconnecting' = FALSE /\ UNCHANGED attempts

ConnectFails ==
    /\ reconnecting /\ ScheduleReconnect
    /\ localBook' = [t \in Ticker |-> NoBook]
    /\ UNCHANGED <<pairsOpen, subscriptions, connected, sid, cooling, wire, venueSeq, lost>>

ConnectionCloses ==
    /\ connected /\ connected' = FALSE /\ ScheduleReconnect
    /\ venueSubs' = {} /\ channel' = <<>>
    /\ UNCHANGED <<pairsOpen, subscriptions, sid, localBook, cooling, nextSid, venueSeq, lost>>

-----------------------------------------------------------------------------
(* handleMessage *)

Next1 == Head(channel)
Rest == Tail(channel)

HandleSubscribed ==
    /\ channel # <<>> /\ Next1.type = "subscribed"
    /\ sid' = Next1.sid /\ channel' = Rest
    /\ UNCHANGED <<pairsOpen, subscriptions, link, localBook, cooling, venueSubs, nextSid,
                   venueSeq, lost>>

HandleSnapshot ==
    /\ channel # <<>> /\ Next1.type = "snapshot" /\ channel' = Rest
    /\ localBook' = [localBook EXCEPT ![Next1.ticker] =
            [from |-> Next1.seq, seq |-> Next1.seq, levels |-> BookAt[Next1.ticker][Next1.seq]]]
    /\ UNCHANGED <<pairsOpen, subscriptions, link, sid, cooling, venueSubs, nextSid, venueSeq, lost>>

(* fault: only going back is a gap *)
GapBackwards(t, n) == localBook[t] # NoBook /\ n <= localBook[t].seq

Gap(t, n) == localBook[t] # NoBook /\ n # localBook[t].seq + 1

(* The level a message is about, and what it adds to it.                    *)
Changed(t, n) == CHOOSE l \in PriceLevel : BookAt[t][n][l] # BookAt[t][n - 1][l]
Change(t, n) == LET l == Changed(t, n) IN BookAt[t][n][l] - BookAt[t][n - 1][l]

(* applyDelta: a level that is new may push the worst out of a side, which  *)
(* is cut then and only then; less of a level that is not there is ignored. *)
Better(levels, l) == Cardinality({m \in PriceLevel : m > l /\ levels[m] > 0})

(* fault: the best levels are cut *)
CutBest(levels) ==
    [l \in PriceLevel |->
        IF Cardinality({m \in PriceLevel : m < l /\ levels[m] > 0}) < FeedDepth
        THEN levels[l] ELSE 0]

Cut(levels) == [l \in PriceLevel |-> IF Better(levels, l) < FeedDepth THEN levels[l] ELSE 0]
TakeIn(levels, l, delta) ==
    IF levels[l] = 0
      THEN IF delta > 0 THEN Cut([levels EXCEPT ![l] = delta]) ELSE levels
      ELSE [levels EXCEPT ![l] = IF @ + delta > 0 THEN @ + delta ELSE 0]

ApplyDelta ==
    /\ channel # <<>> /\ Next1.type = "delta" /\ channel' = Rest
    /\ localBook[Next1.ticker] # NoBook /\ ~Gap(Next1.ticker, Next1.seq)
    /\ LET t == Next1.ticker
           n == Next1.seq IN
       localBook' = [localBook EXCEPT ![t] =
            [from |-> @.from, seq |-> n, levels |-> TakeIn(@.levels, Changed(t, n), Change(t, n))]]
    /\ UNCHANGED <<pairsOpen, subscriptions, link, sid, cooling, venueSubs, nextSid, venueSeq, lost>>

(* debouncedResubscribe, also for a ticker nobody subscribes any more: the  *)
(* market is added to the last subscription id the client was told (one is  *)
(* told before any delta comes); an id of an earlier connection is refused. *)
Resubscribe(t) ==
    /\ cooling' = cooling \cup {t}
    /\ \/ /\ KnownSid
          /\ venueSubs' = venueSubs \cup {<<sid, t>>}
          /\ channel' = Append(Rest, Snapshot(t))
       \/ ~KnownSid /\ channel' = Rest /\ UNCHANGED venueSubs

RejectDelta ==
    /\ channel # <<>> /\ Next1.type = "delta"
    /\ localBook[Next1.ticker] = NoBook \/ Gap(Next1.ticker, Next1.seq)
    /\ IF Next1.ticker \in cooling
         THEN channel' = Rest /\ UNCHANGED <<cooling, venueSubs>>
         ELSE Resubscribe(Next1.ticker)
    /\ UNCHANGED <<pairsOpen, subscriptions, link, sid, localBook, nextSid, venueSeq, lost>>

CooldownEnds(t) ==
    /\ t \in cooling /\ cooling' = cooling \ {t}
    /\ UNCHANGED <<pairsOpen, subscriptions, link, sid, localBook, wire, venueSeq, lost>>

-----------------------------------------------------------------------------
(* External: a book changes, and every subscription of it is told, or a     *)
(* message is lost.                                                         *)
BookChanges(t) ==
    /\ venueSeq[t] < MaxMoves /\ Len(channel) < MaxChannel
    /\ venueSeq' = [venueSeq EXCEPT ![t] = @ + 1]
    /\ LET told == {sub \in venueSubs : sub[2] = t} IN
       \/ /\ channel' = channel \o [i \in 1 .. Cardinality(told) |-> Delta(t, venueSeq[t] + 1)]
          /\ UNCHANGED lost
       \/ told # {} /\ lost < MaxLost /\ lost' = lost + 1 /\ UNCHANGED channel
    /\ UNCHANGED <<pairsOpen, subscriptions, link, sid, localBook, cooling, venueSubs, nextSid>>

FeedNext ==
    \/ \E p \in FeedPair : PositionOpens(p) \/ HandleOrderFilled(p) \/ PositionCloses(p)
    \/ ConnectionOpens \/ ConnectFails \/ ConnectionCloses
    \/ HandleSubscribed \/ HandleSnapshot \/ ApplyDelta \/ RejectDelta
    \/ \E t \in Ticker : CooldownEnds(t) \/ BookChanges(t)

FeedSpec == FeedInit /\ [][FeedNext]_feedVars

-----------------------------------------------------------------------------
Message == [type : {"snapshot", "delta"}, ticker : Ticker, seq : 0 .. MaxMoves]
             \cup [type : {"subscribed"}, sid : 0 .. nextSid]

FeedBook == [from : -1 .. MaxMoves, seq : -1 .. MaxMoves, levels : [PriceLevel -> Nat]]

FeedTypeOK ==
    /\ openPair \subseteq FeedPair /\ rowRead \subseteq FeedPair
    /\ activeSubscriptions \subseteq FeedPair
    /\ contractRefCounts \in [Contract -> Nat]
    /\ subscriptions \subseteq Ticker /\ cooling \subseteq Ticker
    /\ connected \in BOOLEAN /\ reconnecting \in BOOLEAN
    /\ attempts \in 0 .. FeedRetries /\ sid \in 0 .. nextSid
    /\ nextSid \in Nat /\ venueSubs \subseteq (0 .. nextSid) \X Ticker
    /\ channel \in Seq(Message) /\ venueSeq \in [Ticker -> 0 .. MaxMoves]
    /\ localBook \in [Ticker -> FeedBook]

(* No order book given to the engine shows more at a price than the venue   *)
(* has there at the book's sequence number; and it shows exactly that at    *)
(* every price that was among the venue's best FeedDepth at each number     *)
(* since the snapshot: no lost delta, reconnection or late message of a     *)
(* contract given up leaves a change out or takes one in twice.  A level    *)
(* that others pushed out stays away, or comes back too small, until the    *)
(* next snapshot.                                                           *)
WithinVenue(t, book) ==
    \A l \in PriceLevel :
        /\ book.levels[l] <= BookAt[t][book.seq][l]
        /\ (\A n \in book.from .. book.seq : Better(BookAt[t][n], l) < FeedDepth)
              => book.levels[l] = BookAt[t][book.seq][l]
BooksWithinVenues == \A t \in Ticker : localBook[t] # NoBook => WithinVenue(t, localBook[t])

(* The client follows exactly the contracts of the subscribed pairs, a      *)
(* contract two pairs share until the last of them goes.                    *)
ClientFollowsPairs ==
    /\ \A c \in Contract : contractRefCounts[c] = Users(activeSubscriptions, c)
    /\ subscriptions = TickersOf(activeSubscriptions)

(* The feeds follow the positions, and the books follow the venue.          *)
FeedsSound == FeedTypeOK /\ BooksWithinVenues /\ ClientFollowsPairs
=============================================================================

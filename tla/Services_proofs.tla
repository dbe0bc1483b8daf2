---------------------------- MODULE Services_proofs ----------------------------
(***************************************************************************)
(* Proofs about the services around trading, each for any values of the    *)
(* constants of its module: the token bucket, the matching of contracts    *)
(* with its resolutions, clusters and scores, and the refresh, ingestion,  *)
(* validation and judgement of the data of the past.  A theorem speaks of  *)
(* the specification of its own module; MatchingAlwaysSound and            *)
(* HistoryAlwaysSound speak of Services, where every service runs beside   *)
(* the others.                                                             *)
(***************************************************************************)
EXTENDS Services, SumTheorems, SequenceTheorems

-----------------------------------------------------------------------------
(* The token bucket.                                                        *)

(* Calls that do not overlap find a bucket that is right: a call that was   *)
(* told to go on has a token, one that waited has been given one.           *)
CallsApart == \A c, d \in Caller : acquiring[c] # "idle" /\ acquiring[d] # "idle" => c = d

CallsBacked ==
    /\ CallsApart
    /\ tokens >= 0
    /\ \A c \in Caller : acquiring[c] = "passed" => tokens >= 1 /\ unrefilled = 0
    /\ \A c \in Caller : acquiring[c] = "due" => unrefilled >= 1

(* What is left in the bucket has not been let through: with it the         *)
(* requests of a window still stay within the burst and the refill.         *)
LeftWithinLimit ==
    issued - window.issued + Refilled <= Burst + (elapsed - window.elapsed)

LimiterInv ==
    /\ LimiterTypeOK
    /\ unrefilled <= elapsed
    /\ ~overlapped => CallsBacked /\ LeftWithinLimit

LEMMA LimiterStarts == LimiterInit => LimiterInv
<1> USE DEF LimiterInit
<1>1. Burst \in Nat /\ MaxElapsed \in Nat
  BY LimiterConstants
<1>2. LimiterInit => LimiterTypeOK /\ unrefilled <= elapsed
  <2> SUFFICES ASSUME LimiterInit PROVE LimiterTypeOK /\ unrefilled <= elapsed
    OBVIOUS
  <2>1. acquiring \in [Caller -> {"idle", "passed", "waiting", "due"}]
    OBVIOUS
  <2>2. window \in [elapsed : 0 .. MaxElapsed, issued : Nat]
    BY <1>1
  <2>3. tokens = Burst /\ unrefilled = 0 /\ elapsed = 0 /\ issued = 0
    OBVIOUS
  <2>4. overlapped \in BOOLEAN
    BY Zenon
  <2> HIDE DEF LimiterInit
  <2> QED BY <1>1, <2>1, <2>2, <2>3, <2>4 DEF LimiterTypeOK
<1>3. LimiterInit => CallsBacked
  BY <1>1 DEF CallsBacked, CallsApart
<1>4. LimiterInit => LeftWithinLimit
  BY <1>1 DEF LeftWithinLimit, Refilled
<1> QED BY <1>2, <1>3, <1>4 DEF LimiterInv

LEMMA LimiterStep == LimiterInv /\ [LimiterNext]_limiterVars => LimiterInv'
<1> SUFFICES ASSUME LimiterInv, [LimiterNext]_limiterVars PROVE LimiterInv'
  OBVIOUS
<1> USE LimiterConstants DEF LimiterInv, LimiterTypeOK
<1>1. ASSUME NEW c \in Caller, Acquire(c) PROVE LimiterInv'
  <2>1. LimiterTypeOK' /\ (unrefilled <= elapsed)'
    BY <1>1 DEF Acquire, Refilled
  <2>2. ASSUME ~overlapped' PROVE CallsBacked'
    <3>1. /\ CallsBacked
          /\ \A d \in Caller : acquiring[d] = "idle"
      BY <1>1, <2>2 DEF Acquire
    <3>2. \A d \in Caller : d # c => acquiring'[d] = "idle"
      BY <1>1, <3>1 DEF Acquire
    <3>3. CallsApart'
      BY <3>2 DEF CallsApart
    <3>4. tokens' = Refilled /\ unrefilled' = 0 /\ Refilled \in Nat
      BY <1>1, <3>1 DEF Acquire, Refilled, CallsBacked
    <3>5. acquiring'[c] = IF Refilled < 1 THEN "waiting" ELSE "passed"
      BY <1>1 DEF Acquire
    <3> QED BY <3>2, <3>3, <3>4, <3>5 DEF CallsBacked
  <2>3. ASSUME ~overlapped' PROVE LeftWithinLimit'
    BY <1>1, <2>3 DEF Acquire, Refilled, LeftWithinLimit
  <2> QED BY <2>1, <2>2, <2>3
<1>2. ASSUME NEW c \in Caller, TakeToken(c) PROVE LimiterInv'
  <2>1. LimiterTypeOK' /\ (unrefilled <= elapsed)'
    BY <1>2 DEF TakeToken, Refilled
  <2>2. ASSUME ~overlapped' PROVE CallsBacked'
    BY <1>2, <2>2 DEF TakeToken, Refilled, CallsBacked, CallsApart
  <2>3. ASSUME ~overlapped' PROVE LeftWithinLimit'
    <3>1. CallsBacked /\ LeftWithinLimit
      BY <1>2, <2>3 DEF TakeToken
    <3>2. Refilled' = Refilled - 1
      BY <1>2, <3>1 DEF TakeToken, Refilled, CallsBacked
    <3> QED BY <1>2, <3>1, <3>2 DEF TakeToken, LeftWithinLimit, Refilled
  <2> QED BY <2>1, <2>2, <2>3
<1>3. CASE LimiterTick
  <2>1. LimiterTypeOK' /\ (unrefilled <= elapsed)'
    BY <1>3 DEF LimiterTick
  <2>2. ASSUME ~overlapped' PROVE CallsBacked'
    BY <1>3, <2>2 DEF LimiterTick, CallsBacked, CallsApart
  <2>3. ASSUME ~overlapped' PROVE LeftWithinLimit'
    BY <1>3, <2>3 DEF LimiterTick, Refilled, LeftWithinLimit
  <2> QED BY <2>1, <2>2, <2>3
<1>4. CASE WindowBegins
  BY <1>4 DEF WindowBegins, CallsBacked, CallsApart, LeftWithinLimit, Refilled
<1>5. CASE UNCHANGED limiterVars
  BY <1>5 DEF limiterVars, CallsBacked, CallsApart, LeftWithinLimit, Refilled
<1> QED BY <1>1, <1>2, <1>3, <1>4, <1>5 DEF LimiterNext

(* Calls of acquireRead (acquireWrite) that do not overlap never pass, in   *)
(* any window of time, more requests than the burst and the refill.         *)
THEOREM LimiterAlwaysSound == LimiterSpec => []LimiterSound
<1>1. LimiterInv => LimiterSound
  BY LimiterConstants
  DEF LimiterInv, LimiterSound, LimiterTypeOK, SequentialWithinLimit, WithinLimit,
      CallsBacked, LeftWithinLimit, Refilled
<1> QED BY <1>1, LimiterStarts, LimiterStep, PTL DEF LimiterSpec

-----------------------------------------------------------------------------
(* The incremental refresh.                                                 *)

BothStreams == {"price", "depth"}
Fetch == [next : Nat \ {0}, held : SUBSET (1 .. LastRefresh), state : {"off", "on", "done", "failed"}]
Refreshing == [stage : {"off", "listing", "starting", "fetching", "recording", "checking", "done"},
               price : Fetch, depth : Fetch, end : 1 .. LastRefresh]

RefreshTyped ==
    /\ refresh \in [Refreshers -> Refreshing] /\ refreshing \in BOOLEAN
    /\ orchestrating \in BOOLEAN /\ refused \in BOOLEAN
    /\ predexon \in [price : SUBSET (1 .. LastRefresh), depth : SUBSET (1 .. LastRefresh)]
    /\ freshness \in [status : {"none", "success", "failed"}, success : 0 .. LastRefresh]
    /\ moment \in 1 .. LastRefresh

(* What a stream holds and what is stored leave nothing out up to the place *)
(* it has come to.                                                          *)
Covered(rows, f, upto) == 1 .. f.next - 1 \subseteq rows \cup f.held /\ f.held \subseteq 1 .. upto

Unbroken(rows) == \A i \in rows : 1 .. i \subseteq rows

DepthInv ==
    /\ Unbroken(predexon.depth)
    /\ \A r \in Refreshers : LET f == refresh[r].depth IN
          f.state = "on" => Covered(predexon.depth, f, f.next - 1)
PriceInv ==
    /\ Unbroken(predexon.price)
    /\ \A r \in Refreshers : LET f == refresh[r].price IN
          f.state = "on" => Covered(predexon.price, f, f.next)

RefreshInv == RefreshTyped /\ FlagGivenBack /\ DepthInv /\ (refused \/ PriceInv)

(* A refresh starts at the latest row, before which nothing is missing.     *)
LEMMA StartCovers ==
    ASSUME NEW rows \in SUBSET (1 .. LastRefresh), Unbroken(rows)
    PROVE  /\ IncrementalStart(rows) \in Nat \ {0}
           /\ 1 .. IncrementalStart(rows) - 1 \subseteq rows
<1>1. LastRefresh \in Nat
  BY RefreshConstants
<1>2. CASE rows = {}
  BY <1>2 DEF IncrementalStart
<1>3. CASE rows # {}
  <2>1. Max(rows) \in rows
    BY <1>1, <1>3, MaxOfSet
  <2>2. IncrementalStart(rows) = Max(rows) /\ 1 .. Max(rows) \subseteq rows /\ Max(rows) \in 1 .. LastRefresh
    BY <1>3, <2>1 DEF IncrementalStart, Unbroken
  <2> QED BY <1>1, <2>2
<1> QED BY <1>2, <1>3

(* What a stream inserts goes up to a place before which nothing is missing. *)
LEMMA InsertUnbroken ==
    ASSUME NEW rows \in SUBSET (1 .. LastRefresh), NEW held \in SUBSET (1 .. LastRefresh), NEW upto \in Int,
           Unbroken(rows), held \subseteq 1 .. upto, 1 .. upto - 1 \subseteq rows \cup held
    PROVE  Unbroken(rows \cup held)
<1> SUFFICES ASSUME NEW i \in rows \cup held, NEW j \in 1 .. i PROVE j \in rows \cup held
  BY DEF Unbroken
<1>1. LastRefresh \in Nat /\ i \in 1 .. LastRefresh
  BY RefreshConstants
<1>2. CASE i \in rows
  BY <1>2 DEF Unbroken
<1>3. CASE i \in held
  <2>1. i <= upto /\ (j = i \/ j \in 1 .. upto - 1)
    BY <1>1, <1>3
  <2> QED BY <1>3, <2>1
<1> QED BY <1>2, <1>3

LEMMA AtRestTyped == AtRest \in Refreshing /\ NoFetch \in Fetch
<1>1. 1 \in 1 .. LastRefresh
  BY RefreshConstants
<1>2. NoFetch \in Fetch
  BY DEF NoFetch, Fetch
<1> QED BY <1>1, <1>2 DEF AtRest, Refreshing

LEMMA RefreshStarts == RefreshInit => RefreshInv
<1> SUFFICES ASSUME RefreshInit PROVE RefreshInv
  OBVIOUS
<1>1. refresh \in [Refreshers -> Refreshing] /\ \A r \in Refreshers : refresh[r] = AtRest
  BY AtRestTyped DEF RefreshInit
<1>2. LastRefresh \in Nat /\ LastRefresh >= 1
  BY RefreshConstants
<1>3. predexon \in [price : SUBSET (1 .. LastRefresh), depth : SUBSET (1 .. LastRefresh)]
  BY DEF RefreshInit
<1>4. freshness \in [status : {"none", "success", "failed"}, success : 0 .. LastRefresh]
      /\ moment \in 1 .. LastRefresh
  BY <1>2 DEF RefreshInit
<1>5. RefreshTyped
  BY <1>1, <1>3, <1>4 DEF RefreshInit, RefreshTyped
<1>6. FlagGivenBack
  BY <1>1 DEF RefreshInit, FlagGivenBack, At, AtRest, Refreshers
<1>7. \A r \in Refreshers : refresh[r].price.state # "on" /\ refresh[r].depth.state # "on"
  BY <1>1 DEF AtRest, NoFetch
<1>8. DepthInv /\ PriceInv
  BY <1>7 DEF RefreshInit, DepthInv, PriceInv, Unbroken
<1> QED BY <1>5, <1>6, <1>8 DEF RefreshInv

(* A step that stores nothing, and in which no stream starts or goes on.    *)
LEMMA NoStreamMoves ==
    ASSUME RefreshInv, predexon' = predexon, refused' = refused,
           \A r \in Refreshers : /\ refresh'[r].price.state = "on" => refresh'[r].price = refresh[r].price
                                 /\ refresh'[r].depth.state = "on" => refresh'[r].depth = refresh[r].depth
    PROVE  DepthInv' /\ (refused' \/ PriceInv')
BY DEF RefreshInv, DepthInv, PriceInv, Covered, Unbroken

LEMMA StageGoes ==
    ASSUME RefreshInv, NEW r \in Refreshers, Goes(r, "listing") \/ Goes(r, "starting") \/ Goes(r, "checking")
                                             \/ Goes(r, "off")
    PROVE  /\ refresh' \in [Refreshers -> Refreshing]
           /\ \A s \in Refreshers : /\ refresh'[s].price = refresh[s].price
                                    /\ refresh'[s].depth = refresh[s].depth
           /\ \A s \in Refreshers \ {r} : refresh'[s] = refresh[s]
<1>1. PICK stage \in {"listing", "starting", "checking", "off"} : refresh' = [refresh EXCEPT ![r].stage = stage]
  BY DEF Goes
<1>2. refresh \in [Refreshers -> Refreshing]
  BY DEF RefreshInv, RefreshTyped
<1>3. [refresh[r] EXCEPT !.stage = stage] \in Refreshing
  BY <1>2 DEF Refreshing
<1>4. refresh' = [refresh EXCEPT ![r] = [refresh[r] EXCEPT !.stage = stage]]
  BY <1>1
<1>5. [refresh[r] EXCEPT !.stage = stage].price = refresh[r].price
      /\ [refresh[r] EXCEPT !.stage = stage].depth = refresh[r].depth
  BY <1>2 DEF Refreshing
<1> QED BY <1>2, <1>3, <1>4, <1>5

(* The steps of a refresh that are none of a stream.                        *)
LEMMA BeginningKeeps == ASSUME RefreshInv, BootRefresh \/ CronRefresh PROVE RefreshInv'
<1>1. PICK r \in Refreshers : Goes(r, "listing") /\ (r = "cron" => refreshing' = TRUE)
                             /\ (r = "boot" => refreshing' = refreshing)
  BY DEF BootRefresh, CronRefresh, Refreshers
<1>2. UNCHANGED <<orchestrating, predexon, refused, freshness, moment>>
  BY DEF BootRefresh, CronRefresh
<1>3. refreshing' \in BOOLEAN
  BY Zenon DEF BootRefresh, CronRefresh, RefreshInv, RefreshTyped
<1>4. RefreshTyped'
  BY <1>1, <1>2, <1>3, StageGoes DEF RefreshInv, RefreshTyped
<1>5. refresh'[r].stage = "listing"
  BY <1>1 DEF Goes, RefreshInv, RefreshTyped, Refreshing
<1>6. FlagGivenBack'
  BY <1>1, <1>5, StageGoes DEF FlagGivenBack, At, RefreshInv, Refreshers
<1>7. DepthInv' /\ (refused' \/ PriceInv')
  BY <1>1, <1>2, StageGoes, NoStreamMoves
<1> QED BY <1>4, <1>6, <1>7 DEF RefreshInv

LEMMA RestartKeeps ==
    ASSUME RefreshInv, Restarted, UNCHANGED <<predexon, refused, freshness, moment>>
    PROVE  RefreshInv'
<1>1. refresh' \in [Refreshers -> Refreshing] /\ \A r \in Refreshers : refresh'[r] = AtRest
  BY AtRestTyped DEF Restarted
<1>2. RefreshTyped'
  BY <1>1 DEF Restarted, RefreshInv, RefreshTyped
<1>3. FlagGivenBack'
  BY <1>1 DEF Restarted, FlagGivenBack, At, AtRest, Refreshers
<1>4. \A r \in Refreshers : refresh'[r].price.state # "on" /\ refresh'[r].depth.state # "on"
  BY <1>1 DEF AtRest, NoFetch
<1>5. DepthInv' /\ (refused' \/ PriceInv')
  BY <1>4, NoStreamMoves
<1> QED BY <1>2, <1>3, <1>5 DEF RefreshInv

LEMMA ThrowKeeps == ASSUME RefreshInv, NEW r \in Refreshers, RefreshThrows(r) PROVE RefreshInv'
<1>1. CASE r = "boot"
  BY <1>1, RestartKeeps DEF RefreshThrows
<1>2. CASE r = "cron"
  <2>1. refreshing' = FALSE /\ Goes(r, "off") /\ UNCHANGED <<orchestrating, predexon, refused, freshness, moment>>
    BY <1>2 DEF RefreshThrows
  <2>2. RefreshTyped'
    BY <2>1, StageGoes DEF RefreshInv, RefreshTyped
  <2>3. refresh'[r].stage = "off"
    BY <2>1 DEF Goes, RefreshInv, RefreshTyped, Refreshing
  <2>4. FlagGivenBack'
    BY <1>2, <2>1, <2>3 DEF FlagGivenBack, At
  <2>5. DepthInv' /\ (refused' \/ PriceInv')
    BY <2>1, StageGoes, NoStreamMoves
  <2> QED BY <2>2, <2>4, <2>5 DEF RefreshInv
<1> QED BY <1>1, <1>2 DEF Refreshers

(* A step that puts a record for r that has no stream under way.            *)
LEMMA RecordKeeps ==
    ASSUME RefreshInv, NEW r \in Refreshers, NEW new \in Refreshing,
           refresh' = [refresh EXCEPT ![r] = new], new.price.state # "on", new.depth.state # "on",
           refreshing' \in BOOLEAN, r = "cron" => (refreshing' <=> new.stage # "off"),
           r # "cron" => refreshing' = refreshing,
           UNCHANGED <<orchestrating, predexon, refused, moment>>,
           freshness' \in [status : {"none", "success", "failed"}, success : 0 .. LastRefresh]
    PROVE  RefreshInv'
<1>1. refresh' \in [Refreshers -> Refreshing] /\ refresh'[r] = new
      /\ \A s \in Refreshers \ {r} : refresh'[s] = refresh[s]
  BY DEF RefreshInv, RefreshTyped
<1>2. RefreshTyped'
  BY <1>1 DEF RefreshInv, RefreshTyped
<1>3. FlagGivenBack'
  <2>1. CASE r = "cron"
    BY <1>1, <2>1 DEF FlagGivenBack, At
  <2>2. CASE r # "cron"
    BY <1>1, <2>2 DEF FlagGivenBack, At, RefreshInv, Refreshers
  <2> QED BY <2>1, <2>2
<1>4. DepthInv' /\ (refused' \/ PriceInv')
  BY <1>1, NoStreamMoves
<1> QED BY <1>2, <1>3, <1>4 DEF RefreshInv

LEMMA SettlingKeeps ==
    ASSUME RefreshInv, NEW r \in Refreshers, FetchesSettled(r) \/ RefreshEnds(r) \/ ListTargets(r)
    PROVE  RefreshInv'
<1>1. RefreshTyped /\ FlagGivenBack /\ refreshing \in BOOLEAN /\ moment \in 1 .. LastRefresh
  BY DEF RefreshInv, RefreshTyped
<1>2. CASE FetchesSettled(r)
  <2> DEFINE new == [AtRest EXCEPT !.stage = "recording", !.end = moment]
  <2>1. new \in Refreshing /\ new.price.state # "on" /\ new.depth.state # "on" /\ new.stage # "off"
    BY <1>1, AtRestTyped DEF AtRest, NoFetch, Refreshing
  <2>2. refresh' = [refresh EXCEPT ![r] = new] /\ UNCHANGED <<refreshing, orchestrating, predexon, refused, moment, freshness>>
    BY <1>2 DEF FetchesSettled
  <2>3. r = "cron" => refreshing
    BY <1>1, <1>2 DEF FetchesSettled, At, FlagGivenBack
  <2> HIDE DEF new
  <2> QED BY <1>1, <2>1, <2>2, <2>3, RecordKeeps DEF RefreshTyped
<1>3. CASE RefreshEnds(r)
  <2> DEFINE new == [AtRest EXCEPT !.stage = IF r = "boot" THEN "done" ELSE "off"]
  <2>1. new \in Refreshing /\ new.price.state # "on" /\ new.depth.state # "on"
    BY AtRestTyped DEF AtRest, NoFetch, Refreshing
  <2>2. r = "cron" => new.stage = "off"
    BY DEF AtRest
  <2>3. refresh' = [refresh EXCEPT ![r] = new] /\ UNCHANGED <<orchestrating, predexon, refused, moment, freshness>>
        /\ refreshing' = IF r = "cron" THEN FALSE ELSE refreshing
    BY <1>3 DEF RefreshEnds
  <2>4. refreshing' \in BOOLEAN /\ (r = "cron" => refreshing' = FALSE) /\ (r # "cron" => refreshing' = refreshing)
    BY <1>1, <2>3, Zenon
  <2> HIDE DEF new
  <2> QED BY <1>1, <2>1, <2>2, <2>3, <2>4, RecordKeeps DEF RefreshTyped
<1>4. CASE ListTargets(r)
  <2>1. Goes(r, "starting") /\ UNCHANGED <<orchestrating, refreshing, predexon, refused, freshness, moment>>
        /\ refresh[r].stage = "listing"
    BY <1>4 DEF ListTargets, At
  <2>2. refresh'[r].stage = "starting"
    BY <1>1, <2>1 DEF Goes, RefreshTyped, Refreshing
  <2>3. RefreshTyped'
    BY <1>1, <2>1, StageGoes DEF RefreshTyped
  <2>4. FlagGivenBack'
    BY <1>1, <2>1, <2>2, StageGoes DEF FlagGivenBack, At, Refreshers
  <2>5. DepthInv' /\ (refused' \/ PriceInv')
    BY <2>1, StageGoes, NoStreamMoves
  <2> QED BY <2>3, <2>4, <2>5 DEF RefreshInv
<1> QED BY <1>2, <1>3, <1>4

LEMMA RecordingKeeps == ASSUME RefreshInv, NEW r \in Refreshers, FreshnessRecorded(r) PROVE RefreshInv'
<1>1. RefreshTyped /\ FlagGivenBack /\ refresh[r] \in Refreshing
  BY DEF RefreshInv, RefreshTyped
<1>2. Goes(r, "checking") /\ UNCHANGED <<orchestrating, refreshing, predexon, refused, moment>>
      /\ refresh[r].stage = "recording"
  BY DEF FreshnessRecorded, At
<1>3. freshness' \in [status : {"none", "success", "failed"}, success : 0 .. LastRefresh]
  <2>1. refresh[r].end \in 0 .. LastRefresh
    BY <1>1, RefreshConstants DEF Refreshing
  <2>2. freshness' = [freshness EXCEPT !.status = "failed"]
        \/ freshness' = [status |-> "success", success |-> refresh[r].end]
    BY DEF FreshnessRecorded
  <2> QED BY <1>1, <2>1, <2>2 DEF RefreshTyped
<1>4. refresh'[r].stage = "checking"
  BY <1>1, <1>2 DEF Goes, RefreshTyped, Refreshing
<1>5. RefreshTyped'
  BY <1>1, <1>2, <1>3, StageGoes DEF RefreshTyped
<1>6. FlagGivenBack'
  BY <1>1, <1>2, <1>4, StageGoes DEF FlagGivenBack, At, Refreshers
<1>7. DepthInv' /\ (refused' \/ PriceInv')
  BY <1>2, StageGoes, NoStreamMoves
<1> QED BY <1>5, <1>6, <1>7 DEF RefreshInv

LEMMA FailureKeeps == ASSUME RefreshInv, NEW r \in Refreshers, FetchFails(r) PROVE RefreshInv'
<1>1. RefreshTyped /\ FlagGivenBack /\ refresh[r] \in Refreshing
  BY DEF RefreshInv, RefreshTyped
<1>2. PICK kind \in {"price", "depth"} :
          refresh' = [refresh EXCEPT ![r][kind] = [NoFetch EXCEPT !.state = "failed"]]
  BY DEF FetchFails
<1>3. UNCHANGED <<refreshing, orchestrating, predexon, refused, freshness, moment>>
  BY DEF FetchFails
<1> DEFINE emptied == [NoFetch EXCEPT !.state = "failed"]
           new == [refresh[r] EXCEPT ![kind] = emptied]
<1>4. emptied \in Fetch /\ emptied.state # "on"
  BY AtRestTyped DEF Fetch, NoFetch
<1>5. /\ new \in Refreshing /\ new.stage = refresh[r].stage
      /\ new.price.state = "on" => new.price = refresh[r].price
      /\ new.depth.state = "on" => new.depth = refresh[r].depth
  <2> HIDE DEF emptied
  <2>1. CASE kind = "price"
    BY <1>1, <1>4, <2>1 DEF Refreshing
  <2>2. CASE kind = "depth"
    BY <1>1, <1>4, <2>2 DEF Refreshing
  <2> QED BY <2>1, <2>2
<1>6. refresh' = [refresh EXCEPT ![r] = new]
  BY <1>2
<1> HIDE DEF new
<1>7. refresh' \in [Refreshers -> Refreshing] /\ refresh'[r] = new
      /\ \A s \in Refreshers \ {r} : refresh'[s] = refresh[s]
  BY <1>1, <1>5, <1>6 DEF RefreshTyped
<1>8. RefreshTyped'
  BY <1>1, <1>3, <1>7 DEF RefreshTyped
<1>9. FlagGivenBack'
  BY <1>1, <1>3, <1>5, <1>7 DEF FlagGivenBack, At, Refreshers
<1>10. DepthInv' /\ (refused' \/ PriceInv')
  BY <1>3, <1>5, <1>7, NoStreamMoves
<1> QED BY <1>8, <1>9, <1>10 DEF RefreshInv

LEMMA StartsKeep == ASSUME RefreshInv, NEW r \in Refreshers, StartsRead(r) PROVE RefreshInv'
<1>1. RefreshTyped /\ FlagGivenBack /\ DepthInv
  BY DEF RefreshInv
<1>2. UNCHANGED <<orchestrating, refreshing, predexon, refused, freshness, moment>> /\ refresh[r].stage = "starting"
  BY DEF StartsRead, At
<1>3. r = "cron" => refreshing
  BY <1>1, <1>2 DEF FlagGivenBack, At
<1> DEFINE price == [NoFetch EXCEPT !.next = IncrementalStart(predexon.price), !.state = "on"]
           depth == [NoFetch EXCEPT !.next = IncrementalStart(predexon.depth), !.state = "on"]
           started == [stage |-> "fetching", end |-> moment, price |-> price, depth |-> depth]
           failed == [AtRest EXCEPT !.stage = "recording", !.price.state = "failed"]
<1>4. CASE refresh' = [refresh EXCEPT ![r] = failed]
  <2>1. failed \in Refreshing /\ failed.price.state # "on" /\ failed.depth.state # "on" /\ failed.stage # "off"
    BY AtRestTyped DEF AtRest, NoFetch, Refreshing, Fetch
  <2> HIDE DEF failed
  <2> QED BY <1>1, <1>2, <1>3, <1>4, <2>1, RecordKeeps DEF RefreshTyped
<1>5. CASE refresh' = [refresh EXCEPT ![r] = started]
  <2>1. /\ IncrementalStart(predexon.depth) \in Nat \ {0}
        /\ 1 .. IncrementalStart(predexon.depth) - 1 \subseteq predexon.depth
    BY <1>1, StartCovers DEF RefreshTyped, DepthInv
  <2>2. /\ IncrementalStart(predexon.price) \in Nat \ {0}
        /\ ~refused => 1 .. IncrementalStart(predexon.price) - 1 \subseteq predexon.price
    <3>1. predexon.price \in SUBSET (1 .. LastRefresh) /\ LastRefresh \in Nat
      BY <1>1, RefreshConstants DEF RefreshTyped
    <3>2. IncrementalStart(predexon.price) \in Nat \ {0}
      <4>1. CASE predexon.price = {}
        BY <4>1 DEF IncrementalStart
      <4>2. CASE predexon.price # {}
        <5>1. Max(predexon.price) \in predexon.price
          BY <3>1, <4>2, MaxOfSet
        <5> QED BY <3>1, <4>2, <5>1 DEF IncrementalStart
      <4> QED BY <4>1, <4>2
    <3>3. ~refused => Unbroken(predexon.price)
      BY DEF RefreshInv, PriceInv
    <3> QED BY <3>1, <3>2, <3>3, StartCovers
  <2>3. /\ price.next = IncrementalStart(predexon.price) /\ price.held = {}
        /\ depth.next = IncrementalStart(predexon.depth) /\ depth.held = {}
        /\ price \in Fetch /\ depth \in Fetch
    <3>1. NoFetch.held = {}
      BY DEF NoFetch
    <3> QED BY <2>1, <2>2, <3>1, AtRestTyped DEF Fetch
  <2> HIDE DEF price, depth
  <2>4. started \in Refreshing /\ started.stage = "fetching" /\ started.price = price /\ started.depth = depth
    BY <1>1, <2>3 DEF Refreshing, RefreshTyped
  <2> HIDE DEF started
  <2>5. refresh' \in [Refreshers -> Refreshing] /\ refresh'[r] = started
        /\ \A s \in Refreshers \ {r} : refresh'[s] = refresh[s]
    BY <1>1, <1>5, <2>4 DEF RefreshTyped
  <2>6. RefreshTyped'
    BY <1>1, <1>2, <2>5 DEF RefreshTyped
  <2>7. FlagGivenBack'
    BY <1>1, <1>2, <2>4, <2>5 DEF FlagGivenBack, At, Refreshers
  <2>8. Covered(predexon.depth, depth, depth.next - 1) /\ (refused \/ Covered(predexon.price, price, price.next))
    BY <2>1, <2>2, <2>3 DEF Covered
  <2>9. DepthInv'
    BY <1>1, <1>2, <2>4, <2>5, <2>8 DEF DepthInv, Covered, Unbroken
  <2>10. refused' \/ PriceInv'
    <3> SUFFICES ASSUME ~refused PROVE PriceInv'
      BY <1>2
    <3>1. PriceInv
      BY DEF RefreshInv
    <3> QED BY <1>2, <2>4, <2>5, <2>8, <3>1 DEF PriceInv, Covered, Unbroken
  <2> QED BY <2>6, <2>7, <2>9, <2>10 DEF RefreshInv
<1> QED BY <1>4, <1>5 DEF StartsRead

-----------------------------------------------------------------------------
(* What a stream has fetched is kept, or inserted with all that was kept.   *)
FlushedTo(r, kind, held, next, state) ==
    \E kept \in {{}, held} :
        /\ refresh' = [refresh EXCEPT ![r][kind] = [next |-> next, held |-> kept, state |-> state]]
        /\ \/ kept = {} /\ predexon' = [predexon EXCEPT ![kind] = @ \cup held]
           \/ kept = held /\ state = "on" /\ predexon' = predexon

(* The other refresher and the other stream rest; nothing stored is lost.   *)
StreamMoved(r, kind, held, next, state) ==
    /\ \A s \in Refreshers \ {r} : refresh'[s] = refresh[s]
    /\ \A other \in BothStreams \ {kind} : /\ refresh'[r][other] = refresh[r][other]
                                        /\ predexon'[other] = predexon[other]
    /\ refresh'[r][kind].state = state
    /\ refresh'[r][kind].next = next
    /\ \/ predexon'[kind] = predexon[kind] \cup held /\ refresh'[r][kind].held = {}
       \/ predexon'[kind] = predexon[kind] /\ refresh'[r][kind].held = held /\ state = "on"

LEMMA FlushShape ==
    ASSUME RefreshTyped, NEW r \in Refreshers, NEW kind \in BothStreams, NEW held \in SUBSET (1 .. LastRefresh),
           NEW next \in Nat \ {0}, NEW state \in {"on", "done"}, FlushedTo(r, kind, held, next, state),
           FlagGivenBack, refused' \in BOOLEAN, UNCHANGED <<refreshing, orchestrating, freshness, moment>>
    PROVE  RefreshTyped' /\ FlagGivenBack' /\ StreamMoved(r, kind, held, next, state)
<1>1. PICK kept \in {{}, held} :
        /\ refresh' = [refresh EXCEPT ![r][kind] = [next |-> next, held |-> kept, state |-> state]]
        /\ \/ kept = {} /\ predexon' = [predexon EXCEPT ![kind] = @ \cup held]
           \/ kept = held /\ state = "on" /\ predexon' = predexon
  BY DEF FlushedTo
<1> DEFINE new == [next |-> next, held |-> kept, state |-> state]
           written == [refresh[r] EXCEPT ![kind] = new]
<1>2. refresh' = [refresh EXCEPT ![r] = written]
  BY <1>1
<1>3. new \in Fetch /\ new.next = next /\ new.held = kept /\ new.state = state
  BY DEF Fetch
<1> HIDE DEF new
<1>5. /\ written \in Refreshing /\ written.stage = refresh[r].stage /\ written[kind] = new
      /\ \A other \in BothStreams \ {kind} : written[other] = refresh[r][other]
  <2>1. refresh[r] \in Refreshing
    BY DEF RefreshTyped
  <2>2. CASE kind = "price"
    BY <1>3, <2>1, <2>2 DEF Refreshing, BothStreams
  <2>3. CASE kind = "depth"
    BY <1>3, <2>1, <2>3 DEF Refreshing, BothStreams
  <2> QED BY <2>2, <2>3 DEF BothStreams
<1> HIDE DEF written
<1>6. refresh' \in [Refreshers -> Refreshing] /\ refresh'[r] = written
      /\ \A s \in Refreshers \ {r} : refresh'[s] = refresh[s]
  BY <1>2, <1>5 DEF RefreshTyped
<1>7. /\ predexon' \in [price : SUBSET (1 .. LastRefresh), depth : SUBSET (1 .. LastRefresh)]
      /\ \A other \in BothStreams \ {kind} : predexon'[other] = predexon[other]
      /\ \/ predexon'[kind] = predexon[kind] \cup held /\ kept = {}
         \/ predexon'[kind] = predexon[kind] /\ kept = held /\ state = "on"
  <2> DEFINE more == predexon[kind] \cup held
  <2>1. predexon \in [price : SUBSET (1 .. LastRefresh), depth : SUBSET (1 .. LastRefresh)]
    BY DEF RefreshTyped
  <2>2. more \in SUBSET (1 .. LastRefresh)
    BY <2>1 DEF BothStreams
  <2>3. \/ predexon' = [predexon EXCEPT ![kind] = more] /\ kept = {}
        \/ predexon' = predexon /\ kept = held /\ state = "on"
    BY <1>1
  <2> HIDE DEF more
  <2>4. /\ predexon' \in [price : SUBSET (1 .. LastRefresh), depth : SUBSET (1 .. LastRefresh)]
        /\ \A other \in BothStreams \ {kind} : predexon'[other] = predexon[other]
    BY <2>1, <2>2, <2>3 DEF BothStreams
  <2>5. \/ predexon'[kind] = more /\ kept = {}
        \/ predexon'[kind] = predexon[kind] /\ kept = held /\ state = "on"
    BY <2>1, <2>3 DEF BothStreams
  <2> QED BY <2>4, <2>5 DEF more
<1>8. RefreshTyped'
  BY <1>6, <1>7 DEF RefreshTyped
<1>9. FlagGivenBack'
  BY <1>5, <1>6 DEF FlagGivenBack, At, Refreshers
<1>10. StreamMoved(r, kind, held, next, state)
  BY <1>3, <1>5, <1>6, <1>7 DEF StreamMoved
<1> QED BY <1>8, <1>9, <1>10

LEMMA DepthFlushKeeps ==
    ASSUME RefreshInv, NEW r \in Refreshers, NEW held \in SUBSET (1 .. LastRefresh),
           NEW next \in Nat \ {0}, NEW state \in {"on", "done"}, FlushedTo(r, "depth", held, next, state),
           NEW upto \in Int, held \subseteq 1 .. upto, 1 .. upto - 1 \subseteq predexon.depth \cup held,
           state = "on" => held \subseteq 1 .. next - 1 /\ 1 .. next - 1 \subseteq predexon.depth \cup held,
           UNCHANGED <<refreshing, orchestrating, refused, freshness, moment>>
    PROVE  RefreshInv'
<1>1. RefreshTyped /\ FlagGivenBack /\ DepthInv /\ refused' \in BOOLEAN /\ "depth" \in BothStreams
  BY DEF RefreshInv, RefreshTyped, BothStreams
<1>2. /\ RefreshTyped' /\ FlagGivenBack'
      /\ \A s \in Refreshers \ {r} : refresh'[s] = refresh[s]
      /\ refresh'[r]["price"] = refresh[r]["price"] /\ predexon'["price"] = predexon["price"]
      /\ refresh'[r]["depth"].state = state
      /\ refresh'[r]["depth"].next = next
      /\ \/ predexon'["depth"] = predexon["depth"] \cup held /\ refresh'[r]["depth"].held = {}
         \/ predexon'["depth"] = predexon["depth"] /\ refresh'[r]["depth"].held = held /\ state = "on"
  <2>1. RefreshTyped' /\ FlagGivenBack' /\ StreamMoved(r, "depth", held, next, state)
    BY <1>1, FlushShape
  <2> QED BY <2>1 DEF StreamMoved, BothStreams
<1>3. Unbroken(predexon'.depth) /\ predexon.depth \subseteq predexon'.depth
  <2>1. Unbroken(predexon.depth \cup held)
    BY <1>1, InsertUnbroken DEF RefreshTyped, DepthInv
  <2> QED BY <1>1, <1>2, <2>1 DEF DepthInv
<1>4. ASSUME NEW s \in Refreshers, refresh'[s].depth.state = "on"
      PROVE  Covered(predexon'.depth, refresh'[s].depth, refresh'[s].depth.next - 1)
  <2>1. CASE s = r
    <3>1. state = "on"
      BY <1>2, <1>4, <2>1
    <3> QED BY <1>2, <2>1, <3>1 DEF Covered
  <2>2. CASE s # r
    <3>1. Covered(predexon.depth, refresh[s].depth, refresh[s].depth.next - 1) /\ refresh'[s] = refresh[s]
      BY <1>1, <1>2, <1>4, <2>2 DEF DepthInv
    <3> QED BY <1>3, <3>1 DEF Covered
  <2> QED BY <2>1, <2>2
<1>5. DepthInv'
  BY <1>3, <1>4 DEF DepthInv
<1>6. refused' \/ PriceInv'
  <2>1. refused \/ PriceInv
    BY DEF RefreshInv
  <2>2. \A s \in Refreshers : refresh'[s].price = refresh[s].price
    BY <1>2
  <2> QED BY <1>2, <2>1, <2>2 DEF PriceInv
<1> QED BY <1>2, <1>5, <1>6 DEF RefreshInv

LEMMA PriceFlushKeeps ==
    ASSUME RefreshInv, NEW r \in Refreshers, NEW held \in SUBSET (1 .. LastRefresh),
           NEW next \in Nat \ {0}, NEW state \in {"on", "done"}, FlushedTo(r, "price", held, next, state),
           NEW upto \in Int,
           ~refused' => /\ held \subseteq 1 .. upto /\ 1 .. upto - 1 \subseteq predexon.price \cup held
                        /\ state = "on" => held \subseteq 1 .. next /\ 1 .. next - 1 \subseteq predexon.price \cup held,
           refused' \in BOOLEAN, ~refused' => ~refused,
           UNCHANGED <<refreshing, orchestrating, freshness, moment>>
    PROVE  RefreshInv'
<1>1. RefreshTyped /\ FlagGivenBack /\ DepthInv /\ "price" \in BothStreams
  BY DEF RefreshInv, BothStreams
<1>2. /\ RefreshTyped' /\ FlagGivenBack'
      /\ \A s \in Refreshers \ {r} : refresh'[s] = refresh[s]
      /\ refresh'[r]["depth"] = refresh[r]["depth"] /\ predexon'["depth"] = predexon["depth"]
      /\ refresh'[r]["price"].state = state
      /\ refresh'[r]["price"].next = next
      /\ \/ predexon'["price"] = predexon["price"] \cup held /\ refresh'[r]["price"].held = {}
         \/ predexon'["price"] = predexon["price"] /\ refresh'[r]["price"].held = held /\ state = "on"
  <2>1. RefreshTyped' /\ FlagGivenBack' /\ StreamMoved(r, "price", held, next, state)
    BY <1>1, FlushShape
  <2> QED BY <2>1 DEF StreamMoved, BothStreams
<1>3. DepthInv'
  <2>1. \A s \in Refreshers : refresh'[s].depth = refresh[s].depth
    BY <1>2
  <2> QED BY <1>1, <1>2, <2>1 DEF DepthInv
<1>4. ASSUME ~refused' PROVE PriceInv'
  <2>1. PriceInv
    BY <1>4 DEF RefreshInv
  <2>2. Unbroken(predexon'.price) /\ predexon.price \subseteq predexon'.price
    <3>1. Unbroken(predexon.price \cup held)
      BY <1>1, <1>4, <2>1, InsertUnbroken DEF RefreshTyped, PriceInv
    <3> QED BY <1>2, <2>1, <3>1 DEF PriceInv
  <2>3. ASSUME NEW s \in Refreshers, refresh'[s].price.state = "on"
        PROVE  Covered(predexon'.price, refresh'[s].price, refresh'[s].price.next)
    <3>1. CASE s = r
      <4>1. state = "on"
        BY <1>2, <2>3, <3>1
      <4> QED BY <1>2, <1>4, <3>1, <4>1 DEF Covered
    <3>2. CASE s # r
      <4>1. Covered(predexon.price, refresh[s].price, refresh[s].price.next) /\ refresh'[s] = refresh[s]
        BY <1>2, <2>1, <2>3, <3>2 DEF PriceInv
      <4> QED BY <2>2, <4>1 DEF Covered
    <3> QED BY <3>1, <3>2
  <2> QED BY <2>2, <2>3 DEF PriceInv
<1> QED BY <1>2, <1>3, <1>4 DEF RefreshInv

LEMMA PageKeeps == ASSUME RefreshInv, NEW r \in Refreshers, DepthPage(r) PROVE RefreshInv'
<1> DEFINE f == refresh[r].depth
           end == refresh[r].end
           to == Min({f.next + PageRows - 1, end})
           more == f.held \cup (f.next .. to)
<1>1. RefreshTyped /\ DepthInv /\ LastRefresh \in Nat /\ PageRows \in Nat /\ PageRows >= 1
  BY RefreshConstants DEF RefreshInv
<1>2. f \in Fetch /\ end \in 1 .. LastRefresh
  BY <1>1 DEF RefreshTyped, Refreshing
<1>3. f.next \in Nat \ {0} /\ f.held \in SUBSET (1 .. LastRefresh) /\ f.state = "on"
  BY <1>2 DEF DepthPage, Fetching, Fetch
<1>4. f.held \subseteq 1 .. f.next - 1 /\ 1 .. f.next - 1 \subseteq predexon.depth \cup f.held
  BY <1>1, <1>3 DEF DepthInv, Covered
<1>5. to \in {f.next + PageRows - 1, end} /\ to <= end /\ to \in Nat
  <2> HIDE DEF f, end
  <2> QED BY <1>1, <1>2, <1>3, MinOfTwo, SMTT(30)
<1>6. UNCHANGED <<orchestrating, refreshing, refused, freshness, moment>>
  BY DEF DepthPage
<1>7. \/ FlushedTo(r, "depth", more, to + 1, IF to = end THEN "done" ELSE "on")
      \/ FlushedTo(r, "depth", f.held, f.next, "done")
  BY DEF DepthPage, Flushed, FlushedTo
<1> HIDE DEF to, f, end
<1>8. CASE FlushedTo(r, "depth", more, to + 1, IF to = end THEN "done" ELSE "on")
  <2> DEFINE upto == IF to >= f.next THEN to ELSE f.next - 1
             state == IF to = end THEN "done" ELSE "on"
             next == to + 1
  <2>1. more \in SUBSET (1 .. LastRefresh)
    BY <1>1, <1>2, <1>3, <1>5, SMTT(30)
  <2>2. upto \in Int /\ more \subseteq 1 .. upto /\ 1 .. upto - 1 \subseteq predexon.depth \cup more
    BY <1>3, <1>4, <1>5
  <2>3. state = "on" => to >= f.next
    BY <1>1, <1>2, <1>3, <1>5
  <2>4. state = "on" => /\ more \subseteq 1 .. next - 1
                        /\ 1 .. next - 1 \subseteq predexon.depth \cup more
    BY <1>3, <1>4, <1>5, <2>3
  <2>5. next \in Nat \ {0} /\ state \in {"on", "done"}
    BY <1>5
  <2>6. FlushedTo(r, "depth", more, next, state)
    BY <1>8
  <2> HIDE DEF upto, state, next, more
  <2> QED BY <1>6, <2>1, <2>2, <2>4, <2>5, <2>6, DepthFlushKeeps
<1>9. CASE FlushedTo(r, "depth", f.held, f.next, "done")
  <2>1. f.next - 1 \in Int /\ 1 .. f.next - 1 - 1 \subseteq predexon.depth \cup f.held
    BY <1>3, <1>4
  <2> QED BY <1>3, <1>4, <1>6, <1>9, <2>1, DepthFlushKeeps
<1> QED BY <1>7, <1>8, <1>9

LEMMA ChunkKeeps == ASSUME RefreshInv, NEW r \in Refreshers, PriceChunk(r) PROVE RefreshInv'
<1> DEFINE f == refresh[r].price
           end == refresh[r].end
           to == Min({f.next + ChunkSpan, end})
           more == f.held \cup (f.next .. to)
           state == IF to = end THEN "done" ELSE "on"
<1>1. RefreshTyped /\ LastRefresh \in Nat /\ ChunkSpan \in Nat /\ ChunkSpan >= 1
  BY RefreshConstants DEF RefreshInv
<1>2. f \in Fetch /\ end \in 1 .. LastRefresh /\ refused \in BOOLEAN
  BY <1>1 DEF RefreshTyped, Refreshing
<1>3. f.next \in Nat \ {0} /\ f.held \in SUBSET (1 .. LastRefresh) /\ f.state = "on"
  BY <1>2 DEF PriceChunk, Fetching, Fetch
<1>4. ~refused => f.held \subseteq 1 .. f.next /\ 1 .. f.next - 1 \subseteq predexon.price \cup f.held
  BY <1>3 DEF RefreshInv, PriceInv, Covered
<1>5. to \in {f.next + ChunkSpan, end} /\ to <= end /\ to \in Nat \ {0}
  <2> HIDE DEF f, end
  <2> QED BY <1>1, <1>2, <1>3, MinOfTwo
<1>6. UNCHANGED <<orchestrating, refreshing, freshness, moment>>
  BY DEF PriceChunk
<1>7. \/ FlushedTo(r, "price", f.held, end, "done") /\ refused' = refused
      \/ FlushedTo(r, "price", more, to, state) /\ refused' = refused /\ ~(f.next >= end)
      \/ FlushedTo(r, "price", f.held, to, state) /\ refused' = TRUE
  BY DEF PriceChunk, Flushed, FlushedTo
<1>8. state \in {"on", "done"} /\ (state = "on" => to = f.next + ChunkSpan)
  BY <1>5
<1> HIDE DEF state, to, f, end
<1>9. CASE FlushedTo(r, "price", f.held, end, "done") /\ refused' = refused
  <2>1. end \in Nat \ {0} /\ f.next \in Int /\ refused' \in BOOLEAN
    BY <1>2, <1>3, <1>9
  <2> QED BY <1>3, <1>4, <1>6, <1>9, <2>1, PriceFlushKeeps
<1>10. CASE FlushedTo(r, "price", more, to, state) /\ refused' = refused /\ ~(f.next >= end)
  <2>1. f.next <= to
    BY <1>1, <1>2, <1>3, <1>5, <1>10
  <2>2. more \in SUBSET (1 .. LastRefresh)
    BY <1>1, <1>2, <1>3, <1>5
  <2>3. ~refused => more \subseteq 1 .. to /\ 1 .. to - 1 \subseteq predexon.price \cup more
    BY <1>3, <1>4, <1>5, <2>1
  <2>4. to \in Int /\ refused' \in BOOLEAN
    BY <1>2, <1>5, <1>10
  <2>5. ~refused' => more \subseteq 1 .. to /\ 1 .. to - 1 \subseteq predexon.price \cup more
    BY <1>10, <2>3
  <2>6. ~refused' => ~refused
    BY <1>10
  <2> HIDE DEF more
  <2> QED BY <1>5, <1>6, <1>8, <1>10, <2>2, <2>4, <2>5, <2>6, PriceFlushKeeps, ZenonT(60)
<1>11. CASE FlushedTo(r, "price", f.held, to, state) /\ refused' = TRUE
  <2>1. to \in Int
    BY <1>5
  <2>2. refused' \in BOOLEAN /\ refused'
    BY <1>11, Zenon
  <2> QED BY <1>3, <1>5, <1>6, <1>8, <1>11, <2>1, <2>2, PriceFlushKeeps
<1> QED BY <1>7, <1>9, <1>10, <1>11

LEMMA OthersKeep == ASSUME RefreshInv, OrchestratorMoves \/ RefreshWaits \/ UNCHANGED refreshVars PROVE RefreshInv'
<1>1. UNCHANGED <<refresh, refreshing, predexon, refused, freshness>>
  BY DEF OrchestratorMoves, RefreshWaits, refreshVars
<1>2. moment' \in 1 .. LastRefresh
  BY RefreshConstants DEF OrchestratorMoves, RefreshWaits, refreshVars, RefreshInv, RefreshTyped
<1>3. orchestrating' \in BOOLEAN
  <2>1. orchestrating' = ~orchestrating \/ orchestrating' = orchestrating
    BY DEF OrchestratorMoves, RefreshWaits, refreshVars
  <2> QED BY <2>1, Zenon DEF RefreshInv, RefreshTyped
<1>4. RefreshTyped'
  BY <1>1, <1>2, <1>3 DEF RefreshInv, RefreshTyped
<1>5. FlagGivenBack'
  BY <1>1 DEF RefreshInv, FlagGivenBack, At
<1>6. DepthInv' /\ (refused' \/ PriceInv')
  BY <1>1, NoStreamMoves
<1> QED BY <1>4, <1>5, <1>6 DEF RefreshInv

LEMMA RefreshGoesOn == RefreshInv /\ [RefreshNext]_refreshVars => RefreshInv'
<1> SUFFICES ASSUME RefreshInv, [RefreshNext]_refreshVars PROVE RefreshInv'
  OBVIOUS
<1>1. CASE BootRefresh \/ CronRefresh
  BY <1>1, BeginningKeeps
<1>2. CASE RefreshCrashes
  BY <1>2, RestartKeeps DEF RefreshCrashes
<1>3. CASE OrchestratorMoves \/ RefreshWaits \/ UNCHANGED refreshVars
  BY <1>3, OthersKeep
<1>4. ASSUME NEW r \in Refreshers, RefreshStep(r) PROVE RefreshInv'
  BY <1>4, SettlingKeeps, StartsKeep, ChunkKeeps, PageKeeps, FailureKeeps, RecordingKeeps, ThrowKeeps
  DEF RefreshStep
<1> QED BY <1>1, <1>2, <1>3, <1>4 DEF RefreshNext

(* For any spans, pages, buffers, failures, crashes and overlapping         *)
(* refreshes: what is stored of a contract leaves nothing out below its     *)
(* latest row, where the next refresh starts, unless a chunk of prices was  *)
(* refused; and the flag of the cron is held exactly while its refresh is.  *)
THEOREM RefreshAlwaysSound == RefreshSpec => []RefreshSound
<1>1. RefreshInv => RefreshSound
  <2> SUFFICES ASSUME RefreshInv PROVE RefreshSound
    OBVIOUS
  <2>1. RefreshTypeOK
    BY DEF RefreshInv, RefreshTyped, RefreshTypeOK, Refreshing
  <2>2. NoHoleBelowTheMark
    BY DEF RefreshInv, DepthInv, PriceInv, Unbroken, NoHoleBelowTheMark
  <2> QED BY <2>1, <2>2 DEF RefreshInv, RefreshSound
<1> QED BY <1>1, RefreshStarts, RefreshGoesOn, PTL DEF RefreshSpec

-----------------------------------------------------------------------------
(* The rows of the contract matches, whoever writes them.                  *)

(* What a row is, and a pair on its way to one.                             *)
MatchRow == [by : Judge, approved : BOOLEAN, score : 0..100, mismatch : BOOLEAN, token : BOOLEAN]
CandidateRecord ==
    [run : Run, pair : MatchPair, at : {"check", "score", "create", "classify"},
     score : 0..100, mismatch : BOOLEAN]

(* The flag of discovery is down beside a discovery only after two have     *)
(* run at once, and it is down when an ingestion is under way.              *)
RunsInOrder ==
    /\ ingesting => ~discovering
    /\ (\E d \in Discovery : runAt[d] # "idle") => discovering \/ doubled
    /\ (\A d \in Discovery : runAt[d] # "idle") => doubled

(* The one who created or approved the row has yet to say that it is        *)
(* approved.                                                                *)
ToAnnounce(p) ==
    \/ \E c \in candidates : c.pair = p /\ c.at = "classify" /\ AutoApproved(c)
    \/ \E a \in approving : a[1] = p

(* Only a row is rejected, judged or told about; the rows of the pairs that *)
(* are not configured are approved by those who say so.                     *)
RowSound(p) ==
    /\ p \in rejecting \union auditing => Exists(p)
    /\ "rejected" \in told[p] => Exists(p)
    /\ match[p].by = "yaml" => p \in configured
    /\ match[p].by = "discovery" => ~match[p].mismatch /\ match[p].score >= AutoApprove
    /\ Approved(p) /\ match[p].by # "yaml" =>
          "approved" \in told[p] \/ p \in orphans \/ ToAnnounce(p)
    /\ Approved(p) /\ p \notin configured /\ "rejected" \in told[p] => match[p].by = "operator"

MatchInv ==
    /\ MatchTypeOK
    /\ candidates \subseteq CandidateRecord
    /\ RunsInOrder
    /\ \A p \in MatchPair : RowSound(p)

LEMMA MatchStarts == MatchInit => MatchInv
<1> SUFFICES ASSUME MatchInit PROVE MatchInv
  OBVIOUS
<1> USE DEF MatchInit
<1>1. MatchTypeOK
  <2>1. match \in [MatchPair -> {Missing} \union MatchRow]
    OBVIOUS
  <2>2. runAt \in [Run -> {"idle", "listing", "working"}]
    OBVIOUS
  <2>3. {discovering, doubled} \subseteq BOOLEAN
    BY Zenon
  <2>4. told \in [MatchPair -> SUBSET {"approved", "pending", "rejected"}]
    OBVIOUS
  <2>5. configured \subseteq MatchPair
    OBVIOUS
  <2>6. candidates = {} /\ approving = {} /\ rejecting = {} /\ auditing = {} /\ orphans = {}
    OBVIOUS
  <2> HIDE DEF MatchInit
  <2> QED BY <2>1, <2>2, <2>3, <2>4, <2>5, <2>6 DEF MatchTypeOK, MatchRow
<1>2. candidates \subseteq CandidateRecord
  OBVIOUS
<1>3. \A r \in Run : runAt[r] = "idle"
  OBVIOUS
<1>4. ~discovering
  BY Zenon
<1>5. RunsInOrder
  BY <1>3, <1>4 DEF RunsInOrder, ingesting, Run, Discovery
<1>6. ASSUME NEW p \in MatchPair PROVE RowSound(p)
  BY DEF RowSound, Exists, Approved, Missing
<1> QED BY <1>1, <1>2, <1>5, <1>6 DEF MatchInv

(* What the type says of a row that is there, and what an update leaves.    *)
LEMMA RowIsTyped ==
    ASSUME MatchTypeOK, NEW p \in MatchPair
    PROVE  /\ Exists(p) <=> match[p] \in MatchRow
           /\ match[p] # Missing => match[p].by # "nobody"
<1>1. match[p] \in {Missing} \union MatchRow
  BY DEF MatchTypeOK, MatchRow
<1>2. ASSUME match[p] \in MatchRow PROVE match[p].by # "nobody"
  BY <1>2 DEF MatchRow, Judge
<1>3. Missing.by = "nobody"
  BY DEF Missing
<1> QED BY <1>1, <1>2, <1>3 DEF Exists

LEMMA JudgedRow ==
    ASSUME MatchTypeOK, NEW p \in MatchPair, NEW fresh \in MatchRow, match' = [match EXCEPT ![p] = fresh]
    PROVE  /\ match' \in [MatchPair -> {Missing} \union MatchRow]
           /\ \A q \in MatchPair : q # p => match'[q] = match[q]
           /\ match'[p] # Missing
           /\ match'[p] = fresh
<1>1. match \in [MatchPair -> {Missing} \union MatchRow]
  BY DEF MatchTypeOK, MatchRow
<1>2. fresh # Missing
  BY DEF MatchRow, Judge, Missing
<1> QED BY <1>1, <1>2

LEMMA ApprovedRow ==
    ASSUME MatchTypeOK, NEW p \in MatchPair, Exists(p), match' = Judged(p, TRUE, "operator")
    PROVE  /\ match' \in [MatchPair -> {Missing} \union MatchRow]
           /\ \A q \in MatchPair : q # p => match'[q] = match[q]
           /\ match'[p] # Missing
           /\ match'[p].by = "operator"
<1>1. match \in [MatchPair -> {Missing} \union MatchRow] /\ match[p] \in MatchRow
  BY RowIsTyped DEF MatchTypeOK, MatchRow
<1> DEFINE fresh == [match[p] EXCEPT !.approved = TRUE, !.by = "operator"]
<1>2. match' = [match EXCEPT ![p] = fresh]
  BY <1>1 DEF Judged, MatchRow
<1>3. "operator" \in Judge
  BY DEF Judge
<1>4. fresh \in MatchRow /\ fresh.by = "operator"
  BY <1>1, <1>3 DEF MatchRow
<1> HIDE DEF fresh
<1> QED BY <1>2, <1>4, JudgedRow

LEMMA WithdrawnRow ==
    ASSUME MatchTypeOK, NEW p \in MatchPair, Exists(p), NEW who \in {"rejected", "audit"},
           match' = Judged(p, FALSE, who)
    PROVE  /\ match' \in [MatchPair -> {Missing} \union MatchRow]
           /\ \A q \in MatchPair : q # p => match'[q] = match[q]
           /\ match'[p] # Missing
           /\ match'[p].by = who
           /\ ~match'[p].approved
<1>1. match \in [MatchPair -> {Missing} \union MatchRow] /\ match[p] \in MatchRow
  BY RowIsTyped DEF MatchTypeOK, MatchRow
<1> DEFINE fresh == [match[p] EXCEPT !.approved = FALSE, !.by = who]
<1>2. match' = [match EXCEPT ![p] = fresh]
  BY <1>1 DEF Judged, MatchRow
<1>3. who \in Judge
  BY DEF Judge
<1>4. fresh \in MatchRow /\ fresh.by = who
  BY <1>1, <1>3 DEF MatchRow
<1>5. ~fresh.approved
  BY <1>1 DEF MatchRow
<1> HIDE DEF fresh
<1> QED BY <1>2, <1>4, <1>5, JudgedRow

(* A row nobody writes, of a pair nobody tells about, stays as it was.      *)
LEMMA RowKept ==
    ASSUME NEW p, RowSound(p), configured' = configured, match'[p] = match[p], told'[p] = told[p],
           p \in (rejecting \union auditing)' => p \in rejecting \union auditing \/ Exists(p),
           p \in orphans => p \in orphans',
           ToAnnounce(p) => ToAnnounce(p)' \/ p \in orphans'
    PROVE  RowSound(p)'
BY DEF RowSound, Exists, Approved

LEMMA MatchRunsStep ==
    ASSUME MatchInv,
           \/ \E d \in Discovery : StartDiscovery(d)
           \/ StartIngestion
           \/ \E r \in Run : List(r) \/ Finish(r)
    PROVE  MatchInv'
<1>0. MatchTypeOK /\ candidates \subseteq CandidateRecord /\ RunsInOrder /\ \A p \in MatchPair : RowSound(p)
  BY DEF MatchInv
<1>1. ASSUME UNCHANGED <<configured, match, approving, rejecting, auditing, told, orphans>>,
             candidates \subseteq candidates'
      PROVE  \A p \in MatchPair : RowSound(p)'
  <2> SUFFICES ASSUME NEW p \in MatchPair PROVE RowSound(p)'
    OBVIOUS
  <2>1. ToAnnounce(p) => ToAnnounce(p)'
    BY <1>1 DEF ToAnnounce
  <2> QED BY <1>0, <1>1, <2>1, RowKept
<1>2. ASSUME UNCHANGED <<configured, match, approving, rejecting, auditing, told, orphans>>,
             runAt' \in [Run -> {"idle", "listing", "working"}], {discovering', doubled'} \subseteq BOOLEAN,
             candidates' \subseteq CandidateRecord
      PROVE  MatchTypeOK'
  <2>1. \A c \in candidates' : c.run \in Run /\ c.pair \in MatchPair
    BY <1>2 DEF CandidateRecord
  <2> QED BY <1>0, <1>2, <2>1 DEF MatchTypeOK
<1>3. runAt \in [Run -> {"idle", "listing", "working"}] /\ {discovering, doubled} \subseteq BOOLEAN
  BY <1>0 DEF MatchTypeOK
<1>4. ASSUME NEW d \in Discovery, StartDiscovery(d) PROVE MatchInv'
  <2> USE <1>4 DEF StartDiscovery
  <2>1. runAt' \in [Run -> {"idle", "listing", "working"}]
    BY <1>3 DEF Run
  <2>2. {discovering', doubled'} \subseteq BOOLEAN
    BY Zenon
  <2>3. ingesting' = ingesting /\ ~ingesting
    BY <1>3 DEF ingesting, Run, Discovery
  <2>4. discovering'
    BY Zenon
  <2>5. (\A e \in Discovery : runAt'[e] # "idle") => \E e \in Discovery : runAt[e] # "idle"
    BY <1>3 DEF Run, Discovery
  <2>6. (\E e \in Discovery : runAt[e] # "idle") => doubled'
    BY Zenon
  <2>7. RunsInOrder'
    BY <2>3, <2>4, <2>5, <2>6 DEF RunsInOrder
  <2> QED BY <1>0, <1>1, <1>2, <2>1, <2>2, <2>7 DEF MatchInv
<1>5. ASSUME StartIngestion PROVE MatchInv'
  <2> USE <1>5 DEF StartIngestion
  <2>1. runAt' \in [Run -> {"idle", "listing", "working"}]
    BY <1>3 DEF Run
  <2>2. {discovering', doubled'} \subseteq BOOLEAN
    BY <1>3
  <2>3. \A e \in Discovery : runAt'[e] = runAt[e]
    BY <1>3 DEF Run, Discovery
  <2>4. RunsInOrder'
    BY <1>0, <2>3 DEF RunsInOrder
  <2> QED BY <1>0, <1>1, <1>2, <2>1, <2>2, <2>4 DEF MatchInv
<1>6. ASSUME NEW r \in Run, List(r) PROVE MatchInv'
  <2> USE <1>6 DEF List
  <2>1. runAt' \in [Run -> {"idle", "listing", "working"}]
    BY <1>3
  <2>2. {discovering', doubled'} \subseteq BOOLEAN
    BY <1>3
  <2>3. \A e \in Run : runAt'[e] # "idle" <=> runAt[e] # "idle"
    BY <1>3
  <2>4. ingesting' <=> ingesting
    BY <2>3 DEF ingesting, Run
  <2>5. RunsInOrder'
    BY <1>0, <2>3, <2>4 DEF RunsInOrder, Run
  <2>6. PICK found \in SUBSET MatchPair :
          candidates' = candidates \union
             {[run |-> r, pair |-> p, at |-> "check", score |-> 0, mismatch |-> FALSE] : p \in found}
    BY Zenon
  <2>7. \A p \in found : [run |-> r, pair |-> p, at |-> "check", score |-> 0, mismatch |-> FALSE]
                            \in CandidateRecord
    BY DEF CandidateRecord
  <2>8. candidates' \subseteq CandidateRecord /\ candidates \subseteq candidates'
    BY <1>0, <2>6, <2>7
  <2> QED BY <1>0, <1>1, <1>2, <2>1, <2>2, <2>5, <2>8 DEF MatchInv
<1>7. ASSUME NEW r \in Run, Finish(r) PROVE MatchInv'
  <2> USE <1>7 DEF Finish
  <2>1. runAt' \in [Run -> {"idle", "listing", "working"}]
    BY <1>3
  <2>2. {discovering', doubled'} \subseteq BOOLEAN
    BY <1>3, Zenon
  <2>3. runAt[r] = "working" /\ runAt' = [runAt EXCEPT ![r] = "idle"]
    OBVIOUS
  <2>4. discovering' <=> discovering /\ r = "external"
    BY Zenon
  <2>5. doubled' = doubled
    OBVIOUS
  <2>6. ingesting' => ingesting
    BY <1>3, <2>3 DEF ingesting, Run
  <2>7. ASSUME r = "external" PROVE RunsInOrder'
    <3>1. \A e \in Discovery : runAt'[e] = runAt[e]
      BY <1>3, <2>3, <2>7 DEF Run, Discovery
    <3> QED BY <1>0, <2>4, <2>5, <2>6, <2>7, <3>1 DEF RunsInOrder
  <2>8. ASSUME r \in Discovery PROVE RunsInOrder'
    <3>1. ~discovering'
      BY <2>4, <2>8 DEF Discovery
    <3>2. runAt'[r] = "idle" /\ \A e \in Discovery : runAt'[e] # "idle" => runAt[e] # "idle" /\ e # r
      BY <1>3, <2>3 DEF Run
    <3>3. (\E e \in Discovery : runAt'[e] # "idle") => \A e \in Discovery : runAt[e] # "idle"
      BY <2>3, <2>8, <3>2 DEF Discovery
    <3> QED BY <1>0, <2>5, <2>8, <3>1, <3>2, <3>3 DEF RunsInOrder
  <2>9. RunsInOrder'
    BY <2>7, <2>8 DEF Run
  <2> QED BY <1>0, <1>1, <1>2, <2>1, <2>2, <2>9 DEF MatchInv
<1> QED BY <1>4, <1>5, <1>6, <1>7

(* A candidate that is dropped or that moves on keeps the others, and what  *)
(* is yet to be announced.                                                  *)
LEMMA CandidateLeaves ==
    ASSUME NEW c \in candidates, candidates \subseteq CandidateRecord, c.at # "classify",
           NEW p, candidates \ {c} \subseteq candidates', approving' = approving, ToAnnounce(p)
    PROVE  ToAnnounce(p)'
<1>0. CASE \E a \in approving : a[1] = p
  BY <1>0 DEF ToAnnounce
<1> SUFFICES ASSUME ~\E a \in approving : a[1] = p PROVE ToAnnounce(p)'
  BY <1>0
<1>1. PICK d \in candidates : d.pair = p /\ d.at = "classify" /\ AutoApproved(d)
  BY DEF ToAnnounce
<1>2. d \in candidates'
  BY <1>1
<1> QED BY <1>1, <1>2 DEF ToAnnounce

LEMMA NewRowTyped ==
    ASSUME NEW c \in CandidateRecord, NEW hasToken \in BOOLEAN
    PROVE  /\ NewRow(c, hasToken) \in MatchRow
           /\ NewRow(c, hasToken) # Missing
           /\ NewRow(c, hasToken).by # "yaml"
           /\ NewRow(c, hasToken).by = "discovery" =>
                 ~NewRow(c, hasToken).mismatch /\ NewRow(c, hasToken).score >= AutoApprove
           /\ NewRow(c, hasToken).approved => AutoApproved(c)
<1> DEFINE fresh == NewRow(c, hasToken)
           who == IF AutoApproved(c) THEN (IF c.run = "external" THEN "ingestion" ELSE "discovery")
                  ELSE IF BelowReview(c) THEN "autoReject" ELSE "none"
<1>1. who \in Judge \ {"yaml"} /\ (who = "discovery" => AutoApproved(c))
  BY DEF Judge
<1>2. c.score \in 0..100 /\ c.mismatch \in BOOLEAN
  BY DEF CandidateRecord
<1>3. AutoApproved(c) \in BOOLEAN
  BY Zenon DEF AutoApproved
<1>4. fresh = [by |-> who, approved |-> AutoApproved(c), score |-> c.score, mismatch |-> c.mismatch,
             token |-> hasToken]
  BY Zenon DEF NewRow
<1>5. fresh.by = who /\ fresh.score = c.score /\ fresh.mismatch = c.mismatch /\ fresh.approved = AutoApproved(c)
  BY <1>4
<1> HIDE DEF who
<1>6. fresh \in MatchRow
  BY <1>1, <1>2, <1>3, <1>4 DEF MatchRow
<1>7. fresh # Missing
  BY <1>1, <1>5 DEF Missing, Judge
<1>8. fresh.by = "discovery" => ~fresh.mismatch /\ fresh.score >= AutoApprove
  BY <1>1, <1>5 DEF AutoApproved
<1> HIDE DEF fresh
<1>9. fresh.approved => AutoApproved(c)
  BY <1>5, Zenon
<1> QED BY <1>1, <1>5, <1>6, <1>7, <1>8, <1>9 DEF fresh

LEMMA CandidatesStep ==
    ASSUME MatchInv, NEW c \in candidates, CandidateStep(c)
    PROVE  MatchInv'
<1>0. MatchTypeOK /\ candidates \subseteq CandidateRecord /\ RunsInOrder /\ \A p \in MatchPair : RowSound(p)
  BY DEF MatchInv
<1>1. c \in CandidateRecord /\ c.pair \in MatchPair
  BY <1>0 DEF CandidateRecord
<1>2. UNCHANGED <<configured, runAt, discovering, approving, rejecting, auditing, orphans, doubled>>
  BY DEF CandidateStep
<1>3. RunsInOrder'
  BY <1>0, <1>2 DEF RunsInOrder, ingesting
<1>4. ASSUME match' \in [MatchPair -> {Missing} \union MatchRow],
             told' \in [MatchPair -> SUBSET {"approved", "pending", "rejected"}],
             candidates' \subseteq CandidateRecord
      PROVE  MatchTypeOK'
  <2>1. \A d \in candidates' : d.run \in Run /\ d.pair \in MatchPair
    BY <1>4 DEF CandidateRecord
  <2> QED BY <1>0, <1>2, <1>4, <2>1 DEF MatchTypeOK, MatchRow
<1>5. /\ match \in [MatchPair -> {Missing} \union MatchRow]
      /\ told \in [MatchPair -> SUBSET {"approved", "pending", "rejected"}]
  BY <1>0 DEF MatchTypeOK, MatchRow
<1>6. ASSUME UNCHANGED <<match, told>>, c.at # "classify",
             candidates \ {c} \subseteq candidates', candidates' \subseteq CandidateRecord
      PROVE  MatchInv'
  <2>1. ASSUME NEW p \in MatchPair PROVE RowSound(p)'
    BY <1>0, <1>2, <1>6, CandidateLeaves, RowKept
  <2> QED BY <1>3, <1>4, <1>5, <1>6, <2>1 DEF MatchInv
<1>7. ASSUME Check(c) PROVE MatchInv'
  <2>1. [c EXCEPT !.at = "score"] \in CandidateRecord
    BY <1>1 DEF CandidateRecord
  <2>2. candidates' = candidates \ {c} \/ candidates' = (candidates \ {c}) \union {[c EXCEPT !.at = "score"]}
    BY <1>7 DEF Check, Drop, Move
  <2>3. candidates \ {c} \subseteq candidates' /\ candidates' \subseteq CandidateRecord
    BY <1>0, <2>1, <2>2
  <2> QED BY <1>6, <1>7, <2>3 DEF Check
<1>8. ASSUME Score(c) PROVE MatchInv'
  <2>1. ASSUME NEW s \in MatchScores, NEW wrong \in BOOLEAN
        PROVE  [c EXCEPT !.at = "create", !.mismatch = wrong,
                         !.score = IF wrong THEN Min({s, MismatchCap}) ELSE s] \in CandidateRecord
    <3>1. s \in 0..100
      BY MatchingAssumption
    <3>2. Min({s, MismatchCap}) \in 0..100
      BY <3>1, MinOfTwo DEF MismatchCap
    <3>3. (IF wrong THEN Min({s, MismatchCap}) ELSE s) \in 0..100
      BY <3>1, <3>2
    <3> QED BY <1>1, <3>3 DEF CandidateRecord
  <2>2. \/ candidates' = candidates \ {c}
        \/ \E s \in MatchScores, wrong \in BOOLEAN :
              candidates' = (candidates \ {c}) \union
                 {[c EXCEPT !.at = "create", !.mismatch = wrong,
                            !.score = IF wrong THEN Min({s, MismatchCap}) ELSE s]}
    BY <1>8, Zenon DEF Score, Drop, Move
  <2>3. candidates \ {c} \subseteq candidates' /\ candidates' \subseteq CandidateRecord
    BY <1>0, <2>1, <2>2, Zenon
  <2>4. UNCHANGED <<match, told>> /\ c.at = "score"
    BY <1>8, Zenon DEF Score
  <2> QED BY <1>6, <2>3, <2>4
<1>9. ASSUME Create(c) PROVE MatchInv'
  <2>1. c.at = "create" /\ told' = told
    BY <1>9 DEF Create
  <2>2. CASE Exists(c.pair)
    BY <1>0, <1>6, <1>9, <2>1, <2>2 DEF Create, Drop
  <2>3. CASE ~Exists(c.pair)
    <3> DEFINE ready == [c EXCEPT !.at = "classify"]
    <3>1. PICK hasToken \in BOOLEAN : match' = [match EXCEPT ![c.pair] = NewRow(c, hasToken)]
      BY <1>9, <2>3, Zenon DEF Create
    <3>2. IF BelowReview(c) THEN Drop(c) ELSE Move(c, ready)
      BY <1>9, <2>3, Zenon DEF Create
    <3>3. ready \in CandidateRecord /\ ready.pair = c.pair /\ ready.at = "classify"
          /\ ready.score = c.score /\ ready.mismatch = c.mismatch
      BY <1>1 DEF CandidateRecord
    <3> HIDE DEF ready
    <3>4. candidates \ {c} \subseteq candidates' /\ candidates' \subseteq CandidateRecord
      BY <1>0, <3>2, <3>3 DEF Drop, Move
    <3>5. AutoApproved(c) => ready \in candidates' /\ AutoApproved(ready)
      BY <1>1, <3>2, <3>3, MatchingAssumption, SMTT(30) DEF Move, AutoApproved, BelowReview, CandidateRecord
    <3> DEFINE fresh == NewRow(c, hasToken)
    <3>6. /\ fresh \in MatchRow /\ fresh # Missing /\ fresh.by # "yaml"
          /\ (fresh.by = "discovery" => ~fresh.mismatch /\ fresh.score >= AutoApprove)
          /\ (fresh.approved => AutoApproved(c))
      BY <1>1, NewRowTyped
    <3> HIDE DEF fresh
    <3>7. match' = [match EXCEPT ![c.pair] = fresh]
      BY <3>1 DEF fresh
    <3>8. match' \in [MatchPair -> {Missing} \union MatchRow] /\ match'[c.pair] = fresh
      BY <1>1, <1>5, <3>6, <3>7
    <3>9. ASSUME NEW p \in MatchPair PROVE RowSound(p)'
      <4>1. ToAnnounce(p) => ToAnnounce(p)'
        BY <1>0, <1>2, <2>1, <3>4, CandidateLeaves
      <4>2. ASSUME p # c.pair PROVE RowSound(p)'
        <5>1. match'[p] = match[p]
          BY <1>1, <1>5, <3>7, <4>2
        <5> QED BY <1>0, <1>2, <2>1, <4>1, <5>1, RowKept
      <4>3. ASSUME p = c.pair PROVE RowSound(p)'
        <5>1. fresh.approved => ToAnnounce(p)'
          BY <3>3, <3>5, <3>6, <4>3 DEF ToAnnounce
        <5>2. "rejected" \notin told'[p] /\ p \notin (rejecting \union auditing)'
          BY <1>0, <1>2, <2>1, <2>3, <4>3 DEF RowSound
        <5>3. match'[p] = fresh
          BY <3>8, <4>3
        <5> QED BY <3>6, <5>1, <5>2, <5>3 DEF RowSound, Exists, Approved
      <4> QED BY <4>2, <4>3
    <3> QED BY <1>3, <1>4, <1>5, <2>1, <3>4, <3>8, <3>9 DEF MatchInv
  <2> QED BY <2>2, <2>3
<1>10. ASSUME Announce(c) PROVE MatchInv'
  <2> DEFINE said == IF AutoApproved(c) THEN "approved" ELSE "pending"
  <2>1. match' = match /\ candidates' = candidates \ {c}
        /\ told' = [told EXCEPT ![c.pair] = @ \union {said}]
    BY <1>10, Zenon DEF Announce, Drop
  <2>2. said \in {"approved", "pending"} /\ (AutoApproved(c) => said = "approved")
    OBVIOUS
  <2> HIDE DEF said
  <2>3. told' \in [MatchPair -> SUBSET {"approved", "pending", "rejected"}]
    BY <1>1, <1>5, <2>1, <2>2
  <2>4. candidates' \subseteq CandidateRecord
    BY <1>0, <2>1
  <2>5. ASSUME NEW p \in MatchPair PROVE RowSound(p)'
    <3>1. told'[p] = told[p] \/ (p = c.pair /\ told'[p] = told[p] \union {said})
      BY <1>1, <1>5, <2>1
    <3>2. ("rejected" \in told'[p] <=> "rejected" \in told[p])
          /\ ("approved" \in told[p] => "approved" \in told'[p])
      BY <2>2, <3>1
    <3>3. ToAnnounce(p) => ToAnnounce(p)' \/ "approved" \in told'[p]
      <4>1. SUFFICES ASSUME ToAnnounce(p) PROVE ToAnnounce(p)' \/ "approved" \in told'[p]
        OBVIOUS
      <4>0. CASE \E a \in approving : a[1] = p
        BY <1>2, <4>0 DEF ToAnnounce
      <4> SUFFICES ASSUME ~\E a \in approving : a[1] = p
                   PROVE  ToAnnounce(p)' \/ "approved" \in told'[p]
        BY <4>0
      <4>2. PICK d \in candidates : d.pair = p /\ d.at = "classify" /\ AutoApproved(d)
        BY <4>1 DEF ToAnnounce
      <4>3. CASE d = c
        <5>1. told'[p] = told[p] \union {said}
          BY <1>1, <1>5, <2>1, <4>2, <4>3
        <5> QED BY <2>2, <4>2, <4>3, <5>1
      <4>4. CASE d # c
        BY <2>1, <4>2, <4>4 DEF ToAnnounce
      <4> QED BY <4>3, <4>4
    <3>4. RowSound(p)
      BY <1>0
    <3> QED BY <1>2, <2>1, <3>2, <3>3, <3>4 DEF RowSound, Exists, Approved
  <2> QED BY <1>3, <1>4, <1>5, <2>1, <2>3, <2>4, <2>5 DEF MatchInv
<1> QED BY <1>7, <1>8, <1>9, <1>10 DEF CandidateStep

(* The operator's approvals: the row, and then its event or none.           *)
LEMMA ApprovalsStep ==
    ASSUME MatchInv,
           \/ \E p \in MatchPair : Approve(p)
           \/ \E a \in approving : AnnounceApproval(a) \/ ApprovalReadFails(a)
    PROVE  MatchInv'
<1>0. MatchTypeOK /\ candidates \subseteq CandidateRecord /\ RunsInOrder /\ \A p \in MatchPair : RowSound(p)
  BY DEF MatchInv
<1>1. UNCHANGED <<configured, runAt, discovering, candidates, rejecting, auditing, doubled>>
  BY DEF Approve, AnnounceApproval, ApprovalReadFails
<1>2. RunsInOrder' /\ candidates' \subseteq CandidateRecord
  BY <1>0, <1>1 DEF RunsInOrder, ingesting
<1>3. ASSUME match' \in [MatchPair -> {Missing} \union MatchRow],
             told' \in [MatchPair -> SUBSET {"approved", "pending", "rejected"}],
             (\A b \in approving' : b[1] \in MatchPair), orphans' \subseteq MatchPair
      PROVE  MatchTypeOK'
  BY <1>0, <1>1, <1>3 DEF MatchTypeOK, MatchRow
<1>4. /\ match \in [MatchPair -> {Missing} \union MatchRow]
      /\ told \in [MatchPair -> SUBSET {"approved", "pending", "rejected"}]
      /\ (\A a \in approving : a[1] \in MatchPair) /\ orphans \subseteq MatchPair
  BY <1>0 DEF MatchTypeOK, MatchRow
<1>5. ASSUME NEW p \in MatchPair, Approve(p) PROVE MatchInv'
  <2>1. /\ Exists(p) /\ match' = Judged(p, TRUE, "operator")
        /\ told' = [told EXCEPT ![p] = @ \ {"approved"}] /\ orphans' = orphans \ {p}
        /\ approving' = approving \union {<<p, reviews>>}
    BY <1>5 DEF Approve
  <2>2. /\ match' \in [MatchPair -> {Missing} \union MatchRow]
        /\ \A q \in MatchPair : q # p => match'[q] = match[q]
        /\ match'[p] # Missing /\ match'[p].by = "operator"
    BY <1>0, <2>1, ApprovedRow
  <2>3. told' \in [MatchPair -> SUBSET {"approved", "pending", "rejected"}]
        /\ \A q \in MatchPair : q # p => told'[q] = told[q]
    BY <1>4, <2>1
  <2>4. RowSound(p)'
    <3>1. <<p, reviews>> \in approving' /\ <<p, reviews>>[1] = p
      BY <2>1
    <3>2. ToAnnounce(p)'
      BY <3>1, Zenon DEF ToAnnounce
    <3> QED BY <2>2, <3>2 DEF RowSound, Exists
  <2>5. ASSUME NEW q \in MatchPair, q # p PROVE RowSound(q)'
    <3>1. (ToAnnounce(q) => ToAnnounce(q)') /\ (q \in orphans => q \in orphans')
      BY <1>1, <2>1, <2>5 DEF ToAnnounce
    <3> QED BY <1>0, <1>1, <2>2, <2>3, <2>5, <3>1, RowKept
  <2>6. (\A b \in approving' : b[1] \in MatchPair) /\ orphans' \subseteq MatchPair
    BY <1>4, <2>1
  <2> QED BY <1>2, <1>3, <2>2, <2>3, <2>4, <2>5, <2>6 DEF MatchInv
<1>6. ASSUME NEW a \in approving, AnnounceApproval(a) PROVE MatchInv'
  <2>1. /\ match' = match /\ orphans' = orphans /\ approving' = approving \ {a} /\ a[1] \in MatchPair
        /\ told' = [told EXCEPT ![a[1]] = @ \union {"approved"}]
    BY <1>4, <1>6 DEF AnnounceApproval, Emit
  <2>2. told' \in [MatchPair -> SUBSET {"approved", "pending", "rejected"}]
    BY <1>4, <2>1
  <2>3. ASSUME NEW q \in MatchPair PROVE RowSound(q)'
    <3>1. /\ "rejected" \in told'[q] <=> "rejected" \in told[q]
          /\ "approved" \in told[q] \/ a[1] = q => "approved" \in told'[q]
      BY <1>4, <2>1
    <3>2. ToAnnounce(q) => ToAnnounce(q)' \/ "approved" \in told'[q]
      BY <1>1, <2>1, <3>1 DEF ToAnnounce
    <3>3. RowSound(q)
      BY <1>0
    <3> QED BY <1>1, <2>1, <3>1, <3>2, <3>3 DEF RowSound, Exists, Approved
  <2> QED BY <1>2, <1>3, <1>4, <2>1, <2>2, <2>3 DEF MatchInv
<1>7. ASSUME NEW a \in approving, ApprovalReadFails(a) PROVE MatchInv'
  <2>1. /\ UNCHANGED <<match, told>> /\ approving' = approving \ {a} /\ a[1] \in MatchPair
        /\ orphans' = orphans \union {a[1]}
    BY <1>4, <1>7 DEF ApprovalReadFails
  <2>2. ASSUME NEW q \in MatchPair PROVE RowSound(q)'
    <3>1. ToAnnounce(q) => ToAnnounce(q)' \/ q \in orphans'
      BY <1>1, <2>1 DEF ToAnnounce
    <3> QED BY <1>0, <1>1, <2>1, <3>1, RowKept
  <2> QED BY <1>2, <1>3, <1>4, <2>1, <2>2 DEF MatchInv
<1> QED BY <1>5, <1>6, <1>7

LEMMA JudgesStep ==
    ASSUME MatchInv,
           \/ \E p \in MatchPair : AskToReject(p) \/ Reject(p) \/ Revalidate(p)
           \/ StartAudit
    PROVE  MatchInv'
<1>0. MatchTypeOK /\ candidates \subseteq CandidateRecord /\ RunsInOrder /\ \A p \in MatchPair : RowSound(p)
  BY DEF MatchInv
<1>1. UNCHANGED <<configured, runAt, discovering, candidates, approving, orphans, doubled>>
  BY DEF AskToReject, Reject, Revalidate, StartAudit
<1>2. RunsInOrder' /\ candidates' \subseteq CandidateRecord
  BY <1>0, <1>1 DEF RunsInOrder, ingesting
<1>3. ASSUME match' \in [MatchPair -> {Missing} \union MatchRow],
             told' \in [MatchPair -> SUBSET {"approved", "pending", "rejected"}],
             rejecting' \subseteq MatchPair, auditing' \subseteq MatchPair
      PROVE  MatchTypeOK'
  BY <1>0, <1>1, <1>3 DEF MatchTypeOK, MatchRow
<1>4. /\ match \in [MatchPair -> {Missing} \union MatchRow]
      /\ told \in [MatchPair -> SUBSET {"approved", "pending", "rejected"}]
      /\ rejecting \subseteq MatchPair /\ auditing \subseteq MatchPair
  BY <1>0 DEF MatchTypeOK, MatchRow
<1>5. \A p \in MatchPair : ToAnnounce(p)' <=> ToAnnounce(p)
  BY <1>1 DEF ToAnnounce
<1>7. ASSUME NEW p \in MatchPair, AskToReject(p) PROVE MatchInv'
  <2>1. Exists(p) /\ match' = match /\ told' = told /\ rejecting' = rejecting \union {p} /\ auditing' = auditing
    BY <1>7 DEF AskToReject
  <2>2. ASSUME NEW q \in MatchPair PROVE RowSound(q)'
    BY <1>0, <1>1, <1>5, <2>1, RowKept
  <2> QED BY <1>2, <1>3, <1>4, <2>1, <2>2 DEF MatchInv
<1>8. ASSUME NEW p \in MatchPair, Reject(p) PROVE MatchInv'
  <2>1. Exists(p) /\ match' = Judged(p, FALSE, "rejected")
        /\ told' = [told EXCEPT ![p] = @ \union {"rejected"}] /\ rejecting' = rejecting \ {p}
        /\ auditing' = auditing
    BY <1>0, <1>8 DEF Reject, Emit, RowSound
  <2>2. /\ match' \in [MatchPair -> {Missing} \union MatchRow]
        /\ \A q \in MatchPair : q # p => match'[q] = match[q]
        /\ match'[p] # Missing /\ match'[p].by = "rejected" /\ ~match'[p].approved
    BY <1>0, <2>1, WithdrawnRow
  <2>3. told' \in [MatchPair -> SUBSET {"approved", "pending", "rejected"}]
        /\ \A q \in MatchPair : q # p => told'[q] = told[q]
    BY <1>4, <2>1
  <2>4. RowSound(p)'
    BY <2>2 DEF RowSound, Exists, Approved
  <2>5. ASSUME NEW q \in MatchPair, q # p PROVE RowSound(q)'
    BY <1>0, <1>1, <1>5, <2>1, <2>2, <2>3, <2>5, RowKept
  <2> QED BY <1>2, <1>3, <1>4, <2>1, <2>2, <2>3, <2>4, <2>5 DEF MatchInv
<1>9. ASSUME NEW p \in MatchPair, Revalidate(p) PROVE MatchInv'
  <2>1. Exists(p) /\ told' = told /\ auditing' = auditing \ {p} /\ rejecting' = rejecting
    BY <1>0, <1>9 DEF Revalidate, RowSound
  <2>2. \/ match' = match
        \/ match' = Judged(p, FALSE, "audit")
        \/ match' = [match EXCEPT ![p].token = TRUE]
    BY <1>9, Zenon DEF Revalidate
  <2>3. ASSUME match' \in [MatchPair -> {Missing} \union MatchRow], RowSound(p)',
               \A q \in MatchPair : q # p => match'[q] = match[q]
        PROVE  MatchInv'
    <3>1. ASSUME NEW q \in MatchPair, q # p PROVE RowSound(q)'
      BY <1>0, <1>1, <1>5, <2>1, <2>3, <3>1, RowKept
    <3> QED BY <1>2, <1>3, <1>4, <2>1, <2>3, <3>1 DEF MatchInv
  <2>4. CASE match' = match
    BY <1>0, <1>1, <1>4, <1>5, <2>1, <2>3, <2>4, RowKept
  <2>5. CASE match' = Judged(p, FALSE, "audit")
    <3>1. /\ match' \in [MatchPair -> {Missing} \union MatchRow]
          /\ \A q \in MatchPair : q # p => match'[q] = match[q]
          /\ match'[p] # Missing /\ match'[p].by = "audit" /\ ~match'[p].approved
      BY <1>0, <2>1, <2>5, WithdrawnRow
    <3>2. RowSound(p)'
      BY <3>1 DEF RowSound, Exists, Approved
    <3> QED BY <2>3, <3>1, <3>2
  <2>6. CASE match' = [match EXCEPT ![p].token = TRUE]
    <3> DEFINE fresh == [match[p] EXCEPT !.token = TRUE]
    <3>1. match[p] \in MatchRow
      BY <1>0, <2>1, RowIsTyped
    <3>2. fresh \in MatchRow /\ fresh.by = match[p].by /\ fresh.score = match[p].score
          /\ fresh.approved = match[p].approved /\ fresh.mismatch = match[p].mismatch
      BY <3>1 DEF MatchRow
    <3>3. match' = [match EXCEPT ![p] = fresh]
      BY <1>4, <2>6, <3>1 DEF MatchRow
    <3> HIDE DEF fresh
    <3>4. match'[p] = fresh /\ match' \in [MatchPair -> {Missing} \union MatchRow]
          /\ \A q \in MatchPair : q # p => match'[q] = match[q]
      BY <1>4, <3>2, <3>3
    <3>5. fresh # Missing
      BY <3>2 DEF MatchRow, Judge, Missing
    <3>6. RowSound(p)
      BY <1>0
    <3>7. RowSound(p)'
      <4>1. (ToAnnounce(p)' <=> ToAnnounce(p)) /\ p \in rejecting' \union auditing' => Exists(p)
        BY <1>5, <2>1
      <4>2. Exists(p)' /\ (Approved(p)' <=> Approved(p))
        BY <2>1, <3>2, <3>4, <3>5 DEF Exists, Approved
      <4>3. match'[p].by = match[p].by /\ match'[p].score = match[p].score
            /\ (match'[p].mismatch <=> match[p].mismatch)
        BY <3>2, <3>4
      <4> QED BY <1>1, <1>5, <2>1, <3>6, <4>2, <4>3 DEF RowSound
    <3> QED BY <2>3, <3>4, <3>7
  <2> QED BY <2>2, <2>4, <2>5, <2>6
<1>10. ASSUME StartAudit PROVE MatchInv'
  <2>1. match' = match /\ told' = told /\ auditing' = {p \in MatchPair : Approved(p)} /\ rejecting' = rejecting
    BY <1>10 DEF StartAudit
  <2>2. \A p \in auditing' : p \in MatchPair /\ Exists(p)
    BY <2>1 DEF Approved
  <2>3. ASSUME NEW q \in MatchPair PROVE RowSound(q)'
    BY <1>0, <1>1, <1>5, <2>1, <2>2, RowKept
  <2> QED BY <1>2, <1>3, <1>4, <2>1, <2>2, <2>3 DEF MatchInv
<1> QED BY <1>7, <1>8, <1>9, <1>10

(* The sync leaves a row of yaml, which only a configured pair has.         *)
LEMMA SyncedRow ==
    ASSUME MatchTypeOK, NEW p \in MatchPair
    PROVE  Synced(p) \in MatchRow /\ Synced(p).by = "yaml" /\ Synced(p) # Missing
<1>1. CASE Approved(p) /\ match[p].token /\ match[p].by = "yaml"
  <2>1. Synced(p) = match[p] /\ Exists(p)
    BY <1>1 DEF Synced, Approved
  <2> QED BY <1>1, <2>1, RowIsTyped DEF Exists
<1>2. CASE Exists(p) /\ ~(Approved(p) /\ match[p].token /\ match[p].by = "yaml")
  <2>1. match[p] \in MatchRow
    BY <1>2, RowIsTyped
  <2>2. Synced(p) = [match[p] EXCEPT !.approved = TRUE, !.by = "yaml", !.token = TRUE]
    BY <1>2, Zenon DEF Synced
  <2> QED BY <2>1, <2>2 DEF MatchRow, Judge, Missing
<1>3. CASE ~Exists(p)
  <2>1. Synced(p) = [by |-> "yaml", approved |-> TRUE, score |-> 0, mismatch |-> FALSE, token |-> TRUE]
    BY <1>3, Zenon DEF Synced, Approved
  <2> QED BY <2>1 DEF MatchRow, Judge, Missing
<1> QED BY <1>1, <1>2, <1>3

LEMMA MatchRestarts == ASSUME MatchInv, RestartEngine PROVE MatchInv'
<1>0. MatchTypeOK /\ candidates \subseteq CandidateRecord /\ RunsInOrder /\ \A p \in MatchPair : RowSound(p)
  BY DEF MatchInv
<1>1. /\ configured' = configured /\ auditing' = auditing /\ told' = told
      /\ runAt' = [r \in Run |-> "idle"] /\ candidates' = {} /\ approving' = {} /\ rejecting' = {}
      /\ orphans' = orphans \union {a[1] : a \in approving}
                            \union {c.pair : c \in {d \in candidates : d.at = "classify"}}
  BY DEF RestartEngine
<1>2. ~discovering' /\ ~doubled' /\ {discovering', doubled'} \subseteq BOOLEAN
  BY Zenon DEF RestartEngine
<1>3. PICK done \in SUBSET configured :
        match' = [p \in MatchPair |-> IF p \in done THEN Synced(p) ELSE match[p]]
  BY DEF RestartEngine
<1>4. configured \subseteq MatchPair /\ match \in [MatchPair -> {Missing} \union MatchRow]
  BY <1>0 DEF MatchTypeOK, MatchRow
<1>5. match' \in [MatchPair -> {Missing} \union MatchRow]
  <2>1. \A p \in MatchPair : Synced(p) \in MatchRow
    BY <1>0, SyncedRow
  <2> QED BY <1>3, <1>4, <2>1
<1>6. orphans' \subseteq MatchPair
  BY <1>0, <1>1 DEF MatchTypeOK, CandidateRecord
<1>7. MatchTypeOK'
  <2>1. runAt' \in [Run -> {"idle", "listing", "working"}]
    BY <1>1
  <2> QED BY <1>0, <1>1, <1>2, <1>5, <1>6, <2>1 DEF MatchTypeOK, MatchRow
<1>8. RunsInOrder'
  <2>1. \A r \in Run : runAt'[r] = "idle"
    BY <1>1
  <2> QED BY <1>2, <2>1 DEF RunsInOrder, ingesting, Run, Discovery
<1>9. ASSUME NEW p \in MatchPair PROVE RowSound(p)'
  <2>1. CASE p \in done
    <3>1. match'[p] = Synced(p)
      BY <1>3, <2>1
    <3>2. match'[p].by = "yaml" /\ match'[p] # Missing
      BY <1>0, <3>1, SyncedRow
    <3>3. p \in configured'
      BY <1>1, <2>1
    <3> QED BY <3>2, <3>3 DEF RowSound, Exists
  <2>2. CASE p \notin done
    <3>1. match'[p] = match[p]
      BY <1>3, <2>2
    <3>2. ToAnnounce(p) => p \in orphans'
      BY <1>1 DEF ToAnnounce
    <3> QED BY <1>0, <1>1, <3>1, <3>2, RowKept
  <2> QED BY <2>1, <2>2
<1> QED BY <1>1, <1>7, <1>8, <1>9 DEF MatchInv

LEMMA MatchStep == MatchInv /\ [MatchNext]_matchVars => MatchInv'
<1>1. ASSUME MatchInv, UNCHANGED matchVars PROVE MatchInv'
  <2>1. MatchTypeOK'
    BY <1>1 DEF MatchInv, MatchTypeOK, matchVars
  <2>2. RunsInOrder' /\ candidates' \subseteq CandidateRecord
    BY <1>1 DEF MatchInv, RunsInOrder, ingesting, matchVars
  <2>3. ASSUME NEW p \in MatchPair PROVE RowSound(p)'
    <3>1. RowSound(p)
      BY <1>1 DEF MatchInv
    <3>2. ToAnnounce(p) => ToAnnounce(p)'
      BY <1>1 DEF ToAnnounce, matchVars
    <3> QED BY <1>1, <3>1, <3>2, RowKept DEF matchVars
  <2> QED BY <2>1, <2>2, <2>3 DEF MatchInv
<1>2. ASSUME MatchInv, MatchNext PROVE MatchInv'
  BY <1>2, MatchRunsStep, CandidatesStep, ApprovalsStep, JudgesStep, MatchRestarts DEF MatchNext
<1> QED BY <1>1, <1>2

LEMMA RowsSound == MatchInv => ContractsSound
<1> SUFFICES ASSUME MatchInv PROVE ContractsSound
  OBVIOUS
<1>1. RunsExclusive
  BY DEF MatchInv, RunsInOrder, RunsExclusive
<1>2. ASSUME NEW p \in ActivePairs \ configured
      PROVE  RowSound(p) /\ Approved(p)
  BY <1>2 DEF MatchInv, ActivePairs
<1>3. DirectionRespected
  BY <1>2 DEF DirectionRespected, RowSound
<1>4. ApprovalsAnnounced
  BY <1>2 DEF ApprovalsAnnounced, RowSound, ToAnnounce
<1>5. JudgementsKept
  BY <1>2 DEF JudgementsKept, RowSound
<1> QED BY <1>1, <1>3, <1>4, <1>5 DEF MatchInv, ContractsSound

(* Whatever runs, requests, audits and restarts overlap, and for any        *)
(* scores and thresholds: discovery and ingestion stay apart unless two     *)
(* discoveries have doubled, no pair that bets on opposite outcomes is      *)
(* traded on discovery's word, whoever approves a pair tells it, and what   *)
(* was rejected stays out until a person approves it.                       *)
THEOREM ContractsAlwaysSound == MatchSpec => []ContractsSound
<1>1. MatchSpec => []MatchInv
  BY MatchStarts, MatchStep, PTL DEF MatchSpec
<1> QED BY <1>1, RowsSound, PTL

-----------------------------------------------------------------------------
(* The clusters the matches are put in.                                    *)

(* Two categories that both stand for a cluster because the model named it. *)
NamedOnBoth(m, c) == \A v \in TagVenue : CategoryOf[m][v] # "none" /\ NamedOnVenue(m, v, c)

TagExplained(t) ==
    t[3] \in RiskCluster => \E n \in ClusterMatch : CategoryOf[n][t[1]] = t[2] /\ t[3] \in answers[n]

(* What a classification has seen of Kalshi's tags, and what it decided.    *)
QuestionExplained(q) ==
    /\ \A c \in q.seen : CategoryOf[q.match]["kalshi"] # "none" /\
          (c \in RiskCluster => NamedOnVenue(q.match, "kalshi", c))
    /\ q.to \in RiskCluster => q.to \in answers[q.match] \/ NamedOnBoth(q.match, q.to)

ClusterInv ==
    /\ ClusterTypeOK
    /\ asking \subseteq [match : ClusterMatch, at : {"kalshi", "polymarket", "model", "assign"},
                         seen : SUBSET SomeCluster, to : SomeCluster]
    /\ \A t \in tags : TagExplained(t)
    /\ \A q \in asking : QuestionExplained(q)
    /\ ClusterExplained

QuestionRecord == [match : ClusterMatch, at : {"kalshi", "polymarket", "model", "assign"},
                   seen : SUBSET SomeCluster, to : SomeCluster]

LEMMA ClusterStarts == ClusterInit => ClusterInv
<1> SUFFICES ASSUME ClusterInit PROVE ClusterInv
  OBVIOUS
<1>1. clusterOf \in [ClusterMatch -> SomeCluster] /\ answers \in [ClusterMatch -> SUBSET SomeCluster]
  BY DEF ClusterInit, SomeCluster
<1>2. tags = {} /\ asking = {} /\ \A m \in ClusterMatch : clusterOf[m] \notin RiskCluster
  BY ClusterAssumption DEF ClusterInit
<1> QED BY <1>1, <1>2 DEF ClusterInv, ClusterTypeOK, ClusterExplained

(* What explains a tag or a decision is not forgotten.                      *)
LEMMA AnswersKept ==
    ASSUME \A n \in ClusterMatch : answers[n] \subseteq answers'[n]
    PROVE  /\ \A t : TagExplained(t) => TagExplained(t)'
           /\ \A m, v, c : NamedOnVenue(m, v, c) => NamedOnVenue(m, v, c)'
           /\ \A m \in ClusterMatch : \A c : NamedOnBoth(m, c) => NamedOnBoth(m, c)'
           /\ \A q \in QuestionRecord : QuestionExplained(q) => QuestionExplained(q)'
<1>1. \A t : TagExplained(t) => TagExplained(t)'
  BY DEF TagExplained
<1>2. \A m, v, c : NamedOnVenue(m, v, c) => NamedOnVenue(m, v, c)'
  BY DEF NamedOnVenue
<1>3. \A m \in ClusterMatch : \A c : NamedOnBoth(m, c) => NamedOnBoth(m, c)'
  BY <1>2 DEF NamedOnBoth
<1>4. \A q \in QuestionRecord : QuestionExplained(q) => QuestionExplained(q)'
  <2> SUFFICES ASSUME NEW q \in QuestionRecord, QuestionExplained(q) PROVE QuestionExplained(q)'
    OBVIOUS
  <2>1. q.match \in ClusterMatch
    BY DEF QuestionRecord
  <2> QED BY <1>2, <1>3, <2>1 DEF QuestionExplained
<1> QED BY <1>1, <1>2, <1>3, <1>4

(* A tag of a category that is there, and what it says of the match.        *)
LEMMA TaggedExplained ==
    ASSUME ClusterTypeOK, \A t \in tags : TagExplained(t), NEW v \in TagVenue, NEW m \in ClusterMatch,
           NEW c \in TaggedWith(v, m)
    PROVE  /\ c \in SomeCluster /\ CategoryOf[m][v] # "none"
           /\ c \in RiskCluster => NamedOnVenue(m, v, c)
<1>1. <<v, CategoryOf[m][v], c>> \in tags /\ c \in SomeCluster
  BY DEF TaggedWith, SomeCluster
<1>2. CategoryOf[m][v] \in Category
  BY <1>1 DEF ClusterTypeOK
<1>3. TagExplained(<<v, CategoryOf[m][v], c>>)
  BY <1>1
<1>4. c \in RiskCluster => NamedOnVenue(m, v, c)
  BY <1>3 DEF TagExplained, NamedOnVenue
<1> QED BY <1>1, <1>2, <1>4 DEF Category

LEMMA QuestionsStep ==
    ASSUME ClusterInv, NEW q \in asking,
           ReadKalshiTags(q) \/ ReadPolymarketTags(q) \/ AskModel(q) \/ Assign(q)
    PROVE  ClusterInv'
<1>0. /\ ClusterTypeOK /\ asking \subseteq QuestionRecord /\ ClusterExplained
      /\ \A t \in tags : TagExplained(t)
      /\ \A p \in asking : QuestionExplained(p)
  BY DEF ClusterInv, QuestionRecord
<1>1. q \in QuestionRecord /\ QuestionExplained(q) /\ q.match \in ClusterMatch
  BY <1>0 DEF QuestionRecord
(* A step that only moves the question on. *)
<1>2. ASSUME NEW p \in QuestionRecord, QuestionExplained(p), asking' = (asking \ {q}) \union {p},
             UNCHANGED <<tags, clusterOf, overrides, answers>>
      PROVE  ClusterInv'
  <2>1. asking' \subseteq QuestionRecord
    BY <1>0, <1>2
  <2>2. ClusterTypeOK'
    <3>1. \A r \in asking' : r.match \in ClusterMatch /\ r.to \in SomeCluster
      BY <2>1 DEF QuestionRecord
    <3> QED BY <1>0, <1>2, <3>1 DEF ClusterTypeOK
  <2>3. \A n \in ClusterMatch : answers[n] \subseteq answers'[n]
    BY <1>2
  <2>4. \A r \in asking' : QuestionExplained(r)'
    BY <1>0, <1>2, <2>3, AnswersKept
  <2>5. \A t \in tags' : TagExplained(t)'
    BY <1>0, <1>2, <2>3, AnswersKept
  <2>6. ClusterExplained'
    BY <1>0, <1>2 DEF ClusterExplained, NamedOnVenue
  <2> QED BY <2>1, <2>2, <2>4, <2>5, <2>6 DEF ClusterInv, QuestionRecord
<1>3. ASSUME ReadKalshiTags(q) PROVE ClusterInv'
  <2> DEFINE p == [q EXCEPT !.at = "polymarket", !.seen = TaggedWith("kalshi", q.match)]
  <2>1. asking' = (asking \ {q}) \union {p} /\ UNCHANGED <<tags, clusterOf, overrides, answers>>
    BY <1>3 DEF ReadKalshiTags, Replace
  <2>2. \A c \in TaggedWith("kalshi", q.match) :
           c \in SomeCluster /\ CategoryOf[q.match]["kalshi"] # "none"
           /\ (c \in RiskCluster => NamedOnVenue(q.match, "kalshi", c))
    BY <1>0, <1>1, TaggedExplained DEF TagVenue
  <2>3. TaggedWith("kalshi", q.match) \in SUBSET SomeCluster
    BY <2>2
  <2>4. p \in QuestionRecord /\ p.match = q.match /\ p.to = q.to /\ p.seen = TaggedWith("kalshi", q.match)
    BY <1>1, <2>3 DEF QuestionRecord
  <2> HIDE DEF p
  <2>5. QuestionExplained(p)
    BY <1>1, <2>2, <2>4 DEF QuestionExplained
  <2> QED BY <1>2, <2>1, <2>4, <2>5
<1>4. ASSUME ReadPolymarketTags(q) PROVE ClusterInv'
  <2> DEFINE decided == FastPath(q.seen, TaggedWith("polymarket", q.match))
  <2>1. UNCHANGED <<tags, clusterOf, overrides, answers>>
    BY <1>4 DEF ReadPolymarketTags
  <2>2. \/ \E c \in decided : asking' = (asking \ {q}) \union {[q EXCEPT !.at = "assign", !.to = c]}
        \/ asking' = (asking \ {q}) \union {[q EXCEPT !.at = "model"]}
        \/ asking' = (asking \ {q}) \union {[q EXCEPT !.at = "assign", !.to = Uncategorized]}
    BY <1>4, Zenon DEF ReadPolymarketTags, Replace
  <2>3. ASSUME NEW c \in decided PROVE c \in SomeCluster /\ (c \in RiskCluster => NamedOnBoth(q.match, c))
    <3>1. c \in q.seen /\ c \in TaggedWith("polymarket", q.match)
      BY <2>3 DEF FastPath
    <3>2. CategoryOf[q.match]["kalshi"] # "none" /\ (c \in RiskCluster => NamedOnVenue(q.match, "kalshi", c))
      BY <1>1, <3>1 DEF QuestionExplained
    <3>3. /\ c \in SomeCluster /\ CategoryOf[q.match]["polymarket"] # "none"
          /\ (c \in RiskCluster => NamedOnVenue(q.match, "polymarket", c))
      BY <1>0, <1>1, <3>1, TaggedExplained DEF TagVenue
    <3> QED BY <3>2, <3>3 DEF NamedOnBoth, TagVenue
  <2> HIDE DEF decided
  <2>4. ASSUME NEW c \in decided, asking' = (asking \ {q}) \union {[q EXCEPT !.at = "assign", !.to = c]}
        PROVE  ClusterInv'
    <3> DEFINE p == [q EXCEPT !.at = "assign", !.to = c]
    <3>1. p \in QuestionRecord /\ p.match = q.match /\ p.to = c /\ p.seen = q.seen
      BY <1>1, <2>3, <2>4 DEF QuestionRecord
    <3>2. asking' = (asking \ {q}) \union {p}
      BY <2>4
    <3> HIDE DEF p
    <3>3. QuestionExplained(p)
      BY <1>1, <2>3, <2>4, <3>1 DEF QuestionExplained
    <3> QED BY <1>2, <2>1, <3>1, <3>2, <3>3
  <2>5. ASSUME asking' = (asking \ {q}) \union {[q EXCEPT !.at = "model"]} PROVE ClusterInv'
    <3> DEFINE p == [q EXCEPT !.at = "model"]
    <3>1. p \in QuestionRecord /\ p.match = q.match /\ p.to = q.to /\ p.seen = q.seen
      BY <1>1 DEF QuestionRecord
    <3>2. asking' = (asking \ {q}) \union {p}
      BY <2>5
    <3> HIDE DEF p
    <3>3. QuestionExplained(p)
      BY <1>1, <3>1 DEF QuestionExplained
    <3> QED BY <1>2, <2>1, <3>1, <3>2, <3>3
  <2>6. ASSUME asking' = (asking \ {q}) \union {[q EXCEPT !.at = "assign", !.to = Uncategorized]}
        PROVE  ClusterInv'
    <3> DEFINE p == [q EXCEPT !.at = "assign", !.to = Uncategorized]
    <3>1. p \in QuestionRecord /\ p.match = q.match /\ p.to = Uncategorized /\ p.seen = q.seen
      BY <1>1 DEF QuestionRecord, SomeCluster
    <3>2. asking' = (asking \ {q}) \union {p}
      BY <2>6
    <3> HIDE DEF p
    <3>3. QuestionExplained(p)
      BY <1>1, <3>1, ClusterAssumption DEF QuestionExplained
    <3> QED BY <1>2, <2>1, <3>1, <3>2, <3>3
  <2> QED BY <2>2, <2>4, <2>5, <2>6
<1>5. ASSUME AskModel(q) PROVE ClusterInv'
  <2>1. ASSUME asking' = (asking \ {q}) \union {[q EXCEPT !.at = "assign", !.to = Uncategorized]},
               UNCHANGED <<tags, answers, clusterOf, overrides>>
        PROVE  ClusterInv'
    <3> DEFINE p == [q EXCEPT !.at = "assign", !.to = Uncategorized]
    <3>1. p \in QuestionRecord /\ p.match = q.match /\ p.to = Uncategorized /\ p.seen = q.seen
      BY <1>1 DEF QuestionRecord, SomeCluster
    <3>2. asking' = (asking \ {q}) \union {p}
      BY <2>1
    <3> HIDE DEF p
    <3>3. QuestionExplained(p)
      BY <1>1, <3>1, ClusterAssumption DEF QuestionExplained
    <3> QED BY <1>2, <2>1, <3>1, <3>2, <3>3
  <2>2. ASSUME NEW c \in NamedCluster,
               asking' = (asking \ {q}) \union {[q EXCEPT !.at = "assign", !.to = c]},
               tags' = tags \union NewTags(q.match, c),
               answers' = [answers EXCEPT ![q.match] = @ \union {c}],
               UNCHANGED <<clusterOf, overrides>>
        PROVE  ClusterInv'
    <3> DEFINE p == [q EXCEPT !.at = "assign", !.to = c]
    <3>1. p \in QuestionRecord /\ p.match = q.match /\ p.to = c /\ p.seen = q.seen
      BY <1>1 DEF QuestionRecord, SomeCluster, NamedCluster
    <3>2. asking' = (asking \ {q}) \union {p}
      BY <2>2
    <3> HIDE DEF p
    <3>3. answers \in [ClusterMatch -> SUBSET SomeCluster] /\ c \in SomeCluster
      BY <1>0 DEF ClusterTypeOK, NamedCluster, SomeCluster
    <3>4. /\ answers' \in [ClusterMatch -> SUBSET SomeCluster]
          /\ \A n \in ClusterMatch : answers[n] \subseteq answers'[n]
          /\ c \in answers'[q.match]
      BY <1>1, <2>2, <3>3
    <3>5. QuestionExplained(p)'
      <4>1. QuestionExplained(q)'
        BY <1>1, <3>4, AnswersKept
      <4> QED BY <3>1, <3>4, <4>1 DEF QuestionExplained
    <3>6. \A r \in asking' : QuestionExplained(r)'
      BY <1>0, <3>2, <3>4, <3>5, AnswersKept
    <3>7. asking' \subseteq QuestionRecord
      BY <1>0, <3>1, <3>2
    <3>8. ASSUME NEW t \in NewTags(q.match, c)
          PROVE  t \in TagVenue \X Category \X SomeCluster /\ TagExplained(t)'
      <4>1. PICK v \in TagVenue : CategoryOf[q.match][v] # "none" /\ t = <<v, CategoryOf[q.match][v], c>>
        BY <3>8 DEF NewTags
      <4>2. CategoryOf[q.match][v] \in Category
        BY <1>1, <4>1 DEF Category
      <4>3. t \in TagVenue \X Category \X SomeCluster
        BY <3>3, <4>1, <4>2
      <4>4. TagExplained(t)'
        BY <1>1, <3>4, <4>1 DEF TagExplained
      <4> QED BY <4>3, <4>4
    <3>9. \A t \in tags' : TagExplained(t)'
      BY <1>0, <2>2, <3>4, <3>8, AnswersKept
    <3>10. tags' \subseteq TagVenue \X Category \X SomeCluster
      BY <1>0, <2>2, <3>8 DEF ClusterTypeOK
    <3>11. ClusterTypeOK'
      <4>1. \A r \in asking' : r.match \in ClusterMatch /\ r.to \in SomeCluster
        BY <3>7 DEF QuestionRecord
      <4> QED BY <1>0, <2>2, <3>4, <3>10, <4>1 DEF ClusterTypeOK
    <3>12. ClusterExplained'
      <4>1. \A m, v, d : NamedOnVenue(m, v, d) => NamedOnVenue(m, v, d)'
        BY <3>4, AnswersKept
      <4> QED BY <1>0, <2>2, <3>4, <4>1 DEF ClusterExplained
    <3> QED BY <3>6, <3>7, <3>9, <3>11, <3>12 DEF ClusterInv, QuestionRecord
  <2> QED BY <1>5, <2>1, <2>2, Zenon DEF AskModel, Replace
<1>6. ASSUME Assign(q) PROVE ClusterInv'
  <2>1. asking' = asking \ {q} /\ UNCHANGED <<tags, overrides, answers>>
        /\ (clusterOf' = [clusterOf EXCEPT ![q.match] = q.to] \/ clusterOf' = clusterOf)
    BY <1>6 DEF Assign, Replace
  <2>2. clusterOf \in [ClusterMatch -> SomeCluster] /\ q.to \in SomeCluster
    BY <1>0, <1>1 DEF ClusterTypeOK, QuestionRecord
  <2>3. clusterOf' \in [ClusterMatch -> SomeCluster]
        /\ \A m \in ClusterMatch : clusterOf'[m] = clusterOf[m] \/ (m = q.match /\ clusterOf'[m] = q.to)
    BY <1>1, <2>1, <2>2
  <2>4. asking' \subseteq QuestionRecord
    BY <1>0, <2>1
  <2>5. ClusterTypeOK'
    <3>1. \A r \in asking' : r.match \in ClusterMatch /\ r.to \in SomeCluster
      BY <2>4 DEF QuestionRecord
    <3> QED BY <1>0, <2>1, <2>3, <3>1 DEF ClusterTypeOK
  <2>6. \A n \in ClusterMatch : answers[n] \subseteq answers'[n]
    BY <2>1
  <2>7. \A r \in asking' : QuestionExplained(r)'
    BY <1>0, <2>1, <2>6, AnswersKept
  <2>8. \A t \in tags' : TagExplained(t)'
    BY <1>0, <2>1, <2>6, AnswersKept
  <2>9. ClusterExplained'
    <3> SUFFICES ASSUME NEW m \in ClusterMatch, clusterOf'[m] \in RiskCluster
                 PROVE  \/ clusterOf'[m] \in answers[m]
                        \/ \A v \in TagVenue : CategoryOf[m][v] # "none" /\ NamedOnVenue(m, v, clusterOf'[m])
                        \/ \E t \in overrides : t.match = m /\ t.new = clusterOf'[m]
      BY <2>1 DEF ClusterExplained, NamedOnVenue
    <3>1. CASE clusterOf'[m] = clusterOf[m]
      BY <1>0, <3>1 DEF ClusterExplained
    <3>2. CASE m = q.match /\ clusterOf'[m] = q.to
      BY <1>1, <3>2 DEF QuestionExplained, NamedOnBoth
    <3> QED BY <2>3, <3>1, <3>2
  <2> QED BY <2>4, <2>5, <2>7, <2>8, <2>9 DEF ClusterInv, QuestionRecord
<1> QED BY <1>3, <1>4, <1>5, <1>6

LEMMA ClusterStep == ClusterInv /\ [ClusterNext]_clusterVars => ClusterInv'
<1> SUFFICES ASSUME ClusterInv, [ClusterNext]_clusterVars PROVE ClusterInv'
  OBVIOUS
<1>0. /\ ClusterTypeOK /\ asking \subseteq QuestionRecord /\ ClusterExplained
      /\ \A t \in tags : TagExplained(t)
      /\ \A p \in asking : QuestionExplained(p)
  BY DEF ClusterInv, QuestionRecord
(* A step that changes none of the answers. *)
<1>1. ASSUME answers' = answers, tags' \subseteq tags, ClusterExplained',
             \A p \in asking' : p \in QuestionRecord /\ QuestionExplained(p),
             clusterOf' \in [ClusterMatch -> SomeCluster]
      PROVE  ClusterInv'
  <2>1. \A p \in asking' : p.match \in ClusterMatch /\ p.to \in SomeCluster
    BY <1>1 DEF QuestionRecord
  <2>2. ClusterTypeOK'
    BY <1>0, <1>1, <2>1 DEF ClusterTypeOK
  <2>3. \A n \in ClusterMatch : answers[n] \subseteq answers'[n]
    BY <1>1
  <2>4. (\A t \in tags' : TagExplained(t)') /\ (\A p \in asking' : QuestionExplained(p)')
    BY <1>0, <1>1, <2>3, AnswersKept
  <2> QED BY <1>1, <2>2, <2>4 DEF ClusterInv, QuestionRecord
<1>2. clusterOf \in [ClusterMatch -> SomeCluster]
  BY <1>0 DEF ClusterTypeOK
<1>3. ASSUME clusterOf' = clusterOf, answers' = answers, overrides' = overrides PROVE ClusterExplained'
  BY <1>0, <1>3 DEF ClusterExplained, NamedOnVenue
<1>4. ASSUME NEW m \in ClusterMatch, StartClassify(m) PROVE ClusterInv'
  <2> DEFINE new == [match |-> m, at |-> "kalshi", seen |-> {}, to |-> "none"]
  <2>1. asking' = asking \union {new} /\ UNCHANGED <<tags, clusterOf, overrides, answers>>
    BY <1>4 DEF StartClassify
  <2>2. new \in QuestionRecord /\ QuestionExplained(new)
    BY ClusterAssumption DEF QuestionRecord, QuestionExplained, SomeCluster
  <2> HIDE DEF new
  <2> QED BY <1>0, <1>1, <1>2, <1>3, <2>1, <2>2
<1>5. ASSUME NEW m \in ClusterMatch, NEW c \in RiskCluster, Override(m, c) PROVE ClusterInv'
  <2> DEFINE given == [match |-> m, new |-> c]
  <2>1. /\ UNCHANGED <<tags, asking, answers>> /\ clusterOf' = [clusterOf EXCEPT ![m] = c]
        /\ overrides' = overrides \union {given}
    BY <1>5 DEF Override
  <2>2. given.match = m /\ given.new = c
    OBVIOUS
  <2> HIDE DEF given
  <2>3. clusterOf' \in [ClusterMatch -> SomeCluster] /\ clusterOf'[m] = c
        /\ \A n \in ClusterMatch : n # m => clusterOf'[n] = clusterOf[n]
    BY <1>2, <2>1 DEF SomeCluster
  <2>4. \A n, v, d : NamedOnVenue(n, v, d)' <=> NamedOnVenue(n, v, d)
    BY <2>1 DEF NamedOnVenue
  <2>5. ASSUME NEW n \in ClusterMatch, clusterOf'[n] \in RiskCluster
        PROVE  \/ clusterOf'[n] \in answers'[n]
               \/ \A v \in TagVenue : CategoryOf[n][v] # "none" /\ NamedOnVenue(n, v, clusterOf[n])
                                      /\ clusterOf'[n] = clusterOf[n]
               \/ \E t \in overrides' : t.match = n /\ t.new = clusterOf'[n]
    <3>1. CASE n = m
      BY <2>1, <2>2, <2>3, <3>1
    <3>2. CASE n # m
      BY <1>0, <2>1, <2>3, <2>5, <3>2 DEF ClusterExplained
    <3> QED BY <3>1, <3>2
  <2>6. ClusterExplained'
    BY <2>4, <2>5 DEF ClusterExplained
  <2> QED BY <1>0, <1>1, <2>1, <2>3, <2>6
<1>6. ASSUME PurgeTags PROVE ClusterInv'
  BY <1>0, <1>1, <1>2, <1>3, <1>6 DEF PurgeTags
<1>7. ASSUME UNCHANGED clusterVars PROVE ClusterInv'
  BY <1>0, <1>1, <1>2, <1>3, <1>7 DEF clusterVars
<1> QED BY <1>4, <1>5, <1>6, <1>7, QuestionsStep DEF ClusterNext

(* Whatever classifications, overrides and audits overlap, and for any       *)
(* matches, categories and clusters: a match is in a risk cluster only      *)
(* because the model named it for this match or for one of each of its      *)
(* categories, or because an operator put it there.                         *)
THEOREM ClustersAlwaysSound == ClusterSpec => []ClustersSound
<1>1. ClusterSpec => []ClusterInv
  BY ClusterStarts, ClusterStep, PTL DEF ClusterSpec
<1>2. ClusterInv => ClustersSound
  BY DEF ClusterInv, ClustersSound
<1> QED BY <1>1, <1>2, PTL

-----------------------------------------------------------------------------
(* The resolution of the matches and what follows from it.                 *)

(* What the poller is in the middle of: the matches that it has yet to ask  *)
(* about are unresolved, and what Kalshi said of the oldest of them holds.  *)
PollInOrder ==
    /\ ~polling => todo = {}
    /\ todo = {} => kalshi = "none"
    /\ \A m \in todo : Unresolved(m)
    /\ todo # {} /\ kalshi \in Settled => outcome[Oldest(todo)]["kalshi"] = kalshi

OnlyResolvedAnswered ==
    \A m \in DueMatch : record[m].state # "resolved" => record[m].kalshi = "none" /\ record[m].polymarket = "none"

ResolutionInv ==
    /\ ResolutionTypeOK
    /\ PollInOrder
    /\ OnlyResolvedAnswered
    /\ RecordsMatchVenues
    /\ DivergedOnce
    /\ RecommendationSafe
    /\ TiersPartition

LEMMA DueFinite ==
    /\ IsFiniteSet(DueMatch)
    /\ \A ms \in SUBSET DueMatch : IsFiniteSet(ms) /\ Cardinality(ms) \in Nat
<1>1. IsFiniteSet(DOMAIN DueMatches)
  <2>1. PICK n \in Nat : DOMAIN DueMatches = 1..n
    BY ResolutionAssumption
  <2> QED BY <2>1, FS_Interval
<1>2. IsFiniteSet(DueMatch)
  BY <1>1, ImageFinite DEF DueMatch
<1> QED BY <1>2, FS_Subset, FS_CardinalityType

LEMMA OldestIsOne == ASSUME NEW ms \in SUBSET DueMatch, ms # {} PROVE Oldest(ms) \in ms
<1>1. \A m \in DueMatch : Age(m) \in Nat
  <2> SUFFICES ASSUME NEW m \in DueMatch PROVE Age(m) \in Nat
    OBVIOUS
  <2>1. \E i \in DOMAIN DueMatches : DueMatches[i] = m
    BY DEF DueMatch
  <2>2. Age(m) \in DOMAIN DueMatches
    BY <2>1 DEF Age
  <2>3. DOMAIN DueMatches \subseteq Nat
    BY ResolutionAssumption
  <2> QED BY <2>2, <2>3
<1> DEFINE youth == [m \in ms |-> 0 - Age(m)]
           T == {youth[m] : m \in ms}
<1>2. \A m \in ms : youth[m] = 0 - Age(m) /\ youth[m] \in Int
  BY <1>1
<1>3. IsFiniteSet(ms)
  BY DueFinite
<1> HIDE DEF youth
<1>4. T \in SUBSET Int /\ T # {}
  BY <1>2
<1>5. IsFiniteSet(T)
  BY <1>3, ImageFinite
<1> HIDE DEF T
<1>6. Max(T) \in T /\ \A y \in T : Max(T) >= y
  BY <1>4, <1>5, MaxOfFinite
<1>7. PICK m \in ms : Max(T) = youth[m]
  BY <1>6 DEF T
<1>8. \A n \in ms : Age(m) <= Age(n)
  <2> SUFFICES ASSUME NEW n \in ms PROVE Age(m) <= Age(n)
    OBVIOUS
  <2>1. youth[m] >= youth[n]
    BY <1>6, <1>7 DEF T
  <2> QED BY <1>1, <1>2, <2>1
<1> QED BY <1>8 DEF Oldest

LEMMA ResolutionStarts == ResolutionInit => ResolutionInv
<1> SUFFICES ASSUME ResolutionInit PROVE ResolutionInv
  OBVIOUS
<1> USE DEF ResolutionInit
<1>1. /\ outcome \in [DueMatch -> [Venues -> Outcomes]]
      /\ record \in [DueMatch -> [state : {"unresolved", "void", "resolved"},
                                kalshi : {"none", "yes", "no"}, polymarket : {"none", "yes", "no"}]]
      /\ divergences \in [DueMatch -> Nat] /\ todo = {} /\ kalshi = "none"
  BY DEF Outcomes, Unwritten
<1>2. NotCalibrated \in Calibration
  <2>1. <<0, 0, 0>> \in Seq(Nat)
    OBVIOUS
  <2> QED BY <2>1 DEF NotCalibrated, Calibration
<1>3. latest = NotCalibrated /\ saved = NotCalibrated
  OBVIOUS
<1>4. polling \in BOOLEAN
  BY Zenon
<1>5. \A m \in DueMatch : Unresolved(m) /\ record[m].kalshi = "none" /\ record[m].polymarket = "none"
                          /\ divergences[m] = 0
  BY DEF Unresolved, Unwritten
<1> HIDE DEF ResolutionInit
<1>6. ResolutionTypeOK
  BY <1>1, <1>2, <1>3, <1>4 DEF ResolutionTypeOK
<1>7. PollInOrder /\ OnlyResolvedAnswered
  BY <1>1, <1>5 DEF PollInOrder, OnlyResolvedAnswered
<1>8. RecordsMatchVenues /\ DivergedOnce
  BY <1>5 DEF RecordsMatchVenues, DivergedOnce, Resolved, Diverges
<1>9. RecommendationSafe
  BY <1>3 DEF RecommendationSafe, NotCalibrated
<1>10. TiersPartition
  <2>1. MinimumData > 0
    BY ResolutionAssumption
  <2> QED BY <1>3, <2>1, ResolutionAssumption DEF TiersPartition, NotCalibrated
<1> QED BY <1>6, <1>7, <1>8, <1>9, <1>10 DEF ResolutionInv

(* A whole quotient that is nothing. *)
LEMMA QuotientZero == ASSUME NEW a \in Nat, NEW b \in Nat, b > 0, a \div b = 0 PROVE a < b
OBVIOUS

(* The three tiers are disjoint and cover what is resolved.                 *)
LEMMA TiersCount ==
    Cardinality(Tier(1)) + Cardinality(Tier(2)) + Cardinality(Tier(3)) = Cardinality(Resolved)
<1>1. Tier(1) \in SUBSET DueMatch /\ Tier(2) \in SUBSET DueMatch /\ Tier(3) \in SUBSET DueMatch
      /\ Tier(1) \cup Tier(2) \in SUBSET DueMatch
  BY DEF Tier, Resolved
<1>2. Tier(1) \cap Tier(2) = {} /\ (Tier(1) \cup Tier(2)) \cap Tier(3) = {}
  BY DEF Tier
<1>3. (Tier(1) \cup Tier(2)) \cup Tier(3) = Resolved
  BY DEF Tier, TierOf
<1>4. IsFiniteSet(Tier(1)) /\ IsFiniteSet(Tier(2)) /\ IsFiniteSet(Tier(3))
      /\ IsFiniteSet(Tier(1) \cup Tier(2))
  BY <1>1, DueFinite
<1>5. Cardinality(Tier(1) \cup Tier(2)) = Cardinality(Tier(1)) + Cardinality(Tier(2)) - Cardinality({})
  BY <1>2, <1>4, FS_Union
<1>6. Cardinality(Resolved) = Cardinality(Tier(1) \cup Tier(2)) + Cardinality(Tier(3)) - Cardinality({})
  BY <1>2, <1>3, <1>4, FS_Union
<1>7. Cardinality({}) = 0
  BY FS_EmptySet
<1>8. /\ Cardinality(Tier(1)) \in Nat /\ Cardinality(Tier(2)) \in Nat /\ Cardinality(Tier(3)) \in Nat
      /\ Cardinality(Tier(1) \cup Tier(2)) \in Nat
  BY <1>1, DueFinite
<1> QED BY <1>5, <1>6, <1>7, <1>8

LEMMA LoweredRight ==
    ASSUME Lowered # 0
    PROVE  /\ Lowered \in CalibrationFloor..(UpperTier - 1)
           /\ 2000 * CountDiverged(Above(Lowered)) < Cardinality(Resolved)
<1> DEFINE viable == {t \in Tried : Viable(t) /\ t <= CalibrationCeiling}
<1>1. viable # {} /\ Lowered = CHOOSE t \in viable : \A u \in viable : u <= t
  BY DEF Lowered
<1>2. viable \in SUBSET Int
  BY DEF Tried
<1>3. IsFiniteSet(viable)
  <2>1. IsFiniteSet(CalibrationFloor..(UpperTier - Stride))
    BY ResolutionAssumption, FS_Interval DEF CalibrationFloor, Stride
  <2>2. viable \in SUBSET (CalibrationFloor..(UpperTier - Stride))
    BY DEF Tried
  <2> QED BY <2>1, <2>2, FS_Subset
<1> DEFINE t == Lowered
<1>4. t \in viable
  <2> HIDE DEF viable, t
  <2>1. Max(viable) \in viable /\ \A y \in viable : Max(viable) >= y
    BY <1>1, <1>2, <1>3, MaxOfFinite
  <2>2. \E x \in viable : \A u \in viable : u <= x
    BY <1>2, <2>1
  <2> QED BY <1>1, <2>2 DEF t
<1>5. t \in CalibrationFloor..(UpperTier - Stride) /\ Viable(t)
  BY <1>4 DEF Tried
<1>6. t \in CalibrationFloor..(UpperTier - 1)
  BY <1>5, ResolutionAssumption DEF CalibrationFloor, Stride
<1> DEFINE n == Cardinality(Above(t))
           d == CountDiverged(Above(t))
<1>7. n \in Nat /\ d \in Nat /\ n <= Cardinality(Resolved)
  <2>1. Above(t) \in SUBSET Resolved /\ Resolved \in SUBSET DueMatch
        /\ {m \in Above(t) : Diverges(m)} \in SUBSET DueMatch
    BY DEF Above, Resolved
  <2> HIDE DEF t
  <2>2. IsFiniteSet(Resolved) /\ Above(t) \in SUBSET DueMatch
    BY <2>1, DueFinite
  <2> QED BY <2>1, <2>2, DueFinite, FS_Subset DEF CountDiverged
<1>8. n > 0 /\ DivergenceRate(Above(t)) = 0
  BY <1>5, <1>7, ResolutionAssumption DEF Viable
<1>9. (2000 * d + n) \div (2 * n) = 0
  <2>1. Above(t) # {}
    BY <1>8, FS_EmptySet
  <2> HIDE DEF t
  <2> QED BY <1>8, <2>1 DEF DivergenceRate
<1> HIDE DEF n, d
<1>10. 2000 * d + n < 2 * n
  BY <1>7, <1>8, <1>9, QuotientZero
<1>11. 2000 * d < n
  BY <1>7, <1>10
<1>12. Cardinality(Resolved) \in Nat
  BY DueFinite DEF Resolved
<1> QED BY <1>6, <1>7, <1>11, <1>12 DEF d

(* What a calibration says of a threshold and of the tiers, as of now.      *)
LEMMA CalibrationRight ==
    ASSUME NEW c, c = CalibrationNow
    PROVE  /\ c \in Calibration
           /\ c.total = Cardinality(Resolved)
           /\ c.lower # 0 =>
                /\ c.lower \in CalibrationFloor..(UpperTier - 1)
                /\ 2000 * CountDiverged(Above(c.lower)) < c.total
           /\ c.total >= MinimumData => c.tiers[1] + c.tiers[2] + c.tiers[3] = c.total
<1>1. Cardinality(Resolved) \in Nat
  BY DueFinite DEF Resolved
<1>2. CASE Cardinality(Resolved) < MinimumData
  <2>1. c = [NotCalibrated EXCEPT !.total = Cardinality(Resolved)]
    BY <1>2 DEF CalibrationNow
  <2>2. <<0, 0, 0>> \in Seq(Nat)
    OBVIOUS
  <2> DEFINE none == <<0, 0, 0>>
  <2>5. c = [total |-> Cardinality(Resolved), tiers |-> none, diverged |-> none, lower |-> 0, raise |-> FALSE]
    BY <2>1 DEF NotCalibrated
  <2> HIDE DEF none
  <2>3. c \in Calibration /\ c.total = Cardinality(Resolved) /\ c.lower = 0
    BY <1>1, <2>2, <2>5 DEF Calibration, none
  <2>4. MinimumData \in Nat
    BY ResolutionAssumption
  <2> QED BY <1>1, <1>2, <2>3, <2>4
<1>3. CASE ~(Cardinality(Resolved) < MinimumData)
  <2> DEFINE tiers == [i \in 1..3 |-> Cardinality(Tier(i))]
             diverged == [i \in 1..3 |-> CountDiverged(Tier(i))]
             raise == DivergenceRate(Tier(1)) > 50
  <2>1. c = [total |-> Cardinality(Resolved), tiers |-> tiers, diverged |-> diverged,
             lower |-> Lowered, raise |-> raise]
    BY <1>3 DEF CalibrationNow
  <2>2. ASSUME NEW i \in 1..3 PROVE Cardinality(Tier(i)) \in Nat /\ CountDiverged(Tier(i)) \in Nat
    <3>1. Tier(i) \in SUBSET DueMatch /\ {m \in Tier(i) : Diverges(m)} \in SUBSET DueMatch
      BY DEF Tier, Resolved
    <3> QED BY <3>1, DueFinite DEF CountDiverged
  <2>3. tiers \in [1..3 -> Nat] /\ diverged \in [1..3 -> Nat]
    BY <2>2
  <2>4. tiers \in Seq(Nat) /\ diverged \in Seq(Nat)
    BY <2>3
  <2>5. tiers[1] = Cardinality(Tier(1)) /\ tiers[2] = Cardinality(Tier(2)) /\ tiers[3] = Cardinality(Tier(3))
    OBVIOUS
  <2>6. raise \in BOOLEAN
    OBVIOUS
  <2>7. Lowered \in 0..100
    <3>1. CASE Lowered = 0
      BY <3>1
    <3>2. CASE Lowered # 0
      <4>1. Lowered \in CalibrationFloor..(UpperTier - 1)
        BY <3>2, LoweredRight
      <4>2. UpperTier \in Int /\ UpperTier <= 100
        BY ResolutionAssumption
      <4> QED BY <4>1, <4>2 DEF CalibrationFloor
    <3> QED BY <3>1, <3>2
  <2> HIDE DEF tiers, diverged, raise
  <2>8. c \in Calibration
    BY <1>1, <2>1, <2>4, <2>6, <2>7 DEF Calibration
  <2>9. c.total = Cardinality(Resolved) /\ c.lower = Lowered /\ c.tiers = tiers
    BY <2>1
  <2> QED BY <2>5, <2>8, <2>9, LoweredRight, TiersCount
<1> QED BY <1>2, <1>3

LEMMA DivergedCounted == ASSUME NEW t PROVE CountDiverged(Above(t)) \in Nat
<1>1. {m \in Above(t) : Diverges(m)} \in SUBSET DueMatch
  BY DEF Above, Resolved
<1> QED BY <1>1, DueFinite DEF CountDiverged

(* Matches that are resolved since can only make up for themselves.         *)
LEMMA RecommendationKept ==
    ASSUME ResolutionTypeOK, RecommendationSafe, TiersPartition,
           latest' \in {latest, saved}, saved' \in {latest, saved},
           NEW k \in Nat, Cardinality(Resolved)' = Cardinality(Resolved) + k,
           \A t : CountDiverged(Above(t))' <= CountDiverged(Above(t)) + k,
           \A t : CountDiverged(Above(t))' \in Nat
    PROVE  RecommendationSafe' /\ TiersPartition'
<1>1. Cardinality(Resolved) \in Nat
  BY DueFinite DEF Resolved
<1>2. ASSUME NEW c \in {latest, saved}, c.lower # 0
      PROVE  /\ c.lower \in CalibrationFloor..(UpperTier - 1)
             /\ 2000 * (CountDiverged(Above(c.lower))' - (Cardinality(Resolved)' - c.total)) < c.total
  <2> DEFINE d == CountDiverged(Above(c.lower))
             n == Cardinality(Resolved)
             s == c.total
  <2>1. d \in Nat /\ CountDiverged(Above(c.lower))' <= d + k /\ CountDiverged(Above(c.lower))' \in Nat
    BY DivergedCounted
  <2>2. n \in Nat /\ s \in Nat
    BY <1>1 DEF ResolutionTypeOK, Calibration
  <2>3. c.lower \in CalibrationFloor..(UpperTier - 1) /\ 2000 * (d - (n - s)) < s
    BY <1>2 DEF RecommendationSafe
  <2>4. Cardinality(Resolved)' = n + k
    OBVIOUS
  <2> HIDE DEF d, n, s
  <2>5. ASSUME NEW e \in Nat, e <= d + k PROVE 2000 * (e - ((n + k) - s)) < s
    BY <2>1, <2>2, <2>3, <2>5
  <2>6. 2000 * (CountDiverged(Above(c.lower))' - ((n + k) - s)) < s
    BY <2>1, <2>5
  <2> QED BY <2>3, <2>4, <2>6 DEF s
<1>3. RecommendationSafe'
  BY <1>2 DEF RecommendationSafe
<1>4. TiersPartition'
  BY DEF TiersPartition
<1> QED BY <1>3, <1>4

(* A step that writes no row. *)
LEMMA RecordsUnwritten ==
    ASSUME record' = record
    PROVE  /\ Resolved' = Resolved
           /\ \A m : (Unresolved(m)' <=> Unresolved(m)) /\ (Diverges(m)' <=> Diverges(m))
           /\ \A t : CountDiverged(Above(t))' = CountDiverged(Above(t))
<1>1. \A m : (Unresolved(m)' <=> Unresolved(m)) /\ (Diverges(m)' <=> Diverges(m))
  BY DEF Unresolved, Diverges
<1>2. Resolved' = Resolved
  BY <1>1 DEF Resolved
<1>3. \A t : CountDiverged(Above(t))' = CountDiverged(Above(t))
  BY DEF CountDiverged, Above, Diverges, Resolved, Unresolved
<1> QED BY <1>1, <1>2, <1>3

LEMMA RestingStep ==
    ASSUME ResolutionInv, UNCHANGED <<record, outcome, divergences>>, PollInOrder',
           todo' \subseteq DueMatch, polling' \in BOOLEAN, kalshi' \in Outcomes \union {"none", "error"},
           latest' \in {latest, saved}, saved' \in {latest, saved}
    PROVE  ResolutionInv'
<1>1. ResolutionTypeOK'
  BY DEF ResolutionInv, ResolutionTypeOK
<1>2. OnlyResolvedAnswered'
  BY DEF ResolutionInv, OnlyResolvedAnswered
<1>3. RecordsMatchVenues' /\ DivergedOnce'
  <2>1. Resolved' = Resolved /\ \A m : Diverges(m)' <=> Diverges(m)
    BY RecordsUnwritten
  <2> QED BY <2>1 DEF ResolutionInv, RecordsMatchVenues, DivergedOnce
<1>4. RecommendationSafe' /\ TiersPartition'
  <2>1. Cardinality(Resolved)' = Cardinality(Resolved) /\ Cardinality(Resolved) \in Nat
    <3>1. Cardinality(Resolved) \in Nat
      BY DueFinite DEF Resolved
    <3> QED BY <3>1, RecordsUnwritten
  <2>2. \A t : CountDiverged(Above(t))' = CountDiverged(Above(t)) /\ CountDiverged(Above(t)) \in Nat
    BY RecordsUnwritten, DivergedCounted
  <2>3. Cardinality(Resolved)' = Cardinality(Resolved) + 0
    BY <2>1
  <2>4. \A t : CountDiverged(Above(t))' <= CountDiverged(Above(t)) + 0 /\ CountDiverged(Above(t))' \in Nat
    BY <2>2
  <2> QED BY <2>3, <2>4, RecommendationKept DEF ResolutionInv
<1> QED BY <1>1, <1>2, <1>3, <1>4 DEF ResolutionInv

LEMMA MarketSettles ==
    ASSUME ResolutionInv, NEW m \in DueMatch, NEW v \in Venues, SettleMarket(m, v)
    PROVE  ResolutionInv'
<1>1. PICK o \in Settled : outcome' = [outcome EXCEPT ![m][v] = o]
  BY DEF SettleMarket
<1>2. outcome[m][v] = "open" /\ UNCHANGED <<record, polling, todo, kalshi, divergences, latest, saved>>
  BY DEF SettleMarket
<1>3. outcome \in [DueMatch -> [Venues -> Outcomes]] /\ o \in Outcomes
  BY DEF ResolutionInv, ResolutionTypeOK, Outcomes
<1>4. outcome' \in [DueMatch -> [Venues -> Outcomes]]
      /\ \A n \in DueMatch, u \in Venues : outcome[n][u] # "open" => outcome'[n][u] = outcome[n][u]
  BY <1>1, <1>2, <1>3
<1>5. ResolutionTypeOK'
  BY <1>2, <1>4 DEF ResolutionInv, ResolutionTypeOK
<1>6. PollInOrder'
  <2>1. todo # {} => Oldest(todo) \in DueMatch
    BY OldestIsOne DEF ResolutionInv, ResolutionTypeOK
  <2>2. \A n : Unresolved(n)' <=> Unresolved(n)
    BY <1>2, RecordsUnwritten
  <2>3. Oldest(todo)' = Oldest(todo)
    BY <1>2 DEF Oldest
  <2>4. todo # {} /\ kalshi \in Settled => outcome'[Oldest(todo)]["kalshi"] = kalshi
    BY <1>4, <2>1 DEF ResolutionInv, PollInOrder, Settled, Venues
  <2> QED BY <1>2, <2>2, <2>3, <2>4 DEF ResolutionInv, PollInOrder
<1>7. RecordsMatchVenues'
  <2>1. Resolved' = Resolved
    BY <1>2, RecordsUnwritten
  <2> SUFFICES ASSUME NEW n \in Resolved
               PROVE  IF record[n].state = "void" THEN \E u \in Venues : outcome'[n][u] = "invalid"
                      ELSE \A u \in Venues : outcome'[n][u] = record[n][u]
    BY <1>2, <2>1 DEF RecordsMatchVenues
  <2>2. /\ n \in DueMatch
        /\ IF record[n].state = "void" THEN \E u \in Venues : outcome[n][u] = "invalid"
           ELSE \A u \in Venues : outcome[n][u] = record[n][u]
    BY DEF ResolutionInv, RecordsMatchVenues, Resolved
  <2>3. \A u \in Venues : record[n][u] # "open"
    <3>1. record[n].kalshi # "open" /\ record[n].polymarket # "open"
      BY <2>2 DEF ResolutionInv, ResolutionTypeOK
    <3> QED BY <3>1 DEF Venues
  <2> QED BY <1>4, <2>2, <2>3
<1>8. DivergedOnce' /\ OnlyResolvedAnswered'
  BY <1>2, RecordsUnwritten DEF ResolutionInv, DivergedOnce, OnlyResolvedAnswered
<1>9. RecommendationSafe' /\ TiersPartition'
  <2>1. Resolved' = Resolved /\ \A t : CountDiverged(Above(t))' = CountDiverged(Above(t))
    BY <1>2, RecordsUnwritten
  <2> QED BY <1>2, <2>1 DEF ResolutionInv, RecommendationSafe, TiersPartition
<1> QED BY <1>5, <1>6, <1>7, <1>8, <1>9 DEF ResolutionInv

LEMMA PollsStep ==
    ASSUME ResolutionInv, StartPoll \/ AskKalshi \/ EndPoll \/ RestartMatching
           \/ UNCHANGED resolutionVars
    PROVE  ResolutionInv'
<1>0. ResolutionTypeOK /\ PollInOrder
  BY DEF ResolutionInv
<1>1. todo \subseteq DueMatch /\ polling \in BOOLEAN /\ kalshi \in Outcomes \union {"none", "error"}
      /\ outcome \in [DueMatch -> [Venues -> Outcomes]]
  BY <1>0 DEF ResolutionTypeOK
<1>2. ASSUME record' = record PROVE \A n : Unresolved(n)' <=> Unresolved(n)
  BY <1>2, RecordsUnwritten
<1>3. CASE StartPoll
  <2>1. UNCHANGED <<record, outcome, divergences, kalshi, latest, saved>> /\ kalshi = "none"
        /\ todo' = FirstOf({m \in DueMatch : Unresolved(m)}, PollBatch)
    BY <1>0, <1>3 DEF StartPoll, PollInOrder
  <2>2. polling' /\ polling' \in BOOLEAN
    BY <1>3, Zenon DEF StartPoll
  <2>3. todo' \subseteq DueMatch /\ \A m \in todo' : Unresolved(m)
    BY <2>1 DEF FirstOf
  <2>4. PollInOrder'
    BY <1>2, <2>1, <2>2, <2>3 DEF PollInOrder, Settled
  <2> QED BY <1>1, <2>1, <2>2, <2>3, <2>4, RestingStep
<1>4. CASE AskKalshi
  <2>1. UNCHANGED <<record, outcome, divergences, polling, todo, latest, saved>> /\ todo # {}
        /\ kalshi' \in {outcome[Oldest(todo)]["kalshi"], "error"}
    BY <1>4 DEF AskKalshi, VenueAnswers
  <2>2. Oldest(todo) \in DueMatch
    BY <1>1, <2>1, OldestIsOne
  <2>3. kalshi' \in Outcomes \union {"none", "error"}
    BY <1>1, <2>1, <2>2 DEF Venues
  <2>4. kalshi' \in Settled => outcome[Oldest(todo)]["kalshi"] = kalshi'
    BY <2>1 DEF Settled
  <2>5. Oldest(todo)' = Oldest(todo)
    BY <2>1 DEF Oldest
  <2>6. PollInOrder'
    BY <1>0, <1>2, <2>1, <2>4, <2>5 DEF PollInOrder
  <2> QED BY <1>1, <2>1, <2>3, <2>6, RestingStep
<1>5. CASE EndPoll
  <2>1. UNCHANGED <<record, outcome, divergences, todo, kalshi, latest, saved>> /\ todo = {}
    BY <1>5 DEF EndPoll
  <2>2. polling' \in BOOLEAN
    BY <1>5, Zenon DEF EndPoll
  <2>3. PollInOrder'
    BY <1>0, <2>1 DEF PollInOrder
  <2> QED BY <1>1, <2>1, <2>2, <2>3, RestingStep
<1>6. CASE RestartMatching
  <2>1. UNCHANGED <<record, outcome, divergences, saved>> /\ todo' = {} /\ kalshi' = "none" /\ latest' = saved
    BY <1>6 DEF RestartMatching
  <2>2. polling' \in BOOLEAN
    BY <1>6, Zenon DEF RestartMatching
  <2>3. PollInOrder'
    BY <2>1 DEF PollInOrder
  <2> QED BY <2>1, <2>2, <2>3, RestingStep
<1>7. CASE UNCHANGED resolutionVars
  <2>1. UNCHANGED <<record, outcome, divergences, polling, todo, kalshi, latest, saved>>
    BY <1>7 DEF resolutionVars
  <2>2. Oldest(todo)' = Oldest(todo)
    BY <2>1 DEF Oldest
  <2>3. PollInOrder'
    BY <1>0, <1>2, <2>1, <2>2 DEF PollInOrder
  <2> QED BY <1>1, <2>1, <2>3, RestingStep
<1> QED BY <1>3, <1>4, <1>5, <1>6, <1>7

LEMMA CalibrationStep == ASSUME ResolutionInv, Calibrate PROVE ResolutionInv'
<1>1. UNCHANGED <<outcome, record, polling, todo, kalshi, divergences>>
      /\ latest' = CalibrationNow /\ saved' \in {saved, CalibrationNow}
  BY DEF Calibrate, Stored
<1> DEFINE taken == CalibrationNow
<1>2. /\ taken \in Calibration
      /\ taken.total = Cardinality(Resolved)
      /\ taken.lower # 0 =>
           /\ taken.lower \in CalibrationFloor..(UpperTier - 1)
           /\ 2000 * CountDiverged(Above(taken.lower)) < taken.total
      /\ taken.total >= MinimumData => taken.tiers[1] + taken.tiers[2] + taken.tiers[3] = taken.total
  BY CalibrationRight
<1>3. latest' = taken /\ saved' \in {saved, taken}
  BY <1>1
<1> HIDE DEF taken
<1>4. ResolutionTypeOK'
  BY <1>1, <1>2, <1>3 DEF ResolutionInv, ResolutionTypeOK
<1>5. Resolved' = Resolved /\ (\A m : (Unresolved(m)' <=> Unresolved(m)) /\ (Diverges(m)' <=> Diverges(m)))
      /\ \A t : CountDiverged(Above(t))' = CountDiverged(Above(t))
  BY <1>1, RecordsUnwritten
<1>6. OnlyResolvedAnswered' /\ RecordsMatchVenues' /\ DivergedOnce'
  BY <1>1, <1>5 DEF ResolutionInv, OnlyResolvedAnswered, RecordsMatchVenues, DivergedOnce
<1>7. PollInOrder'
  <2>1. Oldest(todo)' = Oldest(todo)
    BY <1>1 DEF Oldest
  <2> QED BY <1>1, <1>5, <2>1 DEF ResolutionInv, PollInOrder
<1>8. TiersPartition'
  BY <1>2, <1>3 DEF ResolutionInv, TiersPartition
<1>9. RecommendationSafe'
  <2> DEFINE Safe(c) == c.lower # 0 =>
                /\ c.lower \in CalibrationFloor..(UpperTier - 1)
                /\ 2000 * (CountDiverged(Above(c.lower)) - (Cardinality(Resolved) - c.total)) < c.total
  <2>1. Safe(saved)
    BY DEF ResolutionInv, RecommendationSafe
  <2>2. Safe(taken)
    <3>1. Cardinality(Resolved) \in Nat /\ CountDiverged(Above(taken.lower)) \in Nat
      BY DueFinite, DivergedCounted DEF Resolved
    <3> QED BY <1>2, <3>1
  <2>3. \A c \in {latest', saved'} : Safe(c)
    BY <1>3, <2>1, <2>2
  <2> QED BY <1>5, <2>3 DEF RecommendationSafe
<1> QED BY <1>4, <1>6, <1>7, <1>8, <1>9 DEF ResolutionInv

RecordRow == [state : {"unresolved", "void", "resolved"},
              kalshi : {"none", "yes", "no"}, polymarket : {"none", "yes", "no"}]

(* A row that is written counts once among the resolved ones, and at most   *)
(* once among those that have diverged.                                     *)
LEMMA RowWritten ==
    ASSUME ResolutionTypeOK, NEW m \in DueMatch, Unresolved(m), NEW fresh \in RecordRow,
           fresh.state # "unresolved", record' = [record EXCEPT ![m] = fresh]
    PROVE  /\ record' \in [DueMatch -> RecordRow] /\ record'[m] = fresh
           /\ \A n \in DueMatch : n # m => record'[n] = record[n]
           /\ Resolved' = Resolved \cup {m}
           /\ Cardinality(Resolved)' = Cardinality(Resolved) + 1
           /\ \A t : CountDiverged(Above(t))' <= CountDiverged(Above(t)) + 1
           /\ \A t : CountDiverged(Above(t))' \in Nat
<1>1. record \in [DueMatch -> RecordRow]
  BY DEF ResolutionTypeOK, RecordRow
<1>2. record' \in [DueMatch -> RecordRow] /\ record'[m] = fresh
      /\ \A n \in DueMatch : n # m => record'[n] = record[n]
  BY <1>1
<1>3. Resolved' = Resolved \cup {m} /\ m \notin Resolved
  BY <1>2 DEF Resolved, Unresolved
<1>4. Cardinality(Resolved)' = Cardinality(Resolved) + 1
  <2>1. IsFiniteSet(Resolved)
    BY DueFinite DEF Resolved
  <2>2. Cardinality(Resolved \cup {m}) = Cardinality(Resolved) + 1
    BY <1>3, <2>1, FS_AddElement
  <2>3. Cardinality(Resolved)' = Cardinality(Resolved')
    OBVIOUS
  <2> QED BY <1>3, <2>2, <2>3
<1>5. ASSUME NEW t
      PROVE  CountDiverged(Above(t))' <= CountDiverged(Above(t)) + 1 /\ CountDiverged(Above(t))' \in Nat
  <2> DEFINE before == {n \in Above(t) : Diverges(n)}
             after == {n \in {x \in Resolved \cup {m} : ScoreOf[x] >= t} :
                          record'[n].kalshi # record'[n].polymarket}
  <2>1. CountDiverged(Above(t))' = Cardinality(after)
    BY <1>3 DEF CountDiverged, Above, Diverges
  <2>2. before \in SUBSET DueMatch /\ after \in SUBSET DueMatch
    BY DEF Above, Resolved
  <2>3. after \subseteq before \cup {m}
    BY <1>2 DEF Above, Resolved, Diverges
  <2>4. CountDiverged(Above(t)) = Cardinality(before)
    BY DEF CountDiverged
  <2> HIDE DEF before, after
  <2>5. IsFiniteSet(before) /\ Cardinality(before) \in Nat /\ Cardinality(after) \in Nat
    BY <2>2, DueFinite
  <2>6. IsFiniteSet(before \cup {m}) /\ Cardinality(before \cup {m}) <= Cardinality(before) + 1
    BY <2>5, FS_AddElement
  <2>7. Cardinality(after) <= Cardinality(before \cup {m})
    BY <2>3, <2>6, FS_Subset
  <2>8. Cardinality(before \cup {m}) \in Nat
    BY <2>6, FS_CardinalityType
  <2> QED BY <2>1, <2>4, <2>5, <2>6, <2>7, <2>8
<1> QED BY <1>2, <1>3, <1>4, <1>5

LEMMA AnswersRecorded == ASSUME ResolutionInv, AskPolymarket PROVE ResolutionInv'
<1> DEFINE m == Oldest(todo)
<1>0. ResolutionTypeOK /\ PollInOrder
  BY DEF ResolutionInv
<1>1. todo \subseteq DueMatch /\ polling \in BOOLEAN /\ kalshi \in Outcomes \union {"none", "error"}
      /\ outcome \in [DueMatch -> [Venues -> Outcomes]] /\ record \in [DueMatch -> RecordRow]
      /\ divergences \in [DueMatch -> Nat]
  BY <1>0 DEF ResolutionTypeOK, RecordRow
<1>2. /\ todo # {} /\ kalshi # "none" /\ todo' = todo \ {m} /\ kalshi' = "none"
      /\ UNCHANGED <<outcome, polling, latest, saved>>
  BY DEF AskPolymarket
<1>3. m \in todo /\ m \in DueMatch
  BY <1>1, <1>2, OldestIsOne
<1>4. Unresolved(m) /\ (kalshi \in Settled => outcome[m]["kalshi"] = kalshi)
      /\ record[m].kalshi = "none" /\ record[m].polymarket = "none" /\ divergences[m] = 0
  <2>1. Unresolved(m) /\ (kalshi \in Settled => outcome[m]["kalshi"] = kalshi)
    BY <1>0, <1>2, <1>3 DEF PollInOrder
  <2>2. record[m].kalshi = "none" /\ record[m].polymarket = "none"
    BY <1>3, <2>1 DEF ResolutionInv, OnlyResolvedAnswered, Unresolved
  <2>3. divergences[m] = 0
    BY <1>3, <2>2 DEF ResolutionInv, DivergedOnce, Diverges
  <2> QED BY <2>1, <2>2, <2>3
<1> HIDE DEF m
<1>5. PICK reply \in {outcome[m]["polymarket"], "error"} :
        \/ UNCHANGED <<record, divergences>>
        \/ /\ "error" \notin {kalshi, reply} /\ "invalid" \in {kalshi, reply}
           /\ record' = [record EXCEPT ![m].state = "void"]
           /\ UNCHANGED divergences
        \/ /\ {kalshi, reply} \subseteq {"yes", "no"}
           /\ record' = [record EXCEPT ![m] = [state |-> "resolved", kalshi |-> kalshi, polymarket |-> reply]]
           /\ divergences' = [divergences EXCEPT ![m] = @ + (IF kalshi # reply THEN 1 ELSE 0)]
  BY DEF AskPolymarket, VenueAnswers, m
<1>6. PollInOrder' <=> /\ ~polling => todo' = {}
                       /\ \A n \in todo' : Unresolved(n)'
  BY <1>2 DEF PollInOrder, Settled
<1>7. CASE UNCHANGED <<record, divergences>>
  <2>1. PollInOrder'
    BY <1>0, <1>2, <1>6, <1>7, RecordsUnwritten DEF PollInOrder
  <2> QED BY <1>1, <1>2, <1>7, <2>1, RestingStep
(* What both outcomes of a row that is written have in common. *)
<1>8. ASSUME NEW fresh \in RecordRow, fresh.state # "unresolved", record' = [record EXCEPT ![m] = fresh],
             fresh.state # "resolved" => fresh.kalshi = "none" /\ fresh.polymarket = "none",
             IF fresh.state = "void" THEN \E v \in Venues : outcome[m][v] = "invalid"
             ELSE outcome[m]["kalshi"] = fresh.kalshi /\ outcome[m]["polymarket"] = fresh.polymarket,
             divergences' \in [DueMatch -> Nat],
             \A n \in DueMatch : n # m => divergences'[n] = divergences[n],
             divergences'[m] = IF fresh.kalshi # fresh.polymarket THEN 1 ELSE 0
      PROVE  ResolutionInv'
  <2>1. /\ record' \in [DueMatch -> RecordRow] /\ record'[m] = fresh
        /\ \A n \in DueMatch : n # m => record'[n] = record[n]
        /\ Resolved' = Resolved \cup {m}
        /\ Cardinality(Resolved)' = Cardinality(Resolved) + 1
        /\ \A t : CountDiverged(Above(t))' <= CountDiverged(Above(t)) + 1
        /\ \A t : CountDiverged(Above(t))' \in Nat
    BY <1>0, <1>3, <1>4, <1>8, RowWritten
  <2>2. ResolutionTypeOK'
    BY <1>0, <1>2, <1>8, <2>1 DEF ResolutionTypeOK, RecordRow
  <2>3. PollInOrder'
    <3>1. \A n \in todo' : Unresolved(n)'
      BY <1>0, <1>1, <1>2, <2>1 DEF PollInOrder, Unresolved
    <3>2. ~polling => todo' = {}
      BY <1>0, <1>2 DEF PollInOrder
    <3> QED BY <1>6, <3>1, <3>2
  <2>4. OnlyResolvedAnswered'
    BY <1>8, <2>1 DEF ResolutionInv, OnlyResolvedAnswered
  <2>5. DivergedOnce'
    BY <1>8, <2>1 DEF ResolutionInv, DivergedOnce, Diverges
  <2>6. RecordsMatchVenues'
    <3> SUFFICES ASSUME NEW n \in Resolved \cup {m}
                 PROVE  IF record'[n].state = "void" THEN \E v \in Venues : outcome[n][v] = "invalid"
                        ELSE \A v \in Venues : outcome[n][v] = record'[n][v]
      BY <1>2, <2>1 DEF RecordsMatchVenues
    <3>1. CASE n = m
      BY <1>8, <2>1, <3>1 DEF Venues
    <3>2. CASE n # m
      <4>1. n \in Resolved /\ record'[n] = record[n]
        BY <2>1, <3>2 DEF Resolved
      <4> QED BY <4>1 DEF ResolutionInv, RecordsMatchVenues
    <3> QED BY <3>1, <3>2
  <2>7. RecommendationSafe' /\ TiersPartition'
    <3>1. RecommendationSafe /\ TiersPartition
      BY DEF ResolutionInv
    <3>2. latest' \in {latest, saved} /\ saved' \in {latest, saved} /\ 1 \in Nat
      BY <1>2
    <3> QED BY <1>0, <2>1, <3>1, <3>2, RecommendationKept
  <2> QED BY <2>2, <2>3, <2>4, <2>5, <2>6, <2>7 DEF ResolutionInv
<1>9. CASE /\ "error" \notin {kalshi, reply} /\ "invalid" \in {kalshi, reply}
           /\ record' = [record EXCEPT ![m].state = "void"]
           /\ UNCHANGED divergences
  <2> DEFINE fresh == [state |-> "void", kalshi |-> "none", polymarket |-> "none"]
  <2>1. record' = [record EXCEPT ![m] = fresh]
    <3>1. record[m] \in RecordRow
      BY <1>1, <1>3
    <3>2. [record[m] EXCEPT !.state = "void"] = fresh
      BY <1>4, <3>1 DEF RecordRow
    <3>3. record' = [record EXCEPT ![m] = [record[m] EXCEPT !.state = "void"]]
      BY <1>9
    <3> QED BY <3>2, <3>3
  <2>2. fresh \in RecordRow /\ fresh.state = "void" /\ fresh.kalshi = "none" /\ fresh.polymarket = "none"
    BY DEF RecordRow
  <2> HIDE DEF fresh
  <2>3. \E v \in Venues : outcome[m][v] = "invalid"
    <3>1. CASE kalshi = "invalid"
      BY <1>4, <3>1 DEF Settled, Venues
    <3>2. CASE reply = "invalid"
      BY <3>2 DEF Venues
    <3> QED BY <1>9, <3>1, <3>2
  <2> QED BY <1>1, <1>4, <1>8, <1>9, <2>1, <2>2, <2>3
<1>10. CASE /\ {kalshi, reply} \subseteq {"yes", "no"}
            /\ record' = [record EXCEPT ![m] = [state |-> "resolved", kalshi |-> kalshi, polymarket |-> reply]]
            /\ divergences' = [divergences EXCEPT ![m] = @ + (IF kalshi # reply THEN 1 ELSE 0)]
  <2> DEFINE fresh == [state |-> "resolved", kalshi |-> kalshi, polymarket |-> reply]
  <2>1. record' = [record EXCEPT ![m] = fresh]
    BY <1>10
  <2>2. fresh \in RecordRow /\ fresh.state = "resolved" /\ fresh.kalshi = kalshi /\ fresh.polymarket = reply
    BY <1>10 DEF RecordRow
  <2> HIDE DEF fresh
  <2>3. outcome[m]["kalshi"] = kalshi /\ outcome[m]["polymarket"] = reply
    BY <1>4, <1>10 DEF Settled
  <2>4. /\ divergences' \in [DueMatch -> Nat]
        /\ \A n \in DueMatch : n # m => divergences'[n] = divergences[n]
        /\ divergences'[m] = IF kalshi # reply THEN 1 ELSE 0
    BY <1>1, <1>3, <1>4, <1>10
  <2> QED BY <1>8, <2>1, <2>2, <2>3, <2>4
<1> QED BY <1>5, <1>7, <1>9, <1>10

LEMMA ResolutionStep == ResolutionInv /\ [ResolutionNext]_resolutionVars => ResolutionInv'
BY MarketSettles, PollsStep, CalibrationStep, AnswersRecorded DEF ResolutionNext

(* Whenever the venues settle, however the polls and restarts fall and      *)
(* whatever questions and writes fail: a row says what the venues say, a    *)
(* divergence is announced once, and the threshold a calibration            *)
(* recommends is in bounds and was, but for less than one match in 2000,    *)
(* free of divergence.                                                      *)
THEOREM ResolutionsAlwaysSound == ResolutionSpec => []ResolutionsSound
<1>1. ResolutionSpec => []ResolutionInv
  BY ResolutionStarts, ResolutionStep, PTL DEF ResolutionSpec
<1>2. ResolutionInv => ResolutionsSound
  BY DEF ResolutionInv, ResolutionsSound
<1> QED BY <1>1, <1>2, PTL

-----------------------------------------------------------------------------
(* The judgements of a candidate.                                           *)

LEMMA ListsAreSequences ==
    ASSUME NEW S, NEW n \in Nat, NEW list \in Lists(S, n)
    PROVE  list \in Seq(S) /\ Len(list) <= n
<1>1. PICK k \in 0..n : list \in [1..k -> S]
  BY DEF Lists
<1>2. k \in Nat /\ k <= n
  BY <1>1
<1> QED BY <1>1, <1>2

LEMMA LeastOfPlaces ==
    ASSUME NEW n \in Nat, NEW I \in SUBSET (1..n), I # {}
    PROVE  Min(I) \in I /\ \A j \in I : Min(I) <= j
<1>1. I \in SUBSET Nat
  OBVIOUS
<1> QED BY <1>1, LeastOf

(* The token the correction takes is one whose name agrees, or one the      *)
(* model takes for the same; it finds none only if no name agrees.          *)
LEMMA CorrectionRight ==
    ASSUME NEW sides \in Seq(Label), Len(sides) <= 2, NEW name,
           NEW model \in [1..2 -> {"same", "other", "fails"}],
           NEW v, v = Corrected(sides, name, model)
    PROVE  /\ v.aligned = "yes" => IF v.token = 0 THEN model[1] = "same"
                                   ELSE /\ v.token \in DOMAIN sides
                                        /\ \/ NamesAgree(sides[v.token], name)
                                           \/ model[v.token] = "same"
           /\ v.aligned = "no" => \A i \in DOMAIN sides : ~NamesAgree(sides[i], name)
           /\ v.token # 0 => v.aligned = "yes"
<1> DEFINE agreeing == {i \in 1..Len(sides) : NamesAgree(sides[i], name)}
           heard == SubSeq(model, 1, Len(sides))
           same == {i \in 1..Len(heard) : heard[i] = "same"}
           named == IF agreeing # {} THEN Min(agreeing) ELSE 0
           confirmed == IF same # {} THEN Min(same) ELSE 0
<1>1. v = IF sides = Nothing THEN AskedOnce(model)
          ELSE IF named # 0 THEN Verdict("yes", named)
          ELSE IF confirmed # 0 THEN Verdict("yes", confirmed)
          ELSE Verdict("no", 0)
  BY DEF Corrected, SelectInSeq
<1>2. Len(heard) = Len(sides) /\ \A i \in 1..Len(sides) : heard[i] = model[i]
  <2>1. model \in Seq({"same", "other", "fails"})
    <3> DEFINE says == {"same", "other", "fails"}
    <3>1. model \in [1..2 -> says]
      OBVIOUS
    <3> HIDE DEF says
    <3>2. Seq(says) = UNION {[1..n -> says] : n \in Nat}
      BY SeqDef, Zenon
    <3>3. [1..2 -> says] \in {[1..n -> says] : n \in Nat}
      OBVIOUS
    <3>4. model \in UNION {[1..n -> says] : n \in Nat}
      BY <3>1, <3>3, Zenon
    <3>5. model \in Seq(says)
      BY <3>2, <3>4, Zenon
    <3> QED BY <3>5 DEF says
  <2>2. Len(model) = 2
    OBVIOUS
  <2>3. Len(sides) \in Nat
    OBVIOUS
  <2>4. Len(sides) \in 0..2
    <3>1. PICK k \in Nat : k = Len(sides)
      BY <2>3
    <3>2. k <= 2
      BY <3>1
    <3>3. k \in 0..2
      BY <3>2
    <3> QED BY <3>1, <3>3
  <2> QED BY <2>1, <2>2, <2>4
<1>3. agreeing # {} => named \in agreeing
  <2>1. agreeing \in SUBSET (1..Len(sides)) /\ Len(sides) \in Nat
    OBVIOUS
  <2> HIDE DEF agreeing
  <2> QED BY <2>1, LeastOfPlaces
<1>4. same # {} => confirmed \in same
  <2>1. same \in SUBSET (1..Len(sides))
    BY <1>2
  <2>2. Len(sides) \in Nat
    OBVIOUS
  <2> HIDE DEF same
  <2> QED BY <2>1, <2>2, LeastOfPlaces
<1>5. CASE sides = Nothing
  BY <1>1, <1>5 DEF AskedOnce, Verdict, Nothing
<1>6. CASE sides # Nothing /\ agreeing # {}
  <2>1. named \in 1..Len(sides) /\ NamesAgree(sides[named], name)
    BY <1>3, <1>6
  <2> HIDE DEF named, agreeing
  <2>2. v = Verdict("yes", named) /\ named # 0
    BY <1>1, <1>6, <2>1
  <2> QED BY <2>1, <2>2 DEF Verdict
<1>7. CASE sides # Nothing /\ agreeing = {} /\ same # {}
  <2>1. confirmed \in 1..Len(sides) /\ model[confirmed] = "same"
    BY <1>2, <1>4, <1>7
  <2>2. named = 0
    BY <1>7
  <2> HIDE DEF named, agreeing, same, confirmed
  <2>3. v = Verdict("yes", confirmed) /\ confirmed # 0
    BY <1>1, <1>7, <2>1, <2>2
  <2> QED BY <2>1, <2>3 DEF Verdict
<1>8. CASE sides # Nothing /\ agreeing = {} /\ same = {}
  <2>1. v = Verdict("no", 0)
    BY <1>1, <1>8
  <2> QED BY <2>1, <1>8 DEF Verdict
<1> QED BY <1>5, <1>6, <1>7, <1>8

LEMMA DirectionJudged == ASSUME JudgeDirection PROVE DirectionRight'
<1>1. PICK poly \in Lists(Label, 1), theirs \in Lists(Label, 1), sides \in Lists(Label, 2),
           model \in [1..2 -> {"same", "other", "fails"}] :
           judged' = [of |-> "direction", in |-> <<poly, theirs, sides, model>>,
                      out |-> Direction(poly, theirs, sides, model)]
  BY DEF JudgeDirection, Judgement
<1>2. sides \in Seq(Label) /\ Len(sides) <= 2
  BY ListsAreSequences
<1> DEFINE v == Direction(poly, theirs, sides, model)
           traded == IF v.token = 0 THEN poly[1] ELSE sides[v.token]
           Right == /\ v.aligned = "yes" =>
                          \/ NamesAgree(traded, theirs[1])
                          \/ model[IF v.token = 0 THEN 1 ELSE v.token] = "same"
                    /\ v.aligned = "no" =>
                          /\ ~NamesAgree(poly[1], theirs[1])
                          /\ LongEnough(poly[1], theirs[1]) =>
                               \A i \in DOMAIN sides : ~NamesAgree(sides[i], theirs[1])
                    /\ v.token # 0 => v.aligned = "yes"
<1>3. Right
  <2>1. CASE Nothing \in {poly, theirs}
    <3>1. v = Verdict("unknown", 0)
      BY <2>1 DEF Direction
    <3> HIDE DEF v
    <3> QED BY <3>1 DEF Verdict
  <2>2. CASE Nothing \notin {poly, theirs} /\ NamesAgree(poly[1], theirs[1])
    <3>1. v = Verdict("yes", 0)
      BY <2>2 DEF Direction
    <3> HIDE DEF v
    <3> QED BY <3>1, <2>2 DEF Verdict
  <2>3. CASE Nothing \notin {poly, theirs} /\ ~NamesAgree(poly[1], theirs[1]) /\ LongEnough(poly[1], theirs[1])
    <3>1. v = Corrected(sides, theirs[1], model)
      BY <2>3 DEF Direction
    <3> HIDE DEF v
    <3>2. /\ v.aligned = "yes" => IF v.token = 0 THEN model[1] = "same"
                                   ELSE /\ v.token \in DOMAIN sides
                                        /\ \/ NamesAgree(sides[v.token], theirs[1])
                                           \/ model[v.token] = "same"
          /\ v.aligned = "no" => \A i \in DOMAIN sides : ~NamesAgree(sides[i], theirs[1])
          /\ v.token # 0 => v.aligned = "yes"
      BY <1>2, <3>1, CorrectionRight
    <3> QED BY <3>2, <2>3
  <2>4. CASE Nothing \notin {poly, theirs} /\ ~NamesAgree(poly[1], theirs[1]) /\ ~LongEnough(poly[1], theirs[1])
    <3>1. v = AskedOnce(model)
      BY <2>4 DEF Direction
    <3> HIDE DEF v
    <3>2. (v = Verdict("yes", 0) /\ model[1] = "same") \/ v = Verdict("no", 0) \/ v = Verdict("unknown", 0)
      BY <3>1 DEF AskedOnce
    <3> QED BY <3>2, <2>4 DEF Verdict
  <2> QED BY <2>1, <2>2, <2>3, <2>4
<1> HIDE DEF v
<1>4. /\ judged'.in[1] = poly /\ judged'.in[2] = theirs /\ judged'.in[3] = sides
      /\ judged'.in[4] = model /\ judged'.out = v
  BY <1>1 DEF v
<1> QED BY <1>3, <1>4 DEF DirectionRight

(* The rank of the members of an order is a numbering, so those of the      *)
(* first n ranks are n, or all there are.                                   *)
LEMMA FirstByRank ==
    ASSUME NEW P, IsFiniteSet(P), NEW n \in Nat, NEW before \in [P -> SUBSET P],
           \A i \in P : i \notin before[i],
           \A i, j \in P : i # j => i \in before[j] \/ j \in before[i],
           \A i, j \in P : j \in before[i] => before[j] \subseteq before[i],
           NEW First, First = {i \in P : Cardinality(before[i]) < n}
    PROVE  /\ Cardinality(First) = IF n < Cardinality(P) THEN n ELSE Cardinality(P)
           /\ \A i, j \in P : i \in before[j] => Cardinality(before[i]) < Cardinality(before[j])
<1> DEFINE all == Cardinality(P)
           rank == [i \in P |-> Cardinality(before[i])]
           most == IF n < all THEN n ELSE all
<1>1. all \in Nat
  BY FS_CardinalityType
<1>2. \A i \in P : IsFiniteSet(before[i]) /\ rank[i] \in Nat
  BY FS_Subset, FS_CardinalityType
<1>3. ASSUME NEW i \in P, NEW j \in P, i \in before[j] PROVE rank[i] < rank[j]
  <2>1. before[i] \union {i} \in SUBSET before[j]
    BY <1>3
  <2>2. Cardinality(before[i] \union {i}) = Cardinality(before[i]) + 1
    BY <1>2, FS_AddElement
  <2>3. Cardinality(before[i] \union {i}) <= Cardinality(before[j])
    BY <1>2, <2>1, FS_Subset
  <2> QED BY <1>2, <2>2, <2>3
<1>4. ASSUME NEW i \in P PROVE rank[i] \in 0..(all - 1)
  <2>1. before[i] \union {i} \in SUBSET P
    OBVIOUS
  <2>2. Cardinality(before[i] \union {i}) = Cardinality(before[i]) + 1
    BY <1>2, FS_AddElement
  <2>3. Cardinality(before[i] \union {i}) <= all
    BY <2>1, FS_Subset
  <2> QED BY <1>1, <1>2, <2>2, <2>3
<1>5. rank \in Injection(P, 0..(all - 1))
  <2>1. \A i, j \in P : rank[i] = rank[j] => i = j
    BY <1>2, <1>3
  <2>2. rank \in [P -> 0..(all - 1)]
    BY <1>4
  <2> HIDE DEF rank
  <2> QED BY <2>1, <2>2 DEF Injection, IsInjective
<1>6. IsFiniteSet(0..(all - 1)) /\ Cardinality(0..(all - 1)) = all
  BY <1>1, FS_Interval, SMTT(30)
<1>7. rank \in Surjection(P, 0..(all - 1))
  <2> HIDE DEF rank
  <2> QED BY <1>5, <1>6, FS_Injection
<1> DEFINE numbered == [i \in First |-> rank[i]]
<1>8. First \in SUBSET P /\ \A i \in P : i \in First <=> rank[i] < n
  OBVIOUS
<1> HIDE DEF rank
<1>9. \A i \in First : rank[i] \in 0..(most - 1)
  BY <1>1, <1>4, <1>8
<1>10. \A k \in 0..(most - 1) : \E i \in First : rank[i] = k
  <2>1. ASSUME NEW k \in 0..(most - 1) PROVE \E i \in First : rank[i] = k
    <3>1. k \in 0..(all - 1) /\ k < n
      BY <1>1
    <3>2. PICK i \in P : rank[i] = k
      BY <1>7, <3>1 DEF Surjection
    <3> QED BY <1>8, <3>1, <3>2
  <2> QED BY <2>1
<1>11. numbered \in Bijection(First, 0..(most - 1))
  <2>1. numbered \in [First -> 0..(most - 1)]
    BY <1>9
  <2>2. \A i, j \in First : numbered[i] = numbered[j] => i = j
    BY <1>5, <1>8 DEF Injection, IsInjective
  <2>3. \A k \in 0..(most - 1) : \E i \in First : numbered[i] = k
    BY <1>10
  <2> HIDE DEF numbered, most
  <2> QED BY <2>1, <2>2, <2>3 DEF Bijection, Injection, Surjection, IsInjective
<1>12. Cardinality(0..(most - 1)) = Cardinality(First)
  <2>1. IsFiniteSet(First)
    BY <1>8, FS_Subset
  <2>2. ExistsBijection(First, 0..(most - 1))
    BY <1>11 DEF ExistsBijection
  <2> HIDE DEF most
  <2> QED BY <2>1, <2>2, FS_Bijection
<1>13. Cardinality(0..(most - 1)) = most
  <2>1. most \in Nat
    BY <1>1
  <2> HIDE DEF most
  <2> QED BY <2>1, FS_Interval
<1> QED BY <1>3, <1>12, <1>13 DEF rank

LEMMA CandidatesJudged == ASSUME JudgeCandidates PROVE ShortlistRight'
<1>1. PICK cs \in Lists(Candidates, 2) \union {<<c, d, c>> : c, d \in Candidates} :
           judged' = [of |-> "shortlist", in |-> cs, out |-> Shortlist(cs)]
  BY DEF JudgeCandidates, Judgement
<1>2. cs \in Seq(Candidates)
  <2>1. CASE cs \in Lists(Candidates, 2)
    BY <2>1, ListsAreSequences
  <2>2. ASSUME NEW c \in Candidates, NEW d \in Candidates, cs = <<c, d, c>> PROVE cs \in Seq(Candidates)
    BY <2>2
  <2> QED BY <1>1, <2>1, <2>2
<1> DEFINE fits == Passing(cs)
           kept == Shortlist(cs)
           before == [i \in fits |-> {j \in fits : RanksBefore(cs, j, i)}]
           score(i) == CombinedScore(cs[i])
<1>3. fits \subseteq 1..Len(cs) /\ \A i \in fits : score(i) \in Int
  <2>1. \A i \in DOMAIN cs : cs[i] \in Candidates
    BY <1>2
  <2>2. \A c \in Candidates : CombinedScore(c) \in Int
    BY DEF Candidates, CombinedScore
  <2>3. DOMAIN cs = 1..Len(cs)
    BY <1>2
  <2>4. fits \subseteq DOMAIN cs
    BY DEF Passing
  <2> QED BY <2>1, <2>2, <2>3, <2>4
<1>4. IsFiniteSet(fits) /\ Cardinality(fits) \in Nat
  <2>1. Len(cs) \in Nat
    BY <1>2
  <2>2. IsFiniteSet(1..Len(cs))
    BY <2>1, FS_Interval
  <2> QED BY <1>3, <2>2, FS_Subset, FS_CardinalityType
<1>5. kept = {i \in fits : Cardinality(before[i]) < MaxCandidates}
  BY DEF Shortlist
<1>6. \A i, j \in fits : i \in before[j] <=> RanksBefore(cs, i, j)
  OBVIOUS
<1> HIDE DEF fits, kept
<1>16. \A i, j : RanksBefore(cs, i, j) <=> (score(i) > score(j) \/ (score(i) = score(j) /\ i < j))
  BY DEF RanksBefore
<1>7. before \in [fits -> SUBSET fits]
  OBVIOUS
<1> HIDE DEF before
<1>8. \A i, j \in fits : i \in Int /\ j \in Int
  BY <1>3
<1>9. \A i \in fits : i \notin before[i]
  BY <1>3, <1>6, <1>8, <1>16
<1>10. \A i, j \in fits : i # j => i \in before[j] \/ j \in before[i]
  BY <1>3, <1>6, <1>8, <1>16
<1>11. \A i, j \in fits : j \in before[i] => before[j] \subseteq before[i]
  <2> SUFFICES ASSUME NEW i \in fits, NEW j \in fits, NEW k \in fits, j \in before[i], k \in before[j]
               PROVE  k \in before[i]
    BY <1>7
  <2>1. score(i) \in Int /\ score(j) \in Int /\ score(k) \in Int /\ i \in Int /\ j \in Int /\ k \in Int
    BY <1>3, <1>8
  <2> QED BY <1>6, <1>16, <2>1
<1>12. /\ Cardinality(kept) = IF MaxCandidates < Cardinality(fits) THEN MaxCandidates ELSE Cardinality(fits)
       /\ \A i, j \in fits : i \in before[j] => Cardinality(before[i]) < Cardinality(before[j])
  <2>1. MaxCandidates \in Nat
    BY ScoringAssumption
  <2> QED BY <1>4, <1>5, <1>7, <1>9, <1>10, <1>11, <2>1, FirstByRank
<1>13. Cardinality(kept) = Min({Cardinality(fits), MaxCandidates})
  <2>1. MaxCandidates \in Nat
    BY ScoringAssumption
  <2> DEFINE least == Min({Cardinality(fits), MaxCandidates})
  <2>2. least \in {Cardinality(fits), MaxCandidates} /\ least <= Cardinality(fits) /\ least <= MaxCandidates
    BY <1>4, <2>1, MinOfTwo
  <2> HIDE DEF least
  <2>3. Cardinality(kept) = least
    BY <1>4, <1>12, <2>1, <2>2
  <2> QED BY <2>3 DEF least
<1>14. \A i \in kept, j \in fits \ kept : score(i) >= score(j)
  <2> SUFFICES ASSUME NEW i \in kept, NEW j \in fits \ kept, ~ (score(i) >= score(j)) PROVE FALSE
    OBVIOUS
  <2>1. i \in fits /\ j \in fits
    BY <1>5
  <2>2. j \in before[i]
    BY <1>3, <1>6, <1>16, <2>1
  <2>3. Cardinality(before[j]) < Cardinality(before[i])
    BY <1>12, <2>1, <2>2
  <2>4. Cardinality(before[i]) < MaxCandidates /\ ~ (Cardinality(before[j]) < MaxCandidates)
    BY <1>5, <2>1
  <2>5. Cardinality(before[i]) \in Nat /\ Cardinality(before[j]) \in Nat /\ MaxCandidates \in Nat
    <3>1. before[i] \in SUBSET fits /\ before[j] \in SUBSET fits
      BY <1>7, <2>1
    <3> QED BY <1>4, <3>1, FS_Subset, FS_CardinalityType, ScoringAssumption
  <2> QED BY <2>3, <2>4, <2>5
<1>15. judged'.in = cs /\ judged'.out = kept
  BY <1>1 DEF kept
<1> QED BY <1>13, <1>14, <1>15 DEF ShortlistRight, fits

(* How alike two titles are is a number.                                    *)
LEMMA LikenessIsNumber ==
    ASSUME NEW title \in SUBSET Word, NEW entry \in Entries PROVE Likeness(title, entry) \in Int
<1>1. ASSUME NEW a \in SUBSET Word, NEW b \in SUBSET Word PROVE TitleSimilarity(a, b) \in Int
  <2>1. CASE a = {} \/ b = {}
    BY <2>1 DEF TitleSimilarity
  <2>2. CASE a # {} /\ b # {}
    <3>1. IsFiniteSet(a) /\ IsFiniteSet(b) /\ IsFiniteSet(a \intersect b)
      BY ScoringAssumption, FS_Subset
    <3>2. Cardinality(a) \in Nat /\ Cardinality(b) \in Nat /\ Cardinality(a \intersect b) \in Nat
      BY <3>1, FS_CardinalityType
    <3>3. Cardinality(a) # 0
      BY <2>2, <3>1, FS_EmptySet
    <3> DEFINE most == Max({Cardinality(a), Cardinality(b)})
               common == Cardinality(a \intersect b)
    <3>4. most \in Int /\ most >= Cardinality(a)
      BY <3>2, MaxOfTwo
    <3>5. TitleSimilarity(a, b) = (100 * common) \div most
      BY <2>2 DEF TitleSimilarity
    <3>6. common \in Nat
      BY <3>2
    <3> HIDE DEF most, common
    <3>7. most > 0
      BY <3>2, <3>3, <3>4
    <3>8. (100 * common) \div most \in Int
      BY <3>4, <3>6, <3>7
    <3> QED BY <3>5, <3>8
  <2> QED BY <2>1, <2>2
<1>2. entry.title \in SUBSET Word /\ entry.description \in SUBSET Word
  BY DEF Entries
<1>3. TitleSimilarity(title, entry.title) \in Int /\ TitleSimilarity(title, entry.description) \in Int
  BY <1>1, <1>2
<1> QED BY <1>3, MaxOfTwo DEF Likeness

(* The search of the catalogue is well defined, by induction on how much of *)
(* it has been seen.                                                        *)
BestStep(title, catalog, best, i) ==
    IF i = 0 THEN 0
    ELSE IF best[i - 1] = 0 \/ Likeness(title, catalog[i]) > Likeness(title, catalog[best[i - 1]])
    THEN i ELSE best[i - 1]

LEMMA BestSoFarExists ==
    ASSUME NEW title, NEW catalog, Len(catalog) \in Nat
    PROVE  BestSoFar(title, catalog) =
              [i \in 0..Len(catalog) |-> BestStep(title, catalog, BestSoFar(title, catalog), i)]
<1> DEFINE H == {n \in Nat : \E g : g = [i \in 0..n |-> BestStep(title, catalog, g, i)]}
<1>1. 0 \in H
  <2> DEFINE g == [i \in 0..0 |-> 0]
  <2>1. \A i \in 0..0 : i = 0
    OBVIOUS
  <2>2. g = [i \in 0..0 |-> BestStep(title, catalog, g, i)]
    BY <2>1 DEF BestStep
  <2> HIDE DEF g
  <2> QED BY <2>2
<1>2. ASSUME NEW n \in Nat, n \in H PROVE n + 1 \in H
  <2>1. PICK g : g = [i \in 0..n |-> BestStep(title, catalog, g, i)]
    BY <1>2
  <2> DEFINE h == [i \in 0..(n + 1) |-> IF i = n + 1 THEN BestStep(title, catalog, g, n + 1) ELSE g[i]]
  <2>2. \A i \in 0..n : h[i] = g[i]
    OBVIOUS
  <2>3. ASSUME NEW i \in 0..(n + 1) PROVE h[i] = BestStep(title, catalog, h, i)
    <3>1. BestStep(title, catalog, h, i) = BestStep(title, catalog, g, i)
      <4>1. CASE i = 0
        BY <4>1 DEF BestStep
      <4>2. CASE i # 0
        <5>1. i - 1 \in 0..n
          BY <4>2
        <5>2. h[i - 1] = g[i - 1]
          BY <2>2, <5>1
        <5> HIDE DEF h
        <5> QED BY <5>2 DEF BestStep
      <4> QED BY <4>1, <4>2
    <3>2. CASE i = n + 1
      BY <3>1, <3>2
    <3>3. CASE i # n + 1
      <4>1. i \in 0..n
        BY <3>3
      <4>2. h[i] = g[i] /\ g[i] = BestStep(title, catalog, g, i)
        BY <2>1, <2>2, <4>1
      <4> QED BY <3>1, <4>2
    <3> QED BY <3>2, <3>3
  <2>4. h = [i \in 0..(n + 1) |-> h[i]]
    OBVIOUS
  <2> HIDE DEF h
  <2>5. h = [i \in 0..(n + 1) |-> BestStep(title, catalog, h, i)]
    BY <2>3, <2>4
  <2> QED BY <2>5
<1>3. Len(catalog) \in H
  <2> HIDE DEF H
  <2> QED BY <1>1, <1>2, NatInductionOnSets
<1>4. \E g : g = [i \in 0..Len(catalog) |-> BestStep(title, catalog, g, i)]
  BY <1>3
<1>5. BestSoFar(title, catalog) =
          CHOOSE g : g = [i \in 0..Len(catalog) |-> BestStep(title, catalog, g, i)]
  BY DEF BestSoFar, BestStep
<1> QED BY <1>4, <1>5

(* Of the entries seen so far none is more alike than the best.             *)
LEMMA BestIsBest ==
    ASSUME NEW title \in SUBSET Word, NEW catalog \in Seq(Entries), NEW n \in 0..Len(catalog)
    PROVE  LET best == BestSoFar(title, catalog)
           IN  /\ IF n = 0 THEN best[n] = 0 ELSE best[n] \in 1..n
               /\ \A i \in 1..n : Likeness(title, catalog[i]) <= Likeness(title, catalog[best[n]])
<1> DEFINE best == BestSoFar(title, catalog)
           like(i) == Likeness(title, catalog[i])
           Good(k) == /\ IF k = 0 THEN best[k] = 0 ELSE best[k] \in 1..k
                      /\ \A i \in 1..k : like(i) <= like(best[k])
           H == {k \in Nat : k <= Len(catalog) => Good(k)}
<1>1. Len(catalog) \in Nat
  OBVIOUS
<1>2. \A i \in 0..Len(catalog) : best[i] = BestStep(title, catalog, best, i)
  <2>1. best = [i \in 0..Len(catalog) |-> BestStep(title, catalog, best, i)]
    BY <1>1, BestSoFarExists
  <2> HIDE DEF best
  <2> QED BY <2>1
<1>3. \A i \in 1..Len(catalog) : like(i) \in Int
  <2>1. \A i \in 1..Len(catalog) : catalog[i] \in Entries
    OBVIOUS
  <2> QED BY <2>1, LikenessIsNumber
<1> HIDE DEF best
<1>4. 0 \in H
  <2>1. best[0] = 0
    BY <1>1, <1>2 DEF BestStep
  <2> QED BY <2>1
<1>5. ASSUME NEW k \in Nat, k \in H PROVE k + 1 \in H
  <2> SUFFICES ASSUME k + 1 <= Len(catalog) PROVE Good(k + 1)
    OBVIOUS
  <2>1. Good(k)
    BY <1>1, <1>5
  <2>2. k + 1 \in 0..Len(catalog) /\ k + 1 # 0 /\ k + 1 - 1 = k
    BY <1>1
  <2>3. best[k + 1] = IF best[k] = 0 \/ like(k + 1) > like(best[k]) THEN k + 1 ELSE best[k]
    BY <1>2, <2>2 DEF BestStep
  <2>4. \A i \in 1..(k + 1) : like(i) \in Int
    BY <1>1, <1>3
  <2> HIDE DEF like
  <2>5. CASE k = 0
    BY <2>1, <2>3, <2>4, <2>5
  <2>6. CASE k # 0 /\ like(k + 1) > like(best[k])
    BY <2>1, <2>3, <2>4, <2>6
  <2>7. CASE k # 0 /\ ~ (like(k + 1) > like(best[k]))
    BY <2>1, <2>3, <2>4, <2>7
  <2> QED BY <2>5, <2>6, <2>7
<1>6. n \in H
  <2>1. n \in Nat
    BY <1>1
  <2> HIDE DEF H
  <2> QED BY <1>4, <1>5, <2>1, NatInductionOnSets
<1> QED BY <1>1, <1>6 DEF best

LEMMA TitleJudged == ASSUME JudgeTitle PROVE TitleRight'
<1>1. PICK title \in SUBSET Word, catalog \in Lists(Entries, 2) :
           judged' = [of |-> "title", in |-> <<title, catalog>>, out |-> Enriched(title, catalog)]
  BY DEF JudgeTitle, Judgement
<1>2. catalog \in Seq(Entries)
  BY ListsAreSequences
<1> DEFINE n == Len(catalog)
           found == BestSoFar(title, catalog)[n]
           like(i) == Likeness(title, catalog[i])
           likely == {i \in DOMAIN catalog : like(i) >= TitleMatch /\ like(i) # 0}
           out == Enriched(title, catalog)
<1>3. n \in Nat /\ DOMAIN catalog = 1..n
  BY <1>2
<1>4. /\ IF n = 0 THEN found = 0 ELSE found \in 1..n
      /\ \A i \in 1..n : like(i) <= like(found)
  <2>1. n \in 0..n
    BY <1>3
  <2> QED BY <1>2, <2>1, BestIsBest
<1>5. \A i \in 1..n : like(i) \in Int
  <2>1. \A i \in 1..n : catalog[i] \in Entries
    BY <1>2
  <2> QED BY <2>1, LikenessIsNumber
<1>6. out = IF found # 0 /\ like(found) # 0 /\ like(found) >= TitleMatch THEN found ELSE 0
  BY DEF Enriched, BestMatch
<1>7. TitleMatch \in Nat
  BY ScoringAssumption
<1> HIDE DEF found, out, n, like
<1>8. IF out = 0 THEN likely = {}
      ELSE out \in likely /\ \A i \in likely : like(i) <= like(out)
  <2>1. CASE n = 0
    BY <1>3, <1>4, <1>6, <2>1
  <2>2. CASE n # 0 /\ like(found) # 0 /\ like(found) >= TitleMatch
    <3>1. found \in 1..n /\ found # 0
      BY <1>3, <1>4, <2>2
    <3>2. out = found
      BY <1>6, <2>2, <3>1
    <3> QED BY <1>3, <1>4, <2>2, <3>1, <3>2
  <2>3. CASE n # 0 /\ ~ (like(found) # 0 /\ like(found) >= TitleMatch)
    <3>1. out = 0 /\ found \in 1..n
      BY <1>4, <1>6, <2>3
    <3>2. \A i \in 1..n : like(i) \in Int /\ like(found) \in Int /\ like(i) <= like(found)
      BY <1>4, <1>5, <3>1
    <3>3. \A i \in 1..n : ~ (like(i) >= TitleMatch /\ like(i) # 0)
      BY <1>7, <2>3, <3>2
    <3> QED BY <1>3, <3>1, <3>3
  <2> QED BY <2>1, <2>2, <2>3
<1>9. judged'.in[1] = title /\ judged'.in[2] = catalog /\ judged'.out = out
  BY <1>1 DEF out
<1> QED BY <1>8, <1>9 DEF TitleRight, like

LEMMA ScoreJudged == ASSUME JudgeScore PROVE ScoreRight'
<1>1. PICK first \in Replies, second \in Replies :
           judged' = [of |-> "score", in |-> <<first, second>>, out |-> ModelScore(first, second)]
  BY DEF JudgeScore, Judgement
<1>2. first \in Int /\ second \in Int /\ GrayFrom \in 0..100 /\ GrayTo \in GrayFrom..100
  BY ScoringAssumption DEF Replies
<1>3. /\ ModelScore(first, second) \in -1..100
      /\ ModelScore(first, second) \in GrayFrom..GrayTo => second = ModelScore(first, second)
  BY <1>2 DEF ModelScore, Parsed
<1> QED BY <1>1, <1>3 DEF ScoreRight

LEMMA ConfigJudged == ASSUME JudgeConfig PROVE ConfigRight'
<1>1. PICK pairs \in Lists([polymarket : 1..2, kalshi : 1..3], 3) :
           judged' = [of |-> "config", in |-> pairs, out |-> NoDuplicates(pairs)]
  BY DEF JudgeConfig, Judgement
<1>2. DOMAIN pairs \subseteq Nat \ {0}
  <2>1. PICK k \in 0..3 : pairs \in [1..k -> [polymarket : 1..2, kalshi : 1..3]]
    BY DEF Lists
  <2> QED BY <2>1
<1>3. ASSUME NoDuplicates(pairs), NEW i \in DOMAIN pairs, NEW j \in DOMAIN pairs, j < i
      PROVE  pairs[i].polymarket # pairs[j].polymarket /\ pairs[i].kalshi # pairs[j].kalshi
  <2>1. j \in 1..(i - 1)
    BY <1>2, <1>3
  <2> QED BY <1>3, <2>1 DEF NoDuplicates
<1>4. ASSUME NoDuplicates(pairs), NEW i \in DOMAIN pairs, NEW j \in DOMAIN pairs, i # j
      PROVE  pairs[i].polymarket # pairs[j].polymarket /\ pairs[i].kalshi # pairs[j].kalshi
  <2>1. i < j \/ j < i
    BY <1>2, <1>4
  <2> QED BY <1>3, <1>4, <2>1
<1> QED BY <1>1, <1>4 DEF ConfigRight

LEMMA ScoringKeeps == ASSUME ScoringSound, [ScoringNext]_judged PROVE ScoringSound'
<1> USE DEF ScoringSound
<1>1. CASE JudgeDirection
  <2>1. judged'.of = "direction"
    BY <1>1 DEF JudgeDirection, Judgement
  <2>2. DirectionRight'
    BY <1>1, DirectionJudged
  <2> QED BY <2>1, <2>2 DEF ShortlistRight, TitleRight, ScoreRight, ConfigRight
<1>2. CASE JudgeCandidates
  <2>1. ShortlistRight' /\ judged'.of = "shortlist"
    BY <1>2, CandidatesJudged DEF JudgeCandidates, Judgement
  <2> QED BY <2>1 DEF DirectionRight, TitleRight, ScoreRight, ConfigRight
<1>3. CASE JudgeTitle
  <2>1. TitleRight' /\ judged'.of = "title"
    BY <1>3, TitleJudged DEF JudgeTitle, Judgement
  <2> QED BY <2>1 DEF DirectionRight, ShortlistRight, ScoreRight, ConfigRight
<1>4. CASE JudgeScore
  <2>1. ScoreRight' /\ judged'.of = "score"
    BY <1>4, ScoreJudged DEF JudgeScore, Judgement
  <2> QED BY <2>1 DEF DirectionRight, ShortlistRight, TitleRight, ConfigRight
<1>5. CASE JudgeConfig
  <2>1. ConfigRight' /\ judged'.of = "config"
    BY <1>5, ConfigJudged DEF JudgeConfig, Judgement
  <2> QED BY <2>1 DEF DirectionRight, ShortlistRight, TitleRight, ScoreRight
<1>6. CASE UNCHANGED judged
  BY <1>6 DEF DirectionRight, ShortlistRight, TitleRight, ScoreRight, ConfigRight
<1> QED BY <1>1, <1>2, <1>3, <1>4, <1>5, <1>6 DEF ScoringNext

THEOREM ScoringAlwaysSound == ScoringSpec => []ScoringSound
<1>1. ScoringInit => ScoringSound
  BY DEF ScoringInit, ScoringSound, DirectionRight, ShortlistRight, TitleRight, ScoreRight, ConfigRight
<1>2. ScoringSound /\ [ScoringNext]_judged => ScoringSound'
  BY ScoringKeeps
<1> QED BY <1>1, <1>2, PTL DEF ScoringSpec

-----------------------------------------------------------------------------
(* The services together: a step of one of them is a step of that one, and  *)
(* the others rest.                                                         *)

LEMMA MatchingSteps ==
    [Next]_vars => /\ [MatchNext]_matchVars
                   /\ [ResolutionNext]_resolutionVars
                   /\ [ClusterNext]_clusterVars
                   /\ [ScoringNext]_judged
<1> SUFFICES ASSUME [Next]_vars
             PROVE  /\ [MatchNext]_matchVars
                    /\ [ResolutionNext]_resolutionVars
                    /\ [ClusterNext]_clusterVars
                    /\ [ScoringNext]_judged
  OBVIOUS
<1>1. CASE UNCHANGED matchingVars
  BY <1>1 DEF matchingVars
<1>2. CASE MatchNext /\ UNCHANGED <<resolutionVars, clusterVars, judged>>
  BY <1>2
<1>3. CASE ResolutionNext /\ UNCHANGED <<matchVars, clusterVars, judged>>
  BY <1>3
<1>4. CASE ClusterNext /\ UNCHANGED <<matchVars, resolutionVars, judged>>
  BY <1>4
<1>5. CASE ScoringNext /\ UNCHANGED <<matchVars, resolutionVars, clusterVars>>
  BY <1>5
<1>6. CASE UNCHANGED vars
  <2>1. UNCHANGED matchingVars
    BY <1>6 DEF vars
  <2> QED BY <1>1, <2>1
<1> QED BY <1>1, <1>2, <1>3, <1>4, <1>5, <1>6 DEF Next

(* Whatever services run beside it: the rows, the resolutions, the clusters *)
(* and the judgements of the contract matches are all right.                *)
THEOREM MatchingAlwaysSound == Spec => []MatchingSound
<1>1. Init => MatchInit /\ ResolutionInit /\ ClusterInit /\ ScoringInit
  BY DEF Init
<1>2. [Next]_vars => /\ [MatchNext]_matchVars
                     /\ [ResolutionNext]_resolutionVars
                     /\ [ClusterNext]_clusterVars
                     /\ [ScoringNext]_judged
  BY MatchingSteps
<1>3. Spec => MatchSpec /\ ResolutionSpec /\ ClusterSpec /\ ScoringSpec
  BY <1>1, <1>2, PTL DEF Spec, MatchSpec, ResolutionSpec, ClusterSpec, ScoringSpec
<1>4. ContractsSound /\ ResolutionsSound /\ ClustersSound /\ ScoringSound => MatchingSound
  BY DEF MatchingSound
<1> QED BY <1>3, <1>4, ContractsAlwaysSound, ResolutionsAlwaysSound, ClustersAlwaysSound,
           ScoringAlwaysSound, PTL

-----------------------------------------------------------------------------
(* The ingestion of the past.                                               *)

Pair == ToSet(Targets)
SomeRange == {r \in [from : Moments, to : Moments] : r.from <= r.to}
Stage == {"idle", "listing", "assessing"} \union ToSet(Streams)
Window == {"past", "live", "any", "maker", "taker"} \X (Nat \ {0}) \X {i \in Int : i <= LastMoment}
PairEntry == [status : {"none", "in-progress", "complete", "failed"}, range : SomeRange,
          cuts : [Kalshi -> 0..LastMoment], skipped : [Required -> SUBSET Int]]

(* Which instants of a window are at its place when the cutoff was read.    *)
Meant(w, i, stream, cut) ==
    /\ i \in w[2]..w[3]
    /\ w[1] = "past" => i < cut
    /\ w[1] = "live" => i >= cut /\ stream \in Kalshi
    /\ w[1] = "maker" => i % 2 = 0
    /\ w[1] = "taker" => i % 2 = 1

(* Overlooked when Kalshi's cutoff has come to an edge.                     *)
Excused(stream, range, cut, edge) ==
    IF stream \in Kalshi
    THEN (cut..(edge - 1)) \union (IF range.to = cut THEN {cut} ELSE {})
         \union (IF stream = "candles" /\ range.from = cut - 1 THEN {range.from} ELSE {})
    ELSE {}
CutFor(entry, stream) == IF stream \in Kalshi THEN entry.cuts[stream] ELSE 0
Full(entry, stream, rows, edge) ==
    (entry.range.from..entry.range.to) \ Excused(stream, entry.range, CutFor(entry, stream), edge)
        \subseteq rows \union entry.skipped[stream]

Done(stage) ==
    CASE stage = "candles" -> {}
      [] stage = "trades" -> {"candles"}
      [] stage = "prices" -> Kalshi
      [] stage = "fills" -> Kalshi \union {"prices"}
      [] OTHER -> Required

IngestionShape ==
    /\ ingestion \in [stage : Stage, left : Seq(Pair), range : SomeRange, windows : Seq(Window),
                      held : SUBSET Moments, cut : 0..LastMoment]
    /\ running \in BOOLEAN
    /\ progress \in [Pair -> PairEntry]
    /\ ingested \in [Pair -> [Required -> SUBSET Moments]]
    /\ cutoff \in Moments /\ cachedCutoff \in 0..LastMoment
    /\ spent \in [runs : Nat, failures : Nat]

CutsArePast ==
    /\ cachedCutoff <= cutoff /\ ingestion.cut <= cutoff
    /\ ingestion.windows = <<>> \/ ingestion.cut = 0 => ingestion.held = {}
    /\ ingestion.stage # "idle" => ingestion.range.from < ingestion.range.to

AtPair == ingestion.stage \notin {"idle", "listing"}

PairsInOrder ==
    /\ ingestion.stage = "listing" => \A p \in Pair : progress[p].status = "none"
    /\ ingestion.stage = "idle" =>
          \/ \A p \in Pair : progress[p].status = "none"
          \/ \A p \in Pair : progress[p].status # "none"
    /\ \A p \in Pair : progress[p].status = "in-progress" => AtPair /\ p = Current
    /\ AtPair =>
          /\ ingestion.left # <<>>
          /\ progress[Current].status = "in-progress" /\ progress[Current].range = ingestion.range
          /\ \A p \in Pair : progress[p].status = "none" => p \in ToSet(Tail(ingestion.left))

(* Of the stream under way, what is not stored, held or skipped is in a     *)
(* window.                                                                  *)
ToCome ==
    AtPair /\ ingestion.cut # 0 /\ ingestion.stage \in Required =>
       LET s == ingestion.stage IN
       /\ s \in Kalshi => progress[Current].cuts[s] = ingestion.cut
       /\ \A i \in ingestion.range.from..ingestion.range.to :
             \/ i \in ingested[Current][s] \/ i \in ingestion.held
             \/ i \in progress[Current].skipped[s]
             \/ i \in Excused(s, ingestion.range, ingestion.cut, cutoff)
             \/ \E w \in ToSet(ingestion.windows) : Meant(w, i, s, ingestion.cut)

StreamsFull ==
    /\ AtPair => \A s \in Done(ingestion.stage) : Full(progress[Current], s, ingested[Current][s], cutoff)
    /\ \A p \in Pair : progress[p].status = "complete" =>
          \A s \in Required : Full(progress[p], s, ingested[p][s], cutoff)

IngestionInv ==
    /\ IngestionShape /\ CutsArePast
    /\ running <=> ingestion.stage # "idle"
    /\ PairsInOrder /\ ToCome /\ StreamsFull

-----------------------------------------------------------------------------

(* What a sequence of windows is: each is one, and together they hold the   *)
(* instants from the start to the end.                                      *)
Spans(seq, where, start, end) ==
    /\ seq \in Seq(Window)
    /\ \A w \in ToSet(seq) : w[1] = where
    /\ \A i \in start..end : \E w \in ToSet(seq) : i \in w[2]..w[3]

LEMMA ChunksSpan ==
    ASSUME NEW where \in {"past", "live", "any", "maker", "taker"}, NEW start \in Nat \ {0},
           NEW end \in Int, start <= end, end <= LastMoment, NEW length \in Nat \ {0},
           LastMoment \in Nat
    PROVE  /\ start < end => Spans(RangeChunks(where, start, end, length), where, start, end)
           /\ RangeChunks(where, start, end, length) \in Seq(Window)
<1> DEFINE n == (end - start + length - 1) \div length
           piece(k) == <<where, start + (k - 1) * length, Min({start + k * length, end})>>
           seq == [k \in 1..n |-> piece(k)]
<1>1. n \in Nat
  <2>1. end - start + length - 1 \in Nat
    OBVIOUS
  <2> QED BY <2>1
<1>2. RangeChunks(where, start, end, length) = seq
  BY DEF RangeChunks
<1> HIDE DEF n
<1>3. ASSUME NEW k \in 1..n PROVE piece(k) \in Window /\ Min({start + k * length, end}) \in {start + k * length, end}
  <2> DEFINE to == Min({start + k * length, end})
  <2>0. k \in Nat /\ k - 1 \in Nat
    BY <1>1
  <2>1. k * length \in Nat /\ (k - 1) * length \in Nat
    BY <2>0
  <2>2. to \in {start + k * length, end} /\ to <= end
    <3>1. start + k * length \in Nat /\ end \in Nat
      BY <2>1
    <3> QED BY <3>1, MinOfTwo
  <2> HIDE DEF to
  <2>3. to \in Int /\ to <= LastMoment /\ start + (k - 1) * length \in Nat \ {0}
    BY <2>1, <2>2
  <2>4. <<where, start + (k - 1) * length, to>> \in Window
    BY <2>3 DEF Window
  <2> QED BY <2>2, <2>4 DEF to
<1>4. seq \in Seq(Window) /\ DOMAIN seq = 1..n
  <2>1. \A k \in 1..n : piece(k) \in Window
    BY <1>3
  <2> HIDE DEF piece
  <2>2. seq \in [1..n -> Window] /\ DOMAIN seq = 1..n
    BY <2>1
  <2> HIDE DEF seq
  <2> QED BY <1>1, <2>2
<1>5. \A w \in ToSet(seq) : w[1] = where
  <2> SUFFICES ASSUME NEW k \in 1..n PROVE seq[k][1] = where
    BY <1>4 DEF ToSet
  <2> QED OBVIOUS
<1>6. ASSUME start < end, NEW i \in start..end PROVE \E w \in ToSet(seq) : i \in w[2]..w[3]
  <2> DEFINE j == (IF i = end THEN end - 1 ELSE i) - start
             q == j \div length
  <2>1. j \in Nat /\ end - start \in Nat /\ j < end - start
    BY <1>6
  <2>2. i \in {start + j, start + j + 1} /\ i <= end /\ i \in Int
    BY <1>6
  <2> HIDE DEF j
  <2>3. q \in Nat /\ q * length <= j /\ j < q * length + length /\ q + 1 <= n
    BY <2>1, Ceiling DEF n
  <2> HIDE DEF q
  <2>4. q + 1 \in 1..n
    BY <1>1, <2>3
  <2>5. piece(q + 1) \in ToSet(seq)
    BY <1>4, <2>4 DEF ToSet
  <2>6. (q + 1) * length = q * length + length /\ q * length \in Nat
    BY <2>3
  <2> DEFINE to == Min({start + (q + 1) * length, end})
  <2>7. to \in {start + (q + 1) * length, end}
    BY <1>3, <2>4
  <2> HIDE DEF to
  <2>8. start + q * length <= i /\ i <= to
    BY <2>1, <2>2, <2>3, <2>6, <2>7
  <2>9. to \in Int
    BY <2>6, <2>7
  <2>10. piece(q + 1) = <<where, start + q * length, to>>
    BY <2>3 DEF to
  <2>11. i \in piece(q + 1)[2]..piece(q + 1)[3]
    BY <2>2, <2>6, <2>8, <2>9, <2>10
  <2> QED BY <2>5, <2>11
<1> HIDE DEF seq
<1> QED BY <1>2, <1>4, <1>5, <1>6 DEF Spans

LEMMA PagesSpan ==
    ASSUME NEW where \in {"past", "live", "any", "maker", "taker"}, NEW start \in Nat \ {0},
           NEW end \in Int, start <= end, end <= LastMoment, PageSize \in Nat \ {0},
           LastMoment \in Nat
    PROVE  Spans(Pages(where, start, end), where, start, end)
<1> DEFINE c == (end - start + PageSize) \div PageSize
           n == Max({1, c})
           page(k) == <<where, start + (k - 1) * PageSize, Min({start + k * PageSize - 1, end})>>
           seq == [k \in 1..n |-> page(k)]
<1>0. c \in Nat
  <2>1. end - start + PageSize \in Nat
    OBVIOUS
  <2> QED BY <2>1
<1> HIDE DEF c
<1>1. n \in Nat /\ n >= c
  <2>1. n \in Int /\ n >= 1 /\ n >= c
    <3>1. 1 \in Int /\ c \in Int
      BY <1>0
    <3>2. Max({1, c}) \in Int /\ Max({1, c}) >= 1 /\ Max({1, c}) >= c
      BY <3>1, MaxOfTwo
    <3> QED BY <3>2
  <2> HIDE DEF n
  <2> QED BY <2>1
<1>2. Pages(where, start, end) = seq
  BY DEF Pages, c
<1> HIDE DEF n
<1>3. ASSUME NEW k \in 1..n
      PROVE  page(k) \in Window /\ Min({start + k * PageSize - 1, end}) \in {start + k * PageSize - 1, end}
  <2> DEFINE to == Min({start + k * PageSize - 1, end})
  <2>0. k \in Nat /\ k - 1 \in Nat
    BY <1>1
  <2>1. k * PageSize \in Nat /\ (k - 1) * PageSize \in Nat
    BY <2>0
  <2>2. to \in {start + k * PageSize - 1, end} /\ to <= end
    <3>1. start + k * PageSize - 1 \in Nat /\ end \in Nat
      BY <2>1
    <3> QED BY <3>1, MinOfTwo
  <2> HIDE DEF to
  <2>3. to \in Int /\ to <= LastMoment /\ start + (k - 1) * PageSize \in Nat \ {0}
    BY <2>1, <2>2
  <2>4. <<where, start + (k - 1) * PageSize, to>> \in Window
    BY <2>3 DEF Window
  <2> QED BY <2>2, <2>4 DEF to
<1>4. seq \in Seq(Window) /\ DOMAIN seq = 1..n
  <2>1. \A k \in 1..n : page(k) \in Window
    BY <1>3
  <2> HIDE DEF page
  <2>2. seq \in [1..n -> Window] /\ DOMAIN seq = 1..n
    BY <2>1
  <2> HIDE DEF seq
  <2> QED BY <1>1, <2>2
<1>5. \A w \in ToSet(seq) : w[1] = where
  <2> SUFFICES ASSUME NEW k \in 1..n PROVE seq[k][1] = where
    BY <1>4 DEF ToSet
  <2> QED OBVIOUS
<1>6. ASSUME NEW i \in start..end PROVE \E w \in ToSet(seq) : i \in w[2]..w[3]
  <2> DEFINE j == i - start
             q == j \div PageSize
  <2>1. j \in Nat /\ end - start + 1 \in Nat /\ j < end - start + 1 /\ i = start + j /\ i <= end /\ i \in Int
    BY <1>6
  <2> HIDE DEF j
  <2>2. end - start + 1 + PageSize - 1 = end - start + PageSize
    OBVIOUS
  <2>3. q \in Nat /\ q * PageSize <= j /\ j < q * PageSize + PageSize
        /\ q + 1 <= (end - start + 1 + PageSize - 1) \div PageSize
    BY <2>1, Ceiling
  <2> HIDE DEF q
  <2>4. q + 1 \in 1..n
    <3>1. q + 1 <= c
      BY <2>2, <2>3 DEF c
    <3> QED BY <1>0, <1>1, <2>3, <3>1
  <2>5. page(q + 1) \in ToSet(seq)
    BY <1>4, <2>4 DEF ToSet
  <2>6. (q + 1) * PageSize = q * PageSize + PageSize /\ q * PageSize \in Nat
    BY <2>3
  <2> DEFINE to == Min({start + (q + 1) * PageSize - 1, end})
  <2>7. to \in {start + (q + 1) * PageSize - 1, end}
    BY <1>3, <2>4
  <2> HIDE DEF to
  <2>8. start + q * PageSize <= i /\ i <= to
    BY <2>1, <2>3, <2>6, <2>7
  <2>9. to \in Int
    BY <2>6, <2>7
  <2>10. page(q + 1) = <<where, start + q * PageSize, to>>
    BY <2>3 DEF to
  <2>11. i \in page(q + 1)[2]..page(q + 1)[3]
    BY <2>1, <2>6, <2>8, <2>9, <2>10
  <2> QED BY <2>5, <2>11
<1> HIDE DEF seq
<1> QED BY <1>2, <1>4, <1>5, <1>6 DEF Spans

LEMMA JoinedWindows ==
    ASSUME NEW S, NEW a \in Seq(S), NEW b \in Seq(S)
    PROVE  a \o b \in Seq(S) /\ ToSet(a \o b) = ToSet(a) \union ToSet(b)
<1>1. a \o b \in Seq(S) /\ DOMAIN (a \o b) = 1..(Len(a) + Len(b))
      /\ DOMAIN a = 1..Len(a) /\ DOMAIN b = 1..Len(b) /\ Len(a) \in Nat /\ Len(b) \in Nat
  OBVIOUS
<1>2. \A k \in 1..Len(a) : (a \o b)[k] = a[k]
  OBVIOUS
<1>3. \A k \in 1..Len(b) : (a \o b)[Len(a) + k] = b[k]
  OBVIOUS
<1>4. ToSet(a \o b) \subseteq ToSet(a) \union ToSet(b)
  <2> SUFFICES ASSUME NEW k \in 1..(Len(a) + Len(b)) PROVE (a \o b)[k] \in ToSet(a) \union ToSet(b)
    BY <1>1 DEF ToSet
  <2>1. CASE k \in 1..Len(a)
    BY <1>1, <1>2, <2>1 DEF ToSet
  <2>2. CASE k \notin 1..Len(a)
    <3>1. k - Len(a) \in 1..Len(b) /\ Len(a) + (k - Len(a)) = k
      BY <1>1, <2>2
    <3>2. (a \o b)[k] = b[k - Len(a)]
      BY <1>3, <3>1
    <3> QED BY <1>1, <3>1, <3>2 DEF ToSet
  <2> QED BY <2>1, <2>2
<1>5. ToSet(a) \subseteq ToSet(a \o b)
  <2> SUFFICES ASSUME NEW k \in 1..Len(a) PROVE a[k] \in ToSet(a \o b)
    BY <1>1 DEF ToSet
  <2>1. k \in 1..(Len(a) + Len(b))
    BY <1>1
  <2> QED BY <1>1, <1>2, <2>1 DEF ToSet
<1>6. ToSet(b) \subseteq ToSet(a \o b)
  <2> SUFFICES ASSUME NEW k \in 1..Len(b) PROVE b[k] \in ToSet(a \o b)
    BY <1>1 DEF ToSet
  <2>1. Len(a) + k \in 1..(Len(a) + Len(b))
    BY <1>1
  <2> QED BY <1>1, <1>3, <2>1 DEF ToSet
<1> QED BY <1>1, <1>4, <1>5, <1>6

(* What the requests of a stream bring, wherever the cutoff cuts the range. *)
Asked(seq, stream, range, cut, edge) ==
    /\ seq \in Seq(Window)
    /\ \A i \in range.from..range.to :
          \/ i \in Excused(stream, range, cut, edge)
          \/ \E w \in ToSet(seq) : Meant(w, i, stream, cut)

LEMMA RangeIsTyped ==
    ASSUME NEW range \in SomeRange
    PROVE  /\ range.from \in Nat \ {0} /\ range.to \in Nat \ {0} /\ range.from <= range.to
           /\ range.to <= LastMoment /\ LastMoment \in Nat
BY IngestionAssumption DEF SomeRange, Moments

LEMMA PartsAreRanges ==
    ASSUME NEW range \in SomeRange, NEW cut \in 1..LastMoment
    PROVE  LET part == Parts(range, cut) IN
           /\ part.past # NoPart =>
                 /\ part.past[1] = range.from /\ part.past[2] \in Int
                 /\ part.past[1] <= part.past[2] /\ part.past[2] <= LastMoment
                 /\ \A i \in part.past[1]..part.past[2] : i \in Int /\ (i < cut \/ (range.to = cut /\ i = cut))
                 /\ part.past[1] = part.past[2] /\ range.from < range.to => range.from = cut - 1
           /\ part.live # NoPart =>
                 /\ part.live[1] \in Nat \ {0} /\ part.live[2] = range.to
                 /\ part.live[1] <= part.live[2] /\ part.live[1] >= cut
                 /\ part.live[1] = part.live[2] => range.to = range.from
           /\ \A i \in range.from..range.to :
                 \/ i = cut /\ range.to = cut
                 \/ i < cut /\ part.past # NoPart /\ i \in part.past[1]..part.past[2]
                 \/ i >= cut /\ part.live # NoPart /\ i \in part.live[1]..part.live[2]
<1> DEFINE part == Parts(range, cut)
           past == range.from < cut
           live == range.to > cut
           high == Max({range.from, cut})
<1>1. /\ range.from \in Nat \ {0} /\ range.to \in Nat \ {0} /\ range.from <= range.to
      /\ range.to <= LastMoment /\ LastMoment \in Nat /\ cut \in Nat \ {0} /\ cut <= LastMoment
  BY RangeIsTyped
<1>2. high \in Int /\ high >= range.from /\ high >= cut /\ high \in {range.from, cut}
  <2>1. range.from \in Int /\ cut \in Int
    BY <1>1
  <2> QED BY <2>1, MaxOfTwo
<1>3. /\ part.past = IF past THEN <<range.from, IF live THEN cut - 1 ELSE range.to>> ELSE NoPart
      /\ part.live = IF live THEN <<high, range.to>> ELSE NoPart
  BY DEF Parts
<1> HIDE DEF part, high
<1>4. /\ part.past # NoPart <=> past
      /\ part.live # NoPart <=> live
      /\ past => part.past[1] = range.from /\ part.past[2] = IF live THEN cut - 1 ELSE range.to
      /\ live => part.live[1] = high /\ part.live[2] = range.to
  BY <1>3 DEF NoPart
<1>5. part.past # NoPart =>
         /\ part.past[1] = range.from /\ part.past[2] \in Int
         /\ part.past[1] <= part.past[2] /\ part.past[2] <= LastMoment
         /\ \A i \in part.past[1]..part.past[2] : i \in Int /\ (i < cut \/ (range.to = cut /\ i = cut))
         /\ part.past[1] = part.past[2] /\ range.from < range.to => range.from = cut - 1
  BY <1>1, <1>4
<1>6. part.live # NoPart =>
         /\ part.live[1] \in Nat \ {0} /\ part.live[2] = range.to
         /\ part.live[1] <= part.live[2] /\ part.live[1] >= cut
         /\ part.live[1] = part.live[2] => range.to = range.from
  BY <1>1, <1>2, <1>4
<1>7. \A i \in range.from..range.to :
         \/ i = cut /\ range.to = cut
         \/ i < cut /\ part.past # NoPart /\ i \in part.past[1]..part.past[2]
         \/ i >= cut /\ part.live # NoPart /\ i \in part.live[1]..part.live[2]
  BY <1>1, <1>2, <1>4
<1> QED BY <1>5, <1>6, <1>7 DEF part

LEMMA CandlesAsked ==
    ASSUME NEW range \in SomeRange, range.from < range.to, NEW cut \in 1..LastMoment, NEW edge
    PROVE  Asked(CandleRequests(range, cut), "candles", range, cut, edge)
<1> DEFINE part == Parts(range, cut)
           past == IF part.past = NoPart THEN <<>>
                   ELSE RangeChunks("past", part.past[1], part.past[2], HistoryChunk)
           live == IF part.live = NoPart THEN <<>>
                   ELSE RangeChunks("live", part.live[1], part.live[2], LiveChunk)
<1>1. CandleRequests(range, cut) = past \o live
  BY DEF CandleRequests
<1>2. /\ part.past # NoPart =>
             /\ part.past[1] = range.from /\ part.past[2] \in Int
             /\ part.past[1] <= part.past[2] /\ part.past[2] <= LastMoment
             /\ \A i \in part.past[1]..part.past[2] : i \in Int /\ (i < cut \/ (range.to = cut /\ i = cut))
             /\ part.past[1] = part.past[2] /\ range.from < range.to => range.from = cut - 1
      /\ part.live # NoPart =>
             /\ part.live[1] \in Nat \ {0} /\ part.live[2] = range.to
             /\ part.live[1] <= part.live[2] /\ part.live[1] >= cut
             /\ part.live[1] = part.live[2] => range.to = range.from
      /\ \A i \in range.from..range.to :
             \/ i = cut /\ range.to = cut
             \/ i < cut /\ part.past # NoPart /\ i \in part.past[1]..part.past[2]
             \/ i >= cut /\ part.live # NoPart /\ i \in part.live[1]..part.live[2]
  BY PartsAreRanges
<1>3. /\ range.from \in Nat \ {0} /\ range.to \in Nat \ {0} /\ range.to <= LastMoment /\ LastMoment \in Nat
      /\ HistoryChunk \in Nat \ {0} /\ LiveChunk \in Nat \ {0}
  BY RangeIsTyped, IngestionAssumption
<1> HIDE DEF part
<1>4. /\ past \in Seq(Window)
      /\ part.past # NoPart /\ part.past[1] < part.past[2] => Spans(past, "past", part.past[1], part.past[2])
  <2>1. CASE part.past = NoPart
    BY <2>1
  <2>2. CASE part.past # NoPart
    <3>1. /\ part.past[1] \in Nat \ {0} /\ part.past[2] \in Int /\ part.past[1] <= part.past[2]
          /\ part.past[2] <= LastMoment
      BY <1>2, <1>3, <2>2
    <3>2. past = RangeChunks("past", part.past[1], part.past[2], HistoryChunk)
      BY <2>2
    <3> HIDE DEF past
    <3> QED BY <1>3, <3>1, <3>2, ChunksSpan
  <2> QED BY <2>1, <2>2
<1>5. /\ live \in Seq(Window)
      /\ part.live # NoPart => Spans(live, "live", part.live[1], part.live[2])
  <2>1. CASE part.live = NoPart
    BY <2>1
  <2>2. CASE part.live # NoPart
    <3>1. /\ part.live[1] \in Nat \ {0} /\ part.live[2] \in Int /\ part.live[1] < part.live[2]
          /\ part.live[2] <= LastMoment /\ part.live[1] <= part.live[2]
      BY <1>2, <1>3, <2>2
    <3>2. live = RangeChunks("live", part.live[1], part.live[2], LiveChunk)
      BY <2>2
    <3> HIDE DEF live
    <3> QED BY <1>3, <3>1, <3>2, ChunksSpan
  <2> QED BY <2>1, <2>2
<1> HIDE DEF past, live
<1>6. past \o live \in Seq(Window) /\ ToSet(past \o live) = ToSet(past) \union ToSet(live)
  BY <1>4, <1>5, JoinedWindows
<1>7. ASSUME NEW i \in range.from..range.to
      PROVE  i \in Excused("candles", range, cut, edge)
             \/ \E w \in ToSet(past \o live) : Meant(w, i, "candles", cut)
  <2>1. CASE i = cut /\ range.to = cut
    BY <2>1 DEF Excused, Kalshi
  <2>2. CASE i < cut /\ part.past # NoPart /\ i \in part.past[1]..part.past[2]
    <3>1. CASE part.past[1] < part.past[2]
      <4>1. PICK w \in ToSet(past) : i \in w[2]..w[3] /\ w[1] = "past"
        BY <1>4, <2>2, <3>1 DEF Spans
      <4>2. Meant(w, i, "candles", cut)
        BY <2>2, <4>1 DEF Meant
      <4> QED BY <1>6, <4>1, <4>2
    <3>2. CASE ~ (part.past[1] < part.past[2])
      <4>1. part.past[1] = part.past[2] /\ i = range.from
        BY <1>2, <1>3, <2>2, <3>2
      <4>2. range.from = cut - 1
        BY <1>2, <2>2, <4>1
      <4> QED BY <4>1, <4>2 DEF Excused, Kalshi
    <3> QED BY <3>1, <3>2
  <2>3. CASE i >= cut /\ part.live # NoPart /\ i \in part.live[1]..part.live[2]
    <3>1. PICK w \in ToSet(live) : i \in w[2]..w[3] /\ w[1] = "live"
      BY <1>5, <2>3 DEF Spans
    <3>2. Meant(w, i, "candles", cut)
      BY <2>3, <3>1 DEF Meant, Kalshi
    <3> QED BY <1>6, <3>1, <3>2
  <2> QED BY <1>2, <2>1, <2>2, <2>3
<1> QED BY <1>1, <1>6, <1>7 DEF Asked

LEMMA TradesAsked ==
    ASSUME NEW range \in SomeRange, NEW cut \in 1..LastMoment, NEW edge
    PROVE  Asked(TradeRequests(range, cut), "trades", range, cut, edge)
<1> DEFINE part == Parts(range, cut)
           past == IF part.past = NoPart THEN <<>> ELSE Pages("past", part.past[1], part.past[2])
           live == IF part.live = NoPart THEN <<>> ELSE Pages("live", part.live[1], part.live[2])
<1>1. TradeRequests(range, cut) = past \o live
  BY DEF TradeRequests
<1>2. /\ part.past # NoPart =>
             /\ part.past[1] = range.from /\ part.past[2] \in Int
             /\ part.past[1] <= part.past[2] /\ part.past[2] <= LastMoment
      /\ part.live # NoPart =>
             /\ part.live[1] \in Nat \ {0} /\ part.live[2] = range.to
             /\ part.live[1] <= part.live[2] /\ part.live[1] >= cut
      /\ \A i \in range.from..range.to :
             \/ i = cut /\ range.to = cut
             \/ i < cut /\ part.past # NoPart /\ i \in part.past[1]..part.past[2]
             \/ i >= cut /\ part.live # NoPart /\ i \in part.live[1]..part.live[2]
  BY PartsAreRanges
<1>3. /\ range.from \in Nat \ {0} /\ range.to \in Nat \ {0} /\ range.to <= LastMoment /\ LastMoment \in Nat
      /\ PageSize \in Nat \ {0}
  BY RangeIsTyped, IngestionAssumption
<1> HIDE DEF part
<1>4. past \in Seq(Window) /\ (part.past # NoPart => Spans(past, "past", part.past[1], part.past[2]))
  <2>1. CASE part.past = NoPart
    BY <2>1
  <2>2. CASE part.past # NoPart
    <3>1. /\ part.past[1] \in Nat \ {0} /\ part.past[2] \in Int /\ part.past[1] <= part.past[2]
          /\ part.past[2] <= LastMoment
      BY <1>2, <1>3, <2>2
    <3>2. past = Pages("past", part.past[1], part.past[2])
      BY <2>2
    <3> HIDE DEF past
    <3>3. Spans(past, "past", part.past[1], part.past[2])
      BY <1>3, <3>1, <3>2, PagesSpan
    <3> QED BY <3>3 DEF Spans
  <2> QED BY <2>1, <2>2
<1>5. live \in Seq(Window) /\ (part.live # NoPart => Spans(live, "live", part.live[1], part.live[2]))
  <2>1. CASE part.live = NoPart
    BY <2>1
  <2>2. CASE part.live # NoPart
    <3>1. /\ part.live[1] \in Nat \ {0} /\ part.live[2] \in Int /\ part.live[1] <= part.live[2]
          /\ part.live[2] <= LastMoment
      BY <1>2, <1>3, <2>2
    <3>2. live = Pages("live", part.live[1], part.live[2])
      BY <2>2
    <3> HIDE DEF live
    <3>3. Spans(live, "live", part.live[1], part.live[2])
      BY <1>3, <3>1, <3>2, PagesSpan
    <3> QED BY <3>3 DEF Spans
  <2> QED BY <2>1, <2>2
<1> HIDE DEF past, live
<1>6. past \o live \in Seq(Window) /\ ToSet(past \o live) = ToSet(past) \union ToSet(live)
  BY <1>4, <1>5, JoinedWindows
<1>7. ASSUME NEW i \in range.from..range.to
      PROVE  i \in Excused("trades", range, cut, edge)
             \/ \E w \in ToSet(past \o live) : Meant(w, i, "trades", cut)
  <2>1. CASE i = cut /\ range.to = cut
    BY <2>1 DEF Excused, Kalshi
  <2>2. CASE i < cut /\ part.past # NoPart /\ i \in part.past[1]..part.past[2]
    <3>1. PICK w \in ToSet(past) : i \in w[2]..w[3] /\ w[1] = "past"
      BY <1>4, <2>2 DEF Spans
    <3>2. Meant(w, i, "trades", cut)
      BY <2>2, <3>1 DEF Meant
    <3> QED BY <1>6, <3>1, <3>2
  <2>3. CASE i >= cut /\ part.live # NoPart /\ i \in part.live[1]..part.live[2]
    <3>1. PICK w \in ToSet(live) : i \in w[2]..w[3] /\ w[1] = "live"
      BY <1>5, <2>3 DEF Spans
    <3>2. Meant(w, i, "trades", cut)
      BY <2>3, <3>1 DEF Meant, Kalshi
    <3> QED BY <1>6, <3>1, <3>2
  <2> QED BY <1>2, <2>1, <2>2, <2>3
<1> QED BY <1>1, <1>6, <1>7 DEF Asked

LEMMA StreamAsked ==
    ASSUME NEW range \in SomeRange, range.from < range.to, NEW cut \in 1..LastMoment, NEW edge,
           NEW stream \in ToSet(Streams)
    PROVE  /\ Requests(stream, range, cut) \in Seq(Window)
           /\ stream \in Required => Asked(Requests(stream, range, cut), stream, range, cut, edge)
<1>1. /\ range.from \in Nat \ {0} /\ range.to \in Nat \ {0} /\ range.to <= LastMoment /\ LastMoment \in Nat
      /\ HistoryChunk \in Nat \ {0} /\ PageSize \in Nat \ {0} /\ range.from <= range.to
  BY RangeIsTyped, IngestionAssumption
<1>2. CASE stream = "candles"
  <2>1. Requests(stream, range, cut) = CandleRequests(range, cut)
    BY <1>2 DEF Requests
  <2> QED BY <1>2, <2>1, CandlesAsked DEF Asked
<1>3. CASE stream = "trades"
  <2>1. Requests(stream, range, cut) = TradeRequests(range, cut)
    BY <1>3 DEF Requests
  <2> QED BY <1>3, <2>1, TradesAsked DEF Asked
<1>4. CASE stream = "prices"
  <2> DEFINE seq == RangeChunks("any", range.from, range.to, HistoryChunk)
  <2>1. Requests(stream, range, cut) = seq
    BY <1>4 DEF Requests, PriceRequests
  <2>2. Spans(seq, "any", range.from, range.to)
    <3>1. "any" \in {"past", "live", "any", "maker", "taker"} /\ range.to \in Int
      BY <1>1
    <3> QED BY <1>1, <3>1, ChunksSpan
  <2> HIDE DEF seq
  <2>3. \A i \in range.from..range.to : \E w \in ToSet(seq) : Meant(w, i, stream, cut)
    BY <2>2 DEF Spans, Meant
  <2> QED BY <2>1, <2>2, <2>3 DEF Spans, Asked
<1>5. CASE stream = "fills"
  <2> DEFINE maker == Pages("maker", range.from, range.to)
             taker == Pages("taker", range.from, range.to)
  <2>1. Requests(stream, range, cut) = maker \o taker
    BY <1>5 DEF Requests, FillRequests
  <2>2. Spans(maker, "maker", range.from, range.to) /\ Spans(taker, "taker", range.from, range.to)
    BY <1>1, PagesSpan
  <2> HIDE DEF maker, taker
  <2>3. maker \o taker \in Seq(Window) /\ ToSet(maker \o taker) = ToSet(maker) \union ToSet(taker)
    BY <2>2, JoinedWindows DEF Spans
  <2>4. ASSUME NEW i \in range.from..range.to
        PROVE  \E w \in ToSet(maker \o taker) : Meant(w, i, stream, cut)
    <3>1. PICK m \in ToSet(maker) : i \in m[2]..m[3] /\ m[1] = "maker"
      BY <2>2 DEF Spans
    <3>2. PICK t \in ToSet(taker) : i \in t[2]..t[3] /\ t[1] = "taker"
      BY <2>2 DEF Spans
    <3>3. i % 2 = 0 \/ i % 2 = 1
      BY <1>1
    <3>4. Meant(m, i, stream, cut) \/ Meant(t, i, stream, cut)
      BY <3>1, <3>2, <3>3 DEF Meant
    <3> QED BY <2>3, <3>4
  <2> QED BY <2>1, <2>3, <2>4 DEF Asked
<1>6. CASE stream \in {"archive", "ohlcv"}
  <2>1. Requests(stream, range, cut) = <<<<"any", range.from, range.to>>>>
    BY <1>6 DEF Requests
  <2>2. <<"any", range.from, range.to>> \in Window
    BY <1>1 DEF Window
  <2>3. stream \notin Required
    BY <1>6 DEF Required, Kalshi
  <2> QED BY <2>1, <2>2, <2>3
<1>7. stream \in {"candles", "trades", "prices", "fills", "archive", "ohlcv"}
  BY DEF ToSet, Streams
<1> QED BY <1>2, <1>3, <1>4, <1>5, <1>6, <1>7

-----------------------------------------------------------------------------

LEMMA AnswerMeets ==
    ASSUME NEW w \in Window, NEW i \in Int, NEW stream, NEW cut \in Int, NEW range,
           cut <= cutoff, cutoff \in Int, Meant(w, i, stream, cut)
    PROVE  i \in Answer(w) \/ i \in Excused(stream, range, cut, cutoff)
<1>1. i \in w[2]..w[3] /\ w[1] \in {"past", "live", "any", "maker", "taker"}
  BY DEF Meant, Window
<1>2. CASE w[1] = "past"
  BY <1>1, <1>2 DEF Answer, Meant
<1>3. CASE w[1] = "live"
  <2>1. CASE i >= cutoff
    BY <1>1, <1>3, <2>1 DEF Answer
  <2>2. CASE ~ (i >= cutoff)
    <3>1. i \in cut..(cutoff - 1) /\ stream \in Kalshi
      BY <1>3, <2>2 DEF Meant
    <3> QED BY <3>1 DEF Excused
  <2> QED BY <2>1, <2>2
<1>4. CASE w[1] \in {"any", "maker", "taker"}
  BY <1>1, <1>4 DEF Answer, Meant
<1> QED BY <1>1, <1>2, <1>3, <1>4

LEMMA AnswerIsStored == ASSUME NEW w \in Window PROVE Answer(w) \subseteq Moments
<1>1. w[2] \in Nat \ {0} /\ w[3] \in Int /\ w[3] <= LastMoment /\ LastMoment \in Nat
  BY IngestionAssumption DEF Window
<1>2. Answer(w) \subseteq w[2]..w[3]
  BY DEF Answer
<1>3. w[2]..w[3] \subseteq Moments
  BY <1>1 DEF Moments
<1> QED BY <1>2, <1>3

LEMMA HeadAndTail ==
    ASSUME NEW S, NEW s \in Seq(S), s # <<>>
    PROVE  /\ Head(s) \in S /\ Tail(s) \in Seq(S)
           /\ ToSet(s) = {Head(s)} \union ToSet(Tail(s))
<1>1. /\ Head(s) \in S /\ Tail(s) \in Seq(S) /\ Len(s) \in Nat \ {0} /\ DOMAIN s = 1..Len(s)
      /\ DOMAIN Tail(s) = 1..(Len(s) - 1) /\ \A k \in 1..(Len(s) - 1) : Tail(s)[k] = s[k + 1]
      /\ Head(s) = s[1]
  OBVIOUS
<1>2. ToSet(s) \subseteq {Head(s)} \union ToSet(Tail(s))
  <2> SUFFICES ASSUME NEW k \in 1..Len(s), k # 1 PROVE s[k] \in ToSet(Tail(s))
    BY <1>1 DEF ToSet
  <2>1. k - 1 \in 1..(Len(s) - 1) /\ k - 1 + 1 = k
    BY <1>1
  <2> QED BY <1>1, <2>1 DEF ToSet
<1>3. ToSet(Tail(s)) \subseteq ToSet(s)
  <2> SUFFICES ASSUME NEW k \in 1..(Len(s) - 1) PROVE Tail(s)[k] \in ToSet(s)
    BY <1>1 DEF ToSet
  <2>1. k + 1 \in 1..Len(s)
    BY <1>1
  <2> QED BY <1>1, <2>1 DEF ToSet
<1>4. Head(s) \in ToSet(s)
  <2>1. 1 \in 1..Len(s)
    BY <1>1
  <2> QED BY <1>1, <2>1 DEF ToSet
<1> QED BY <1>1, <1>2, <1>3, <1>4

LEMMA FullGrows ==
    ASSUME NEW entry \in PairEntry, NEW stream \in Required, NEW rows, NEW more, rows \subseteq more,
           NEW edge \in Int, NEW later \in Int, edge <= later, Full(entry, stream, rows, edge),
           NEW entered \in PairEntry, entered.range = entry.range, entered.cuts = entry.cuts,
           entry.skipped[stream] \subseteq entered.skipped[stream]
    PROVE  Full(entered, stream, more, later)
<1>1. CutFor(entry, stream) \in Int
  <2>1. stream \in Kalshi => entry.cuts[stream] \in Int
    BY IngestionAssumption DEF PairEntry
  <2> QED BY <2>1 DEF CutFor
<1>2. Excused(stream, entry.range, CutFor(entry, stream), edge)
          \subseteq Excused(stream, entry.range, CutFor(entry, stream), later)
  <2> DEFINE cut == CutFor(entry, stream)
  <2> HIDE DEF cut
  <2>1. cut..(edge - 1) \subseteq cut..(later - 1)
    BY <1>1 DEF cut
  <2>2. Excused(stream, entry.range, cut, edge) \subseteq Excused(stream, entry.range, cut, later)
    BY <2>1 DEF Excused
  <2> QED BY <2>2 DEF cut
<1>3. CutFor(entered, stream) = CutFor(entry, stream)
  BY DEF CutFor
<1> QED BY <1>2, <1>3 DEF Full

LEMMA StreamOrder ==
    ASSUME NEW stream \in ToSet(Streams)
    PROVE  /\ AfterStream(stream) \in {"trades", "prices", "fills", "archive", "ohlcv", "assessing"}
           /\ Done(AfterStream(stream)) \subseteq Done(stream) \union ({stream} \intersect Required)
<1> DEFINE i == CHOOSE i \in DOMAIN Streams : Streams[i] = stream
<1>1. \E j \in DOMAIN Streams : Streams[j] = stream
  BY DEF ToSet
<1>2. i \in DOMAIN Streams /\ Streams[i] = stream
  BY <1>1
<1>3. AfterStream(stream) = IF i = Len(Streams) THEN "assessing" ELSE Streams[i + 1]
  BY DEF AfterStream
<1> HIDE DEF i
<1>4. i \in 1..6 /\ Len(Streams) = 6
  BY <1>2 DEF Streams
<1>5. i = 1 \/ i = 2 \/ i = 3 \/ i = 4 \/ i = 5 \/ i = 6
  BY <1>4
<1>6. CASE i = 1
  <2>1. stream = "candles" /\ AfterStream(stream) = "trades"
    BY <1>2, <1>3, <1>4, <1>6 DEF Streams
  <2> QED BY <2>1 DEF Done, Required, Kalshi
<1>7. CASE i = 2
  <2>1. stream = "trades" /\ AfterStream(stream) = "prices"
    BY <1>2, <1>3, <1>4, <1>7 DEF Streams
  <2> QED BY <2>1 DEF Done, Required, Kalshi
<1>8. CASE i = 3
  <2>1. stream = "prices" /\ AfterStream(stream) = "fills"
    BY <1>2, <1>3, <1>4, <1>8 DEF Streams
  <2> QED BY <2>1 DEF Done, Required, Kalshi
<1>9. CASE i = 4
  <2>1. stream = "fills" /\ AfterStream(stream) = "archive"
    BY <1>2, <1>3, <1>4, <1>9 DEF Streams
  <2> QED BY <2>1 DEF Done, Required, Kalshi
<1>10. CASE i = 5
  <2>1. stream = "archive" /\ AfterStream(stream) = "ohlcv"
    BY <1>2, <1>3, <1>4, <1>10 DEF Streams
  <2> QED BY <2>1 DEF Done
<1>11. CASE i = 6
  <2>1. stream = "ohlcv" /\ AfterStream(stream) = "assessing"
    BY <1>2, <1>3, <1>4, <1>11 DEF Streams
  <2> QED BY <2>1 DEF Done
<1> QED BY <1>5, <1>6, <1>7, <1>8, <1>9, <1>10, <1>11

LEMMA PairUnderWay ==
    ASSUME IngestionInv, AtPair
    PROVE  /\ ingestion.left \in Seq(Pair) /\ ingestion.left # <<>>
           /\ Current \in Pair /\ Tail(ingestion.left) \in Seq(Pair)
<1>1. ingestion.left \in Seq(Pair) /\ ingestion.left # <<>>
  BY DEF IngestionInv, IngestionShape, PairsInOrder
<1> QED BY <1>1, HeadAndTail DEF Current

(* The next pair begins, or the run is over.                                *)
LEMMA NextTargetKeeps ==
    ASSUME IngestionInv, ingestion.stage # "idle", NEW left \in Seq(Pair), NEW entries \in [Pair -> PairEntry],
           NextTarget(left, entries),
           UNCHANGED <<ingested, cutoff, cachedCutoff>>, spent' \in [runs : Nat, failures : Nat],
           \A p \in Pair : entries[p].status # "in-progress",
           \A p \in Pair : entries[p].status = "none" => p \in ToSet(left),
           \A p \in Pair : entries[p].status = "complete" =>
              \A s \in Required : Full(entries[p], s, ingested[p][s], cutoff)
    PROVE  IngestionInv'
<1>0. IngestionShape /\ CutsArePast /\ running /\ LastMoment \in Nat
  BY IngestionAssumption DEF IngestionInv
<1>1. CASE left = <<>>
  <2>1. ingestion' = Idle /\ running' = FALSE /\ progress' = entries
    BY <1>1 DEF NextTarget, Ended
  <2>2. Idle \in [stage : Stage, left : Seq(Pair), range : SomeRange, windows : Seq(Window),
                  held : SUBSET Moments, cut : 0..LastMoment]
    <3>1. [from |-> 1, to |-> 1] \in SomeRange
      BY IngestionAssumption DEF SomeRange, Moments
    <3> QED BY <1>0, <3>1 DEF Idle, Stage
  <2>3. IngestionShape'
    BY <1>0, <2>1, <2>2 DEF IngestionShape
  <2>4. CutsArePast'
    <3>1. cutoff \in Nat
      BY <1>0 DEF IngestionShape, Moments
    <3> QED BY <1>0, <2>1, <3>1 DEF CutsArePast, Idle
  <2>5. \A p \in Pair : entries[p].status # "none"
    BY <1>1 DEF ToSet
  <2>6. ingestion'.stage = "idle" /\ ~AtPair'
    BY <2>1 DEF Idle, AtPair
  <2>7. PairsInOrder'
    BY <2>1, <2>5, <2>6 DEF PairsInOrder
  <2>8. ToCome' /\ StreamsFull'
    BY <2>1, <2>6 DEF ToCome, StreamsFull
  <2> QED BY <2>1, <2>3, <2>4, <2>6, <2>7, <2>8 DEF IngestionInv
<1>2. CASE left # <<>>
  <2> DEFINE h == Head(left)
             begun == [NoEntry EXCEPT !.status = "in-progress", !.range = ingestion.range]
  <2>1. /\ ingestion' = [ingestion EXCEPT !.stage = "candles", !.left = left, !.windows = <<>>,
                                           !.held = {}, !.cut = 0]
        /\ progress' = [entries EXCEPT ![h] = begun]
        /\ running' = running
    BY <1>2 DEF NextTarget, Begun
  <2>2. h \in Pair /\ ToSet(left) = {h} \union ToSet(Tail(left))
    BY <1>2, HeadAndTail
  <2> HIDE DEF h
  <2>3. /\ ingestion'.stage = "candles" /\ ingestion'.left = left /\ ingestion'.windows = <<>>
        /\ ingestion'.held = {} /\ ingestion'.cut = 0 /\ ingestion'.range = ingestion.range
        /\ ingestion' \in [stage : Stage, left : Seq(Pair), range : SomeRange, windows : Seq(Window),
                           held : SUBSET Moments, cut : 0..LastMoment]
    <3>1. "candles" \in Stage /\ <<>> \in Seq(Window) /\ 0 \in 0..LastMoment
      BY <1>0 DEF Stage, Streams, ToSet
    <3> QED BY <1>0, <2>1, <3>1 DEF IngestionShape
  <2>4. begun \in PairEntry /\ begun.status = "in-progress" /\ begun.range = ingestion.range
    <3>1. ingestion.range \in SomeRange
      BY <1>0 DEF IngestionShape
    <3>2. NoEntry.cuts \in [Kalshi -> 0..LastMoment] /\ NoEntry.skipped \in [Required -> SUBSET Int]
      BY <1>0 DEF NoEntry
    <3> QED BY <3>1, <3>2 DEF PairEntry, NoEntry
  <2> HIDE DEF begun
  <2>5. progress' \in [Pair -> PairEntry] /\ progress'[h] = begun /\ \A p \in Pair \ {h} : progress'[p] = entries[p]
    BY <2>1, <2>2, <2>4
  <2>6. IngestionShape'
    BY <1>0, <2>1, <2>3, <2>5 DEF IngestionShape
  <2>7. CutsArePast'
    <3>1. cutoff \in Nat
      BY <1>0 DEF IngestionShape, Moments
    <3>2. ingestion.range.from < ingestion.range.to
      BY <1>0 DEF CutsArePast
    <3> QED BY <1>0, <2>3, <3>1, <3>2 DEF CutsArePast
  <2>8. AtPair' /\ Current' = h
    BY <2>3 DEF AtPair, Current, h
  <2>9. PairsInOrder'
    <3>1. \A p \in Pair : progress'[p].status = "in-progress" => p = h
      BY <2>5
    <3>2. \A p \in Pair : progress'[p].status = "none" => p \in ToSet(Tail(left))
      BY <2>2, <2>4, <2>5
    <3>3. progress'[h].status = "in-progress" /\ progress'[h].range = ingestion'.range
      BY <2>3, <2>4, <2>5
    <3> QED BY <1>2, <2>3, <2>8, <3>1, <3>2, <3>3 DEF PairsInOrder
  <2>10. ToCome'
    BY <2>3 DEF ToCome
  <2>11. StreamsFull'
    <3>1. Done("candles") = {}
      BY DEF Done
    <3>2. ASSUME NEW p \in Pair, progress'[p].status = "complete", NEW s \in Required
          PROVE  Full(progress'[p], s, ingested'[p][s], cutoff')
      <4>1. p # h /\ progress'[p] = entries[p]
        BY <2>4, <2>5, <3>2
      <4> QED BY <3>2, <4>1
    <3> QED BY <2>3, <3>1, <3>2 DEF StreamsFull
  <2>12. running' /\ ingestion'.stage # "idle"
    BY <1>0, <2>1, <2>3
  <2> QED BY <2>6, <2>7, <2>9, <2>10, <2>11, <2>12 DEF IngestionInv
<1> QED BY <1>1, <1>2

(* A pair is left as failed, or as complete when its streams are full.      *)
LEMMA PairIsJudged ==
    ASSUME IngestionInv, AtPair, NEW judgement \in {"failed", "complete"},
           NextTarget(Tail(ingestion.left), [progress EXCEPT ![Current].status = judgement]),
           UNCHANGED <<ingested, cutoff, cachedCutoff>>, spent' \in [runs : Nat, failures : Nat],
           judgement = "complete" =>
              \A s \in Required : Full(progress[Current], s, ingested[Current][s], cutoff)
    PROVE  IngestionInv'
<1> DEFINE c == Current
           entries == [progress EXCEPT ![c].status = judgement]
<1>1. c \in Pair /\ Tail(ingestion.left) \in Seq(Pair)
  BY PairUnderWay
<1>2. progress \in [Pair -> PairEntry] /\ ingestion.stage # "idle"
  BY DEF IngestionInv, IngestionShape, AtPair
<1>3. /\ \A p \in Pair : progress[p].status = "in-progress" => p = c
      /\ \A p \in Pair : progress[p].status = "none" => p \in ToSet(Tail(ingestion.left))
      /\ progress[c].status = "in-progress"
  BY DEF IngestionInv, PairsInOrder
<1>4. \A p \in Pair : progress[p].status = "complete" =>
          \A s \in Required : Full(progress[p], s, ingested[p][s], cutoff)
  BY DEF IngestionInv, StreamsFull
<1>5. NextTarget(Tail(ingestion.left), entries)
  OBVIOUS
<1>6. judgement = "complete" => \A s \in Required : Full(progress[c], s, ingested[c][s], cutoff)
  OBVIOUS
<1> HIDE DEF c
<1>7. [progress[c] EXCEPT !.status = judgement] \in PairEntry
  BY <1>1, <1>2 DEF PairEntry
<1>8. /\ entries \in [Pair -> PairEntry] /\ entries[c] = [progress[c] EXCEPT !.status = judgement]
      /\ \A p \in Pair : p # c => entries[p] = progress[p]
  BY <1>1, <1>2, <1>7
<1>9. /\ entries[c].status = judgement /\ entries[c].range = progress[c].range
      /\ entries[c].cuts = progress[c].cuts /\ entries[c].skipped = progress[c].skipped
  BY <1>1, <1>2, <1>8 DEF PairEntry
<1> HIDE DEF entries
<1>10. \A p \in Pair : entries[p].status # "in-progress"
  BY <1>3, <1>8, <1>9
<1>11. \A p \in Pair : entries[p].status = "none" => p \in ToSet(Tail(ingestion.left))
  BY <1>3, <1>8, <1>9
<1>12. ASSUME NEW p \in Pair, entries[p].status = "complete", NEW s \in Required
       PROVE  Full(entries[p], s, ingested[p][s], cutoff)
  <2>1. CASE p = c
    BY <1>6, <1>9, <1>12, <2>1 DEF Full, CutFor
  <2>2. CASE p # c
    BY <1>4, <1>8, <1>12, <2>2
  <2> QED BY <2>1, <2>2
<1> QED BY <1>1, <1>2, <1>5, <1>8, <1>10, <1>11, <1>12, NextTargetKeeps

(* Nothing but what was skipped changes in the progress of the pairs.       *)
SkipsGrow ==
    /\ progress' \in [Pair -> PairEntry]
    /\ \A p \in Pair :
          /\ progress'[p].status = progress[p].status /\ progress'[p].range = progress[p].range
          /\ progress'[p].cuts = progress[p].cuts
          /\ \A s \in Required : progress[p].skipped[s] \subseteq progress'[p].skipped[s]

LEMMA NoneSkipped == ASSUME IngestionShape, UNCHANGED progress PROVE SkipsGrow
BY DEF SkipsGrow, IngestionShape

LEMMA StillFull ==
    ASSUME IngestionShape, SkipsGrow, NEW p \in Pair, NEW s \in Required, NEW more,
           ingested[p][s] \subseteq more, Full(progress[p], s, ingested[p][s], cutoff)
    PROVE  Full(progress'[p], s, more, cutoff)
<1>1. progress[p] \in PairEntry /\ progress'[p] \in PairEntry /\ cutoff \in Int /\ cutoff <= cutoff
  BY IngestionAssumption DEF IngestionShape, SkipsGrow, Moments
<1>2. /\ progress'[p].range = progress[p].range /\ progress'[p].cuts = progress[p].cuts
      /\ progress[p].skipped[s] \subseteq progress'[p].skipped[s]
  BY DEF SkipsGrow
<1> QED BY <1>1, <1>2, FullGrows

(* A stream ends and the next one begins, or the pair is assessed.          *)
LEMMA StreamEndsKeeps ==
    ASSUME IngestionInv, ingestion.stage \in ToSet(Streams), NEW rows \in SUBSET Moments,
           StreamEnds(rows), SkipsGrow, UNCHANGED <<running, cutoff, cachedCutoff>>,
           spent' \in [runs : Nat, failures : Nat],
           ingestion.stage \in Required =>
              Full(progress'[Current], ingestion.stage, ingested[Current][ingestion.stage] \union rows, cutoff)
    PROVE  IngestionInv'
<1> DEFINE c == Current
           stage == ingestion.stage
           next == AfterStream(stage)
<1>0. /\ IngestionShape /\ CutsArePast /\ PairsInOrder /\ StreamsFull /\ running /\ AtPair
      /\ cutoff \in Nat /\ LastMoment \in Nat
  <2>1. stage \in {"candles", "trades", "prices", "fills", "archive", "ohlcv"}
    BY DEF ToSet, Streams
  <2>2. cutoff \in Nat /\ LastMoment \in Nat
    BY IngestionAssumption DEF IngestionInv, IngestionShape, Moments
  <2> QED BY <2>1, <2>2 DEF IngestionInv, AtPair
<1>1. c \in Pair /\ ingestion.left # <<>>
  BY <1>0, PairUnderWay
<1>2. /\ next \in {"trades", "prices", "fills", "archive", "ohlcv", "assessing"}
      /\ Done(next) \subseteq Done(stage) \union ({stage} \intersect Required)
  BY StreamOrder
<1>3. ingestion' = [ingestion EXCEPT !.stage = next, !.windows = <<>>, !.held = {}, !.cut = 0]
  BY DEF StreamEnds
<1>4. ingested' = IF stage \in Required
                  THEN [ingested EXCEPT ![c][stage] = @ \union rows] ELSE ingested
  BY DEF StreamEnds
<1>5. stage \in Required => Full(progress'[c], stage, ingested[c][stage] \union rows, cutoff)
  OBVIOUS
<1> HIDE DEF next
<1>6. next \in Stage
  BY <1>2 DEF Stage, ToSet, Streams
<1>7. /\ ingestion'.stage = next /\ ingestion'.windows = <<>> /\ ingestion'.held = {}
      /\ ingestion'.cut = 0 /\ ingestion'.range = ingestion.range /\ ingestion'.left = ingestion.left
      /\ ingestion' \in [stage : Stage, left : Seq(Pair), range : SomeRange, windows : Seq(Window),
                         held : SUBSET Moments, cut : 0..LastMoment]
  <2>1. <<>> \in Seq(Window) /\ 0 \in 0..LastMoment /\ {} \in SUBSET Moments
    BY <1>0
  <2>2. ingestion \in [stage : Stage, left : Seq(Pair), range : SomeRange, windows : Seq(Window),
                       held : SUBSET Moments, cut : 0..LastMoment]
    BY <1>0 DEF IngestionShape
  <2> HIDE DEF stage
  <2> QED BY <1>3, <1>6, <2>1, <2>2
<1>8. AtPair' /\ Current' = c
  BY <1>2, <1>7 DEF AtPair, Current
<1> HIDE DEF c
<1>9. /\ ingested' \in [Pair -> [Required -> SUBSET Moments]]
      /\ \A p \in Pair : \A s \in Required : ingested[p][s] \subseteq ingested'[p][s]
      /\ stage \in Required => ingested'[c][stage] = ingested[c][stage] \union rows
  <2>1. ingested \in [Pair -> [Required -> SUBSET Moments]]
    BY <1>0 DEF IngestionShape
  <2>2. CASE stage \notin Required
    BY <1>4, <2>1, <2>2
  <2>3. CASE stage \in Required
    <3> DEFINE grown == [ingested[c] EXCEPT ![stage] = @ \union rows]
    <3>1. /\ grown \in [Required -> SUBSET Moments] /\ grown[stage] = ingested[c][stage] \union rows
          /\ \A s \in Required : ingested[c][s] \subseteq grown[s]
      BY <1>1, <2>1, <2>3
    <3>2. ingested' = [ingested EXCEPT ![c] = grown]
      BY <1>4, <2>3
    <3> HIDE DEF grown
    <3> QED BY <1>1, <2>1, <3>1, <3>2
  <2> QED BY <2>2, <2>3
<1>10. IngestionShape'
  <2>1. progress' \in [Pair -> PairEntry]
    BY DEF SkipsGrow
  <2> QED BY <1>0, <1>7, <1>9, <2>1 DEF IngestionShape
<1>11. CutsArePast'
  BY <1>0, <1>7 DEF CutsArePast, AtPair
<1>12. running' /\ ingestion'.stage # "idle"
  BY <1>0, <1>2, <1>7
<1>13. PairsInOrder'
  <2>1. ingestion'.stage \notin {"idle", "listing"}
    BY <1>2, <1>7
  <2>2. /\ progress[c].status = "in-progress" /\ progress[c].range = ingestion.range
        /\ \A p \in Pair : progress[p].status = "none" => p \in ToSet(Tail(ingestion.left))
        /\ \A p \in Pair : progress[p].status = "in-progress" => p = c
    BY <1>0 DEF PairsInOrder, c
  <2>3. \A p \in Pair : progress'[p].status = progress[p].status /\ progress'[p].range = progress[p].range
    BY DEF SkipsGrow
  <2> QED BY <1>1, <1>7, <1>8, <2>1, <2>2, <2>3 DEF PairsInOrder
<1>14. ToCome'
  BY <1>7 DEF ToCome
<1>15. ASSUME NEW p \in Pair, NEW s \in Required, Full(progress[p], s, ingested[p][s], cutoff)
       PROVE  Full(progress'[p], s, ingested'[p][s], cutoff)
  <2>1. ingested[p][s] \subseteq ingested'[p][s]
    BY <1>9
  <2> QED BY <1>0, <1>15, <2>1, StillFull
<1>16. StreamsFull'
  <2>1. ASSUME NEW s \in Done(next) PROVE Full(progress'[c], s, ingested'[c][s], cutoff)
    <3>1. CASE s = stage /\ stage \in Required
      BY <1>5, <1>9, <3>1
    <3>2. CASE s \in Done(stage)
      <4>1. Full(progress[c], s, ingested[c][s], cutoff)
        BY <1>0, <3>2 DEF StreamsFull, c
      <4>2. s \in Required
        BY <3>2 DEF Done, Required, Kalshi
      <4> QED BY <1>1, <1>15, <4>1, <4>2
    <3> QED BY <1>2, <3>1, <3>2
  <2>2. ASSUME NEW p \in Pair, progress'[p].status = "complete", NEW s \in Required
        PROVE  Full(progress'[p], s, ingested'[p][s], cutoff)
    <3>1. progress[p].status = "complete"
      BY <2>2 DEF SkipsGrow
    <3> QED BY <1>0, <1>15, <3>1 DEF StreamsFull
  <2> QED BY <1>7, <1>8, <2>1, <2>2 DEF StreamsFull
<1> QED BY <1>10, <1>11, <1>12, <1>13, <1>14, <1>16 DEF IngestionInv

LEMMA IngestionStarts == IngestionInit => IngestionInv
<1> SUFFICES ASSUME IngestionInit PROVE IngestionInv
  OBVIOUS
<1>1. LastMoment \in Nat /\ LastMoment >= 2
  BY IngestionAssumption
<1>2. [from |-> 1, to |-> 1] \in SomeRange
  BY <1>1 DEF SomeRange, Moments
<1>3. Idle \in [stage : Stage, left : Seq(Pair), range : SomeRange, windows : Seq(Window),
                held : SUBSET Moments, cut : 0..LastMoment]
  BY <1>1, <1>2 DEF Idle, Stage
<1>4. NoEntry \in PairEntry
  <2>1. NoEntry.cuts \in [Kalshi -> 0..LastMoment] /\ NoEntry.skipped \in [Required -> SUBSET Int]
    BY <1>1 DEF NoEntry
  <2> QED BY <1>2, <2>1 DEF NoEntry, PairEntry, Idle
<1>5. \A p \in Pair : progress[p] = NoEntry
  BY DEF IngestionInit, Pair
<1>6. progress \in [Pair -> PairEntry] /\ ingested \in [Pair -> [Required -> SUBSET Moments]]
  BY <1>4 DEF IngestionInit, Pair
<1>7. IngestionShape
  <2>1. running \in BOOLEAN
    BY Zenon DEF IngestionInit
  <2>2. cutoff \in Moments /\ cachedCutoff \in 0..LastMoment
    BY <1>1 DEF IngestionInit, Moments
  <2>3. spent \in [runs : Nat, failures : Nat]
    BY DEF IngestionInit
  <2>4. ingestion = Idle
    BY DEF IngestionInit
  <2> QED BY <1>3, <1>6, <2>1, <2>2, <2>3, <2>4 DEF IngestionShape
<1>8. CutsArePast
  BY <1>1 DEF CutsArePast, IngestionInit, Idle
<1>9. ingestion.stage = "idle" /\ running = FALSE
  BY DEF IngestionInit, Idle
<1>10. \A p \in Pair : progress[p].status = "none"
  BY <1>5 DEF NoEntry
<1>11. PairsInOrder /\ ToCome /\ StreamsFull
  BY <1>9, <1>10 DEF PairsInOrder, ToCome, StreamsFull, AtPair
<1> QED BY <1>7, <1>8, <1>9, <1>11 DEF IngestionInv

LEMMA RunsAreCounted ==
    ASSUME IngestionInv
    PROVE  /\ spent \in [runs : Nat, failures : Nat]
           /\ Fails => spent' \in [runs : Nat, failures : Nat]
           /\ spent' = [spent EXCEPT !.runs = @ + 1] => spent' \in [runs : Nat, failures : Nat]
<1>1. spent \in [runs : Nat, failures : Nat]
  BY DEF IngestionInv, IngestionShape
<1> QED BY <1>1 DEF Fails

LEMMA TriggerKeeps == ASSUME IngestionInv, TriggerIngestion PROVE IngestionInv'
<1>1. PICK range \in DateRanges :
        /\ range.from < range.to /\ range.to <= LastMoment
        /\ running' = TRUE
        /\ progress' = [p \in DOMAIN progress |-> NoEntry]
        /\ ingestion' = [Idle EXCEPT !.stage = "listing", !.range = range]
  BY Zenon DEF TriggerIngestion
<1>2. /\ spent' \in [runs : Nat, failures : Nat] /\ UNCHANGED <<ingested, cutoff, cachedCutoff>>
      /\ IngestionShape /\ CutsArePast
  BY RunsAreCounted DEF TriggerIngestion, IngestionInv
<1>3. LastMoment \in Nat /\ LastMoment >= 2 /\ range \in SomeRange
  BY <1>1, IngestionAssumption DEF SomeRange, Moments
<1>4. /\ ingestion' = [stage |-> "listing", left |-> <<>>, range |-> range, windows |-> <<>>,
                       held |-> {}, cut |-> 0]
      /\ "listing" \in Stage
  BY <1>1 DEF Idle, Stage
<1>5. NoEntry \in PairEntry /\ NoEntry.status = "none"
  <2>1. NoEntry.cuts \in [Kalshi -> 0..LastMoment] /\ NoEntry.skipped \in [Required -> SUBSET Int]
    BY <1>3 DEF NoEntry
  <2>2. [from |-> 1, to |-> 1] \in SomeRange
    BY <1>3 DEF SomeRange, Moments
  <2> QED BY <2>1, <2>2 DEF NoEntry, PairEntry, Idle
<1>6. progress' \in [Pair -> PairEntry] /\ \A p \in Pair : progress'[p] = NoEntry
  BY <1>1, <1>2, <1>5 DEF IngestionShape
<1>7. IngestionShape'
  <2>1. running' \in BOOLEAN
    BY <1>1
  <2>2. ingestion' \in [stage : Stage, left : Seq(Pair), range : SomeRange, windows : Seq(Window),
                        held : SUBSET Moments, cut : 0..LastMoment]
    BY <1>3, <1>4
  <2> QED BY <1>2, <1>6, <2>1, <2>2 DEF IngestionShape
<1>8. CutsArePast'
  <2>1. cutoff \in Nat
    BY <1>2, <1>3 DEF IngestionShape, Moments
  <2>2. cachedCutoff' = cachedCutoff /\ cutoff' = cutoff /\ cachedCutoff <= cutoff
    BY <1>2 DEF CutsArePast
  <2>3. ingestion'.cut = 0 /\ ingestion'.held = {} /\ ingestion'.range = range
    BY <1>4
  <2> QED BY <1>1, <2>1, <2>2, <2>3 DEF CutsArePast
<1>9. ingestion'.stage = "listing" /\ ~AtPair' /\ \A p \in Pair : progress'[p].status = "none"
  BY <1>4, <1>5, <1>6 DEF AtPair
<1>10. PairsInOrder'
  BY <1>9 DEF PairsInOrder
<1>11. ToCome' /\ StreamsFull'
  BY <1>9 DEF ToCome, StreamsFull
<1> QED BY <1>1, <1>7, <1>8, <1>9, <1>10, <1>11 DEF IngestionInv

(* The run is over with the pairs as they are.                              *)
LEMMA OverKeeps ==
    ASSUME IngestionInv, ingestion' = Idle, running' = FALSE, progress' \in [Pair -> PairEntry],
           UNCHANGED <<ingested, cutoff>>, cachedCutoff' \in {0, cachedCutoff},
           spent' \in [runs : Nat, failures : Nat], \A p \in Pair : progress'[p].status = "none"
    PROVE  IngestionInv'
<1>1. IngestionShape /\ CutsArePast /\ LastMoment \in Nat /\ LastMoment >= 2
  BY IngestionAssumption DEF IngestionInv
<1>2. Idle \in [stage : Stage, left : Seq(Pair), range : SomeRange, windows : Seq(Window),
                held : SUBSET Moments, cut : 0..LastMoment]
  <2>1. [from |-> 1, to |-> 1] \in SomeRange
    BY <1>1 DEF SomeRange, Moments
  <2> QED BY <1>1, <2>1 DEF Idle, Stage
<1>3. IngestionShape'
  <2>1. running' \in BOOLEAN
    BY Zenon
  <2>2. cachedCutoff' \in 0..LastMoment
    BY <1>1 DEF IngestionShape
  <2> QED BY <1>1, <1>2, <2>1, <2>2 DEF IngestionShape
<1>4. CutsArePast'
  <2>1. cutoff \in Nat
    BY <1>1 DEF IngestionShape, Moments
  <2> QED BY <1>1, <2>1 DEF CutsArePast, Idle
<1>5. ingestion'.stage = "idle" /\ ~AtPair'
  BY DEF Idle, AtPair
<1>6. PairsInOrder' /\ ToCome' /\ StreamsFull'
  BY <1>5 DEF PairsInOrder, ToCome, StreamsFull
<1> QED BY <1>3, <1>4, <1>5, <1>6 DEF IngestionInv

LEMMA CrashKeeps == ASSUME IngestionInv, IngestionCrashes PROVE IngestionInv'
<1>1. /\ ingestion' = Idle /\ running' = FALSE /\ cachedCutoff' \in {0, cachedCutoff}
      /\ progress' = [p \in DOMAIN progress |-> NoEntry] /\ UNCHANGED <<ingested, cutoff>>
      /\ spent' \in [runs : Nat, failures : Nat]
  BY RunsAreCounted DEF IngestionCrashes
<1>2. NoEntry \in PairEntry /\ NoEntry.status = "none"
  <2>1. LastMoment \in Nat /\ LastMoment >= 2
    BY IngestionAssumption
  <2>2. NoEntry.cuts \in [Kalshi -> 0..LastMoment] /\ NoEntry.skipped \in [Required -> SUBSET Int]
    BY <2>1 DEF NoEntry
  <2>3. [from |-> 1, to |-> 1] \in SomeRange
    BY <2>1 DEF SomeRange, Moments
  <2> QED BY <2>2, <2>3 DEF NoEntry, PairEntry, Idle
<1>3. progress \in [Pair -> PairEntry]
  BY DEF IngestionInv, IngestionShape
<1>4. progress' \in [Pair -> PairEntry] /\ \A p \in Pair : progress'[p].status = "none"
  BY <1>1, <1>2, <1>3
<1> QED BY <1>1, <1>4, OverKeeps

LEMMA ListKeeps == ASSUME IngestionInv, BuildTargetList PROVE IngestionInv'
<1>1. ingestion.stage = "listing" /\ UNCHANGED <<ingested, cutoff, cachedCutoff>>
  BY DEF BuildTargetList
<1>2. progress \in [Pair -> PairEntry] /\ \A p \in Pair : progress[p].status = "none"
  BY <1>1 DEF IngestionInv, IngestionShape, PairsInOrder
<1>3. CASE NextTarget(Targets, progress) /\ UNCHANGED spent
  <2>1. Targets \in Seq(Pair) /\ spent' \in [runs : Nat, failures : Nat]
    BY <1>3, IngestionAssumption, RunsAreCounted DEF Pair
  <2>2. \A p \in Pair : progress[p].status = "none" => p \in ToSet(Targets)
    BY DEF Pair
  <2>3. /\ \A p \in Pair : progress[p].status # "in-progress"
        /\ \A p \in Pair : progress[p].status = "complete" =>
              \A s \in Required : Full(progress[p], s, ingested[p][s], cutoff)
    BY <1>2
  <2> QED BY <1>1, <1>2, <1>3, <2>1, <2>2, <2>3, NextTargetKeeps
<1>4. CASE Ended /\ Fails /\ UNCHANGED progress
  <2>1. spent' \in [runs : Nat, failures : Nat] /\ progress' = progress
    BY <1>4, RunsAreCounted
  <2>2. ingestion' = Idle /\ running' = FALSE
    BY <1>4 DEF Ended
  <2> QED BY <1>1, <1>2, <2>1, <2>2, OverKeeps
<1> QED BY <1>3, <1>4 DEF BuildTargetList

LEMMA AssessmentKeeps == ASSUME IngestionInv, QualityAssessed PROVE IngestionInv'
<1>1. ingestion.stage = "assessing" /\ UNCHANGED <<ingested, cutoff, cachedCutoff>>
  BY DEF QualityAssessed
<1>2. AtPair /\ Done(ingestion.stage) = Required
  BY <1>1 DEF AtPair, Done
<1>3. CASE NextTarget(Tail(ingestion.left), [progress EXCEPT ![Current].status = "complete"])
           /\ UNCHANGED spent
  <2>1. \A s \in Required : Full(progress[Current], s, ingested[Current][s], cutoff)
    BY <1>2 DEF IngestionInv, StreamsFull
  <2>2. spent' \in [runs : Nat, failures : Nat]
    BY <1>3, RunsAreCounted
  <2> QED BY <1>1, <1>2, <1>3, <2>1, <2>2, PairIsJudged
<1>4. CASE TargetFails /\ Fails
  <2>1. spent' \in [runs : Nat, failures : Nat]
    BY <1>4, RunsAreCounted
  <2>2. NextTarget(Tail(ingestion.left), [progress EXCEPT ![Current].status = "failed"])
    BY <1>4 DEF TargetFails
  <2> QED BY <1>1, <1>2, <2>1, <2>2, PairIsJudged
<1> QED BY <1>3, <1>4 DEF QualityAssessed

LEMMA BeginKeeps == ASSUME IngestionInv, StreamBegins PROVE IngestionInv'
<1> DEFINE c == Current
           stage == ingestion.stage
           cut == IF cachedCutoff = 0 THEN cutoff ELSE cachedCutoff
           requests == Requests(stage, ingestion.range, cut)
<1>0. /\ IngestionShape /\ CutsArePast /\ PairsInOrder /\ StreamsFull /\ running = TRUE /\ AtPair
      /\ cutoff \in 1..LastMoment /\ cachedCutoff \in 0..LastMoment /\ LastMoment \in Nat
      /\ stage \in ToSet(Streams) /\ ingestion.cut = 0 /\ UNCHANGED <<ingested, cutoff>>
      /\ stage \notin {"idle", "listing"}
  <2>1. stage \in ToSet(Streams) /\ ingestion.cut = 0 /\ UNCHANGED <<ingested, cutoff>>
    BY DEF StreamBegins
  <2>2. stage \in {"candles", "trades", "prices", "fills", "archive", "ohlcv"}
    BY <2>1 DEF ToSet, Streams
  <2>3. cutoff \in 1..LastMoment /\ cachedCutoff \in 0..LastMoment /\ LastMoment \in Nat
    BY IngestionAssumption DEF IngestionInv, IngestionShape, Moments
  <2>4. running \in BOOLEAN /\ running
    BY <2>2 DEF IngestionInv, IngestionShape
  <2> QED BY <2>1, <2>2, <2>3, <2>4 DEF IngestionInv, AtPair
<1>1. c \in Pair /\ ingestion.left # <<>>
  BY <1>0, PairUnderWay
<1>2. \/ /\ cachedCutoff' = (IF stage \in Kalshi THEN cut ELSE cachedCutoff)
         /\ ingestion' = [ingestion EXCEPT !.windows = requests, !.cut = cut]
         /\ progress' = (IF stage \in Kalshi THEN [progress EXCEPT ![c].cuts[stage] = cut]
                         ELSE progress)
         /\ UNCHANGED <<running, spent>>
      \/ TargetFails /\ Fails /\ UNCHANGED cachedCutoff
  BY DEF StreamBegins
<1>3. cut \in 1..LastMoment /\ cut <= cutoff
  BY <1>0 DEF CutsArePast
<1>4. /\ requests \in Seq(Window)
      /\ stage \in Required => Asked(requests, stage, ingestion.range, cut, cutoff)
  <2>1. ingestion.range \in SomeRange /\ ingestion.range.from < ingestion.range.to
    BY <1>0 DEF IngestionShape, CutsArePast
  <2> HIDE DEF cut
  <2> QED BY <1>0, <1>3, <2>1, StreamAsked
<1>5. CASE TargetFails /\ Fails /\ UNCHANGED cachedCutoff
  <2>1. spent' \in [runs : Nat, failures : Nat]
    BY <1>5, RunsAreCounted
  <2>2. NextTarget(Tail(ingestion.left), [progress EXCEPT ![Current].status = "failed"])
    BY <1>5 DEF TargetFails
  <2> QED BY <1>0, <1>5, <2>1, <2>2, PairIsJudged
<1>6. CASE /\ cachedCutoff' = (IF stage \in Kalshi THEN cut ELSE cachedCutoff)
           /\ ingestion' = [ingestion EXCEPT !.windows = requests, !.cut = cut]
           /\ progress' = (IF stage \in Kalshi THEN [progress EXCEPT ![c].cuts[stage] = cut]
                           ELSE progress)
           /\ UNCHANGED <<running, spent>>
  <2> HIDE DEF cut, requests
  <2>1. cachedCutoff' \in 0..LastMoment /\ cachedCutoff' <= cutoff
    BY <1>0, <1>3, <1>6 DEF CutsArePast
  <2>2. /\ ingestion'.stage = stage /\ ingestion'.windows = requests /\ ingestion'.held = ingestion.held
        /\ ingestion'.cut = cut /\ ingestion'.range = ingestion.range /\ ingestion'.left = ingestion.left
        /\ ingestion' \in [stage : Stage, left : Seq(Pair), range : SomeRange, windows : Seq(Window),
                           held : SUBSET Moments, cut : 0..LastMoment]
    <3>1. ingestion \in [stage : Stage, left : Seq(Pair), range : SomeRange, windows : Seq(Window),
                         held : SUBSET Moments, cut : 0..LastMoment]
      BY <1>0 DEF IngestionShape
    <3>2. cut \in 0..LastMoment
      BY <1>0, <1>3
    <3> QED BY <1>4, <1>6, <3>1, <3>2
  <2>3. AtPair' /\ Current' = c
    BY <1>0, <2>2 DEF AtPair, Current
  <2> HIDE DEF c
  <2>4. progress \in [Pair -> PairEntry] /\ ingested \in [Pair -> [Required -> SUBSET Moments]]
    BY <1>0 DEF IngestionShape
  <2>5. /\ progress' \in [Pair -> PairEntry]
        /\ \A p \in Pair : progress'[p].status = progress[p].status /\ progress'[p].range = progress[p].range
        /\ \A p \in Pair : p # c => progress'[p] = progress[p]
        /\ \A s \in Kalshi : s # stage => progress'[c].cuts[s] = progress[c].cuts[s]
        /\ stage \in Kalshi => progress'[c].cuts[stage] = cut
        /\ progress'[c].skipped = progress[c].skipped
    <3>1. CASE stage \notin Kalshi
      BY <1>6, <2>4, <3>1
    <3>2. CASE stage \in Kalshi
      <4> DEFINE entry == [progress[c] EXCEPT !.cuts[stage] = cut]
      <4>1. progress[c] \in PairEntry
        BY <1>1, <2>4
      <4>2. cut \in 0..LastMoment
        BY <1>0, <1>3
      <4>3. /\ entry \in PairEntry /\ entry.status = progress[c].status /\ entry.range = progress[c].range
            /\ entry.skipped = progress[c].skipped
            /\ entry.cuts[stage] = cut /\ \A s \in Kalshi : s # stage => entry.cuts[s] = progress[c].cuts[s]
        BY <3>2, <4>1, <4>2 DEF PairEntry
      <4>4. progress' = [progress EXCEPT ![c] = entry]
        BY <1>6, <3>2
      <4> HIDE DEF entry
      <4> QED BY <1>1, <2>4, <4>3, <4>4
    <3> QED BY <3>1, <3>2
  <2>6. IngestionShape'
    <3>1. running' \in BOOLEAN /\ spent' \in [runs : Nat, failures : Nat] /\ cutoff' \in Moments
      BY <1>0, <1>6 DEF IngestionShape
    <3> QED BY <1>0, <2>1, <2>2, <2>4, <2>5, <3>1 DEF IngestionShape
  <2>7. CutsArePast'
    BY <1>0, <1>3, <2>1, <2>2 DEF CutsArePast
  <2>8. running' = TRUE /\ ingestion'.stage # "idle"
    BY <1>0, <1>6, <2>2
  <2>9. PairsInOrder'
    <3>1. /\ progress[c].status = "in-progress" /\ progress[c].range = ingestion.range
          /\ \A p \in Pair : progress[p].status = "none" => p \in ToSet(Tail(ingestion.left))
          /\ \A p \in Pair : progress[p].status = "in-progress" => p = c
      BY <1>0 DEF PairsInOrder, c
    <3> QED BY <1>0, <1>1, <2>2, <2>3, <2>5, <3>1 DEF PairsInOrder
  <2>10. ToCome'
    <3>1. stage \in Required => \A i \in ingestion.range.from..ingestion.range.to :
              \/ i \in Excused(stage, ingestion.range, cut, cutoff)
              \/ \E w \in ToSet(requests) : Meant(w, i, stage, cut)
      BY <1>4 DEF Asked
    <3> QED BY <1>0, <2>2, <2>3, <2>5, <3>1 DEF ToCome
  <2>11. StreamsFull'
    <3>1. ASSUME NEW s \in Done(stage) PROVE Full(progress'[c], s, ingested[c][s], cutoff)
      <4>1. Full(progress[c], s, ingested[c][s], cutoff)
        BY <1>0, <3>1 DEF StreamsFull, c
      <4>2. s # stage
        BY <3>1 DEF Done, Required, Kalshi
      <4>3. CutFor(progress'[c], s) = CutFor(progress[c], s)
        BY <2>5, <4>2 DEF CutFor
      <4>4. progress'[c].range = progress[c].range /\ progress'[c].skipped = progress[c].skipped
        BY <1>1, <2>5
      <4> QED BY <4>1, <4>3, <4>4 DEF Full
    <3>2. ASSUME NEW p \in Pair, progress'[p].status = "complete", NEW s \in Required
          PROVE  Full(progress'[p], s, ingested[p][s], cutoff)
      <4>1. progress[c].status = "in-progress"
        BY <1>0 DEF PairsInOrder, c
      <4>2. p # c /\ progress'[p] = progress[p]
        BY <1>1, <2>5, <3>2, <4>1
      <4> QED BY <1>0, <3>2, <4>2 DEF StreamsFull
    <3> QED BY <1>0, <2>2, <2>3, <3>1, <3>2 DEF StreamsFull
  <2> QED BY <2>6, <2>7, <2>8, <2>9, <2>10, <2>11 DEF IngestionInv
<1> QED BY <1>2, <1>5, <1>6

LEMMA NothingKeeps == ASSUME IngestionInv, NothingToRequest PROVE IngestionInv'
<1> DEFINE c == Current
           stage == ingestion.stage
<1>1. /\ stage \in ToSet(Streams) /\ ingestion.cut # 0 /\ ingestion.windows = <<>> /\ StreamEnds({})
      /\ UNCHANGED <<running, progress, cutoff, cachedCutoff, spent>>
  BY DEF NothingToRequest
<1>2. AtPair
  <2>1. stage \in {"candles", "trades", "prices", "fills", "archive", "ohlcv"}
    BY <1>1 DEF ToSet, Streams
  <2> QED BY <2>1 DEF AtPair
<1>3. ASSUME stage \in Required PROVE Full(progress'[c], stage, ingested[c][stage] \union {}, cutoff)
  <2>1. ingestion.held = {} /\ ToSet(ingestion.windows) = {}
    BY <1>1 DEF IngestionInv, CutsArePast, ToSet
  <2>2. progress[c].range = ingestion.range /\ (stage \in Kalshi => progress[c].cuts[stage] = ingestion.cut)
    BY <1>1, <1>2, <1>3 DEF IngestionInv, PairsInOrder, ToCome
  <2>3. \A i \in ingestion.range.from..ingestion.range.to :
            \/ i \in ingested[c][stage] \/ i \in progress[c].skipped[stage]
            \/ i \in Excused(stage, ingestion.range, ingestion.cut, cutoff)
    BY <1>1, <1>2, <1>3, <2>1 DEF IngestionInv, ToCome
  <2>4. Excused(stage, ingestion.range, CutFor(progress[c], stage), cutoff)
            = Excused(stage, ingestion.range, ingestion.cut, cutoff)
    BY <2>2 DEF Excused, CutFor
  <2>5. progress' = progress
    BY <1>1
  <2> HIDE DEF c, stage
  <2> QED BY <2>2, <2>3, <2>4, <2>5 DEF Full
<1>4. spent' \in [runs : Nat, failures : Nat] /\ SkipsGrow
  BY <1>1, RunsAreCounted, NoneSkipped DEF IngestionInv
<1> QED BY <1>1, <1>3, <1>4, StreamEndsKeeps

LEMMA RefusalKeeps == ASSUME IngestionInv, RequestFails PROVE IngestionInv'
<1>1. /\ ingestion.stage \in ToSet(Streams) /\ UNCHANGED <<cutoff, cachedCutoff>>
      /\ spent' \in [runs : Nat, failures : Nat]
  BY RunsAreCounted DEF RequestFails
<1>2. AtPair
  <2>1. ingestion.stage \in {"candles", "trades", "prices", "fills", "archive", "ohlcv"}
    BY <1>1 DEF ToSet, Streams
  <2> QED BY <2>1 DEF AtPair
<1>3. CASE ingestion.stage \in Required
  <2>1. NextTarget(Tail(ingestion.left), [progress EXCEPT ![Current].status = "failed"])
        /\ UNCHANGED ingested
    BY <1>3 DEF RequestFails, TargetFails
  <2> QED BY <1>1, <1>2, <2>1, PairIsJudged
<1>4. CASE ingestion.stage \notin Required
  <2>1. StreamEnds({}) /\ UNCHANGED <<progress, running>>
    BY <1>4 DEF RequestFails
  <2>2. SkipsGrow
    BY <2>1, NoneSkipped DEF IngestionInv
  <2> QED BY <1>1, <1>4, <2>1, <2>2, StreamEndsKeeps
<1> QED BY <1>3, <1>4

(* The first window is answered: what it meant is there or was overlooked.  *)
LEMMA OneWindowLess ==
    ASSUME IngestionInv, AtPair, ingestion.cut # 0, ingestion.windows # <<>>,
           ingestion.stage \in Required,
           NEW i \in ingestion.range.from..ingestion.range.to
    PROVE  \/ i \in ingested[Current][ingestion.stage] \/ i \in ingestion.held
           \/ i \in progress[Current].skipped[ingestion.stage]
           \/ i \in Answer(Head(ingestion.windows))
           \/ i \in Excused(ingestion.stage, ingestion.range, ingestion.cut, cutoff)
           \/ \E w \in ToSet(Tail(ingestion.windows)) : Meant(w, i, ingestion.stage, ingestion.cut)
<1> DEFINE head == Head(ingestion.windows)
           stage == ingestion.stage
<1>1. /\ head \in Window /\ ToSet(ingestion.windows) = {head} \union ToSet(Tail(ingestion.windows))
  <2>1. ingestion.windows \in Seq(Window)
    BY DEF IngestionInv, IngestionShape
  <2> QED BY <2>1, HeadAndTail
<1>2. cutoff \in Int /\ ingestion.cut \in Int /\ ingestion.cut <= cutoff /\ i \in Int
  <2>1. ingestion.range \in SomeRange /\ ingestion.cut \in 0..LastMoment /\ cutoff \in 1..LastMoment
    BY DEF IngestionInv, IngestionShape, Moments
  <2>2. ingestion.range.from \in Nat /\ ingestion.range.to \in Nat
    BY <2>1, RangeIsTyped
  <2>3. ingestion.cut <= cutoff
    BY DEF IngestionInv, CutsArePast
  <2> QED BY <2>1, <2>2, <2>3, IngestionAssumption
<1>3. \/ i \in ingested[Current][stage] \/ i \in ingestion.held
      \/ i \in progress[Current].skipped[stage]
      \/ i \in Excused(stage, ingestion.range, ingestion.cut, cutoff)
      \/ \E w \in ToSet(ingestion.windows) : Meant(w, i, stage, ingestion.cut)
  BY DEF IngestionInv, ToCome
<1> HIDE DEF head
<1>4. CASE Meant(head, i, stage, ingestion.cut)
  <2>1. i \in Answer(head) \/ i \in Excused(stage, ingestion.range, ingestion.cut, cutoff)
    BY <1>1, <1>2, <1>4, AnswerMeets
  <2> QED BY <2>1 DEF head
<1>5. CASE \E w \in ToSet(Tail(ingestion.windows)) : Meant(w, i, stage, ingestion.cut)
  BY <1>5
<1> QED BY <1>1, <1>3, <1>4, <1>5

(* The rows of the first window are taken, and what they lack is skipped.   *)
LEMMA AnswerTakenKeeps ==
    ASSUME IngestionInv, NEW rows \in SUBSET Moments, AnswerTaken(rows), SkipsGrow,
           spent' \in [runs : Nat, failures : Nat],
           ingestion.stage \in Required => \A i \in Answer(Head(ingestion.windows)) :
              i \in rows \/ i \in progress'[Current].skipped[ingestion.stage]
    PROVE  IngestionInv'
<1> DEFINE c == Current
           stage == ingestion.stage
           rest == Tail(ingestion.windows)
           whole == stage \notin Kalshi \union {"prices"}
<1>1. /\ stage \in ToSet(Streams) /\ ingestion.cut # 0 /\ ingestion.windows # <<>>
      /\ UNCHANGED <<running, cutoff, cachedCutoff>>
  BY DEF AnswerTaken
<1>2. IF rest = <<>> THEN StreamEnds(ingestion.held \union rows)
      ELSE /\ ingestion' = [ingestion EXCEPT !.windows = rest,
                                            !.held = IF whole THEN @ \union rows ELSE @]
           /\ ingested' = (IF whole THEN ingested
                         ELSE [ingested EXCEPT ![c][stage] = @ \union rows])
  BY DEF AnswerTaken
<1>3. /\ AtPair /\ IngestionShape /\ CutsArePast /\ PairsInOrder /\ ToCome /\ StreamsFull /\ running
      /\ stage \in {"candles", "trades", "prices", "fills", "archive", "ohlcv"}
  <2>1. stage \in {"candles", "trades", "prices", "fills", "archive", "ohlcv"}
    BY <1>1 DEF ToSet, Streams
  <2> QED BY <2>1 DEF AtPair, IngestionInv
<1>4. c \in Pair /\ ingestion.left # <<>>
  BY <1>3, PairUnderWay
<1>5. rest \in Seq(Window) /\ ingestion.held \in SUBSET Moments
  <2>1. ingestion.windows \in Seq(Window) /\ ingestion.held \in SUBSET Moments
    BY <1>3 DEF IngestionShape
  <2> QED BY <1>1, <2>1, HeadAndTail
<1>6. stage \in Required => \A i \in ingestion.range.from..ingestion.range.to :
         \/ i \in ingested[c][stage] \/ i \in ingestion.held \/ i \in rows
         \/ i \in progress'[c].skipped[stage]
         \/ i \in Excused(stage, ingestion.range, ingestion.cut, cutoff)
         \/ \E w \in ToSet(rest) : Meant(w, i, stage, ingestion.cut)
  <2> SUFFICES ASSUME stage \in Required, NEW i \in ingestion.range.from..ingestion.range.to
               PROVE  \/ i \in ingested[c][stage] \/ i \in ingestion.held \/ i \in rows
                      \/ i \in progress'[c].skipped[stage]
                      \/ i \in Excused(stage, ingestion.range, ingestion.cut, cutoff)
                      \/ \E w \in ToSet(rest) : Meant(w, i, stage, ingestion.cut)
    OBVIOUS
  <2>1. progress[c].skipped[stage] \subseteq progress'[c].skipped[stage]
    BY <1>4 DEF SkipsGrow
  <2> QED BY <1>1, <1>3, <2>1, OneWindowLess
<1>7. /\ progress[c].status = "in-progress" /\ progress[c].range = ingestion.range
      /\ \A p \in Pair : progress[p].status = "none" => p \in ToSet(Tail(ingestion.left))
      /\ \A p \in Pair : progress[p].status = "in-progress" => p = c
      /\ stage \in Kalshi => progress[c].cuts[stage] = ingestion.cut
      /\ \A p \in Pair : /\ progress'[p].status = progress[p].status
                        /\ progress'[p].range = progress[p].range /\ progress'[p].cuts = progress[p].cuts
  BY <1>1, <1>3 DEF PairsInOrder, ToCome, Required, SkipsGrow
<1>8. CASE rest = <<>>
  <2>1. StreamEnds(ingestion.held \union rows)
    BY <1>2, <1>8
  <2>2. ToSet(rest) = {}
    BY <1>8 DEF ToSet
  <2>3. ASSUME stage \in Required
        PROVE  Full(progress'[c], stage, ingested[c][stage] \union (ingestion.held \union rows), cutoff)
    <3>1. Excused(stage, ingestion.range, CutFor(progress'[c], stage), cutoff)
              = Excused(stage, ingestion.range, ingestion.cut, cutoff)
      BY <1>4, <1>7 DEF Excused, CutFor
    <3>2. progress'[c].range = ingestion.range
      BY <1>4, <1>7
    <3> HIDE DEF c, stage, rest
    <3> QED BY <1>6, <2>2, <2>3, <3>1, <3>2 DEF Full
  <2>4. ingestion.held \union rows \in SUBSET Moments
    BY <1>5
  <2> QED BY <1>1, <2>1, <2>3, <2>4, StreamEndsKeeps
<1>9. CASE rest # <<>>
  <2> DEFINE held == IF whole THEN ingestion.held \union rows ELSE ingestion.held
  <2>1. /\ ingestion' = [ingestion EXCEPT !.windows = rest, !.held = held]
        /\ ingested' = (IF whole THEN ingested ELSE [ingested EXCEPT ![c][stage] = @ \union rows])
    BY <1>2, <1>9
  <2> HIDE DEF rest
  <2>2. held \in SUBSET Moments /\ ingestion.held \subseteq held /\ (whole => rows \subseteq held)
    BY <1>5
  <2> HIDE DEF held
  <2>3. /\ ingestion'.stage = stage /\ ingestion'.windows = rest /\ ingestion'.held = held
        /\ ingestion'.cut = ingestion.cut /\ ingestion'.range = ingestion.range
        /\ ingestion'.left = ingestion.left
        /\ ingestion' \in [stage : Stage, left : Seq(Pair), range : SomeRange, windows : Seq(Window),
                           held : SUBSET Moments, cut : 0..LastMoment]
    <3>1. ingestion \in [stage : Stage, left : Seq(Pair), range : SomeRange, windows : Seq(Window),
                         held : SUBSET Moments, cut : 0..LastMoment]
      BY <1>3 DEF IngestionShape
    <3> QED BY <1>5, <2>1, <2>2, <3>1
  <2>4. AtPair' /\ Current' = c
    BY <1>3, <2>3 DEF AtPair, Current
  <2> HIDE DEF c
  <2>5. /\ ingested' \in [Pair -> [Required -> SUBSET Moments]]
        /\ \A p \in Pair : \A s \in Required : ingested[p][s] \subseteq ingested'[p][s]
        /\ ~whole => rows \subseteq ingested'[c][stage]
    <3>1. ingested \in [Pair -> [Required -> SUBSET Moments]]
      BY <1>3 DEF IngestionShape
    <3>2. CASE whole
      BY <2>1, <3>1, <3>2
    <3>3. CASE ~whole
      <4> DEFINE grown == [ingested[c] EXCEPT ![stage] = @ \union rows]
      <4>0. stage \in Required
        BY <3>3 DEF Required
      <4>1. /\ grown \in [Required -> SUBSET Moments] /\ grown[stage] = ingested[c][stage] \union rows
            /\ \A s \in Required : ingested[c][s] \subseteq grown[s]
        BY <1>4, <1>5, <3>1, <4>0
      <4>2. ingested' = [ingested EXCEPT ![c] = grown]
        BY <2>1, <3>3
      <4> HIDE DEF grown
      <4> QED BY <1>4, <3>1, <4>1, <4>2
    <3> QED BY <3>2, <3>3
  <2>6. IngestionShape'
    <3>1. progress' \in [Pair -> PairEntry]
      BY DEF SkipsGrow
    <3> QED BY <1>1, <1>3, <2>3, <2>5, <3>1 DEF IngestionShape
  <2>7. CutsArePast'
    BY <1>1, <1>3, <1>9, <2>3 DEF CutsArePast
  <2>8. running' /\ ingestion'.stage # "idle"
    BY <1>1, <1>3, <2>3
  <2>9. PairsInOrder'
    BY <1>1, <1>3, <1>4, <1>7, <2>3, <2>4 DEF PairsInOrder
  <2>10. ToCome'
    <3>1. ASSUME stage \in Required, NEW i \in ingestion.range.from..ingestion.range.to
          PROVE  \/ i \in ingested'[c][stage] \/ i \in held
                 \/ i \in progress'[c].skipped[stage]
                 \/ i \in Excused(stage, ingestion.range, ingestion.cut, cutoff)
                 \/ \E w \in ToSet(rest) : Meant(w, i, stage, ingestion.cut)
      <4>1. i \in ingested[c][stage] => i \in ingested'[c][stage]
        BY <1>4, <2>5, <3>1
      <4>2. i \in rows => i \in held \/ i \in ingested'[c][stage]
        BY <2>2, <2>5
      <4>3. i \in ingestion.held => i \in held
        BY <2>2
      <4> HIDE DEF stage, whole
      <4> QED BY <1>6, <3>1, <4>1, <4>2, <4>3
    <3> QED BY <1>1, <1>4, <1>7, <2>3, <2>4, <3>1 DEF ToCome
  <2>11. ASSUME NEW p \in Pair, NEW s \in Required, Full(progress[p], s, ingested[p][s], cutoff)
         PROVE  Full(progress'[p], s, ingested'[p][s], cutoff)
    <3>1. ingested[p][s] \subseteq ingested'[p][s]
      BY <2>5
    <3> QED BY <1>3, <2>11, <3>1, StillFull
  <2>12. StreamsFull'
    <3>1. ASSUME NEW s \in Done(stage) PROVE Full(progress'[c], s, ingested'[c][s], cutoff)
      <4>1. Full(progress[c], s, ingested[c][s], cutoff)
        BY <1>3, <3>1 DEF StreamsFull, c
      <4>2. s \in Required
        BY <3>1 DEF Done, Required, Kalshi
      <4> QED BY <1>4, <2>11, <4>1, <4>2
    <3>2. ASSUME NEW p \in Pair, progress'[p].status = "complete", NEW s \in Required
          PROVE  Full(progress'[p], s, ingested'[p][s], cutoff)
      <4>1. progress[p].status = "complete"
        BY <1>7, <3>2
      <4> QED BY <1>3, <2>11, <4>1 DEF StreamsFull
    <3> QED BY <1>1, <2>3, <2>4, <3>1, <3>2 DEF StreamsFull
  <2> QED BY <2>6, <2>7, <2>8, <2>9, <2>10, <2>12 DEF IngestionInv
<1> QED BY <1>8, <1>9

LEMMA AnswerKeeps == ASSUME IngestionInv, RequestAnswered PROVE IngestionInv'
<1>1. AnswerTaken(Answer(Head(ingestion.windows))) /\ UNCHANGED <<progress, spent>>
  BY DEF RequestAnswered
<1>2. Answer(Head(ingestion.windows)) \in SUBSET Moments
  <2>1. ingestion.windows \in Seq(Window) /\ ingestion.windows # <<>>
    BY <1>1 DEF AnswerTaken, IngestionInv, IngestionShape
  <2> QED BY <2>1, HeadAndTail, AnswerIsStored
<1>3. SkipsGrow /\ spent' \in [runs : Nat, failures : Nat]
  BY <1>1, NoneSkipped, RunsAreCounted DEF IngestionInv
<1> QED BY <1>1, <1>2, <1>3, AnswerTakenKeeps

(* The answer says nothing of its window.                                   *)
LEMMA SilenceKeeps == ASSUME IngestionInv, MarketMissing PROVE IngestionInv'
<1> DEFINE c == Current
           stage == ingestion.stage
           request == Head(ingestion.windows)
<1>1. /\ stage \in Required /\ AnswerTaken({}) /\ Fails
      /\ progress' = [progress EXCEPT ![c].skipped[stage] = @ \union Answer(request)]
  BY DEF MarketMissing
<1>2. /\ AtPair /\ request \in Window /\ progress \in [Pair -> PairEntry]
  <2>1. stage \in {"candles", "trades", "prices", "fills"}
    BY <1>1 DEF Required, Kalshi
  <2>2. ingestion.windows \in Seq(Window) /\ ingestion.windows # <<>>
    BY <1>1 DEF AnswerTaken, IngestionInv, IngestionShape
  <2> QED BY <2>1, <2>2, HeadAndTail DEF AtPair, IngestionInv, IngestionShape
<1>3. c \in Pair
  BY <1>2, PairUnderWay
<1> DEFINE silent == Answer(request)
           entry == [progress[c] EXCEPT !.skipped[stage] = @ \union silent]
<1>4. silent \in SUBSET Int
  BY <1>2 DEF Window, Answer
<1> HIDE DEF c, stage, silent
<1>5. /\ entry \in PairEntry /\ entry.status = progress[c].status /\ entry.range = progress[c].range
      /\ entry.cuts = progress[c].cuts /\ silent \subseteq entry.skipped[stage]
      /\ \A s \in Required : progress[c].skipped[s] \subseteq entry.skipped[s]
  <2>1. progress[c] \in PairEntry
    BY <1>2, <1>3
  <2> QED BY <1>1, <1>4, <2>1 DEF PairEntry
<1>6. progress' = [progress EXCEPT ![c] = entry]
  BY <1>1 DEF silent
<1> HIDE DEF entry
<1>7. SkipsGrow /\ progress'[c] = entry
  BY <1>2, <1>3, <1>5, <1>6 DEF SkipsGrow
<1>8. \A i \in Answer(request) : i \in progress'[c].skipped[stage]
  BY <1>5, <1>7 DEF silent
<1>9. spent' \in [runs : Nat, failures : Nat]
  BY <1>1, RunsAreCounted
<1> QED BY <1>1, <1>7, <1>8, <1>9, AnswerTakenKeeps DEF c, stage

LEMMA CutoffKeeps == ASSUME IngestionInv, CutoffMoves PROVE IngestionInv'
<1>1. /\ cutoff < LastMoment /\ cutoff' = cutoff + 1
      /\ UNCHANGED <<ingestion, running, progress, ingested, cachedCutoff, spent>>
  BY DEF CutoffMoves
<1>2. /\ IngestionShape /\ CutsArePast /\ PairsInOrder /\ ToCome /\ StreamsFull
      /\ cutoff \in 1..LastMoment /\ LastMoment \in Nat /\ ingestion.cut \in 0..LastMoment
      /\ cachedCutoff \in 0..LastMoment
  BY IngestionAssumption DEF IngestionInv, IngestionShape, Moments
<1>3. IngestionShape'
  BY <1>1, <1>2 DEF IngestionShape, Moments
<1>4. CutsArePast'
  BY <1>1, <1>2 DEF CutsArePast
<1>5. PairsInOrder'
  BY <1>1, <1>2 DEF PairsInOrder, AtPair, Current
<1>6. ToCome'
  <2>1. ASSUME NEW s, NEW i, i \in Excused(s, ingestion.range, ingestion.cut, cutoff)
        PROVE  i \in Excused(s, ingestion.range, ingestion.cut, cutoff')
    <3>1. ingestion.cut..(cutoff - 1) \subseteq ingestion.cut..(cutoff' - 1)
      BY <1>1, <1>2
    <3> QED BY <2>1, <3>1 DEF Excused
  <2> QED BY <1>1, <1>2, <2>1 DEF ToCome, AtPair, Current
<1>7. ASSUME NEW p \in Pair, NEW s \in Required, Full(progress[p], s, ingested[p][s], cutoff)
      PROVE  Full(progress[p], s, ingested[p][s], cutoff')
  <2>1. progress[p] \in PairEntry /\ cutoff \in Int /\ cutoff' \in Int /\ cutoff <= cutoff'
    BY <1>1, <1>2 DEF IngestionShape
  <2> QED BY <1>7, <2>1, FullGrows
<1>8. StreamsFull'
  <2>1. ASSUME AtPair, NEW s \in Done(ingestion.stage)
        PROVE  Full(progress[Current], s, ingested[Current][s], cutoff')
    <3>1. Current \in Pair /\ s \in Required
      BY <2>1, PairUnderWay DEF Done, Required, Kalshi
    <3> QED BY <1>2, <1>7, <2>1, <3>1 DEF StreamsFull
  <2>2. ASSUME NEW p \in Pair, progress[p].status = "complete", NEW s \in Required
        PROVE  Full(progress[p], s, ingested[p][s], cutoff')
    BY <1>2, <1>7, <2>2 DEF StreamsFull
  <2> QED BY <1>1, <2>1, <2>2 DEF StreamsFull, AtPair, Current
<1> QED BY <1>1, <1>3, <1>4, <1>5, <1>6, <1>8 DEF IngestionInv

LEMMA ExpiryKeeps == ASSUME IngestionInv, CutoffExpires PROVE IngestionInv'
<1>1. cachedCutoff' = 0 /\ UNCHANGED <<ingestion, running, progress, ingested, cutoff, spent>>
  BY DEF CutoffExpires
<1>2. /\ IngestionShape /\ CutsArePast /\ PairsInOrder /\ ToCome /\ StreamsFull
      /\ cutoff \in 1..LastMoment /\ LastMoment \in Nat
  BY IngestionAssumption DEF IngestionInv, IngestionShape, Moments
<1>3. IngestionShape' /\ CutsArePast'
  BY <1>1, <1>2 DEF IngestionShape, CutsArePast
<1>4. PairsInOrder' /\ ToCome' /\ StreamsFull'
  BY <1>1, <1>2 DEF PairsInOrder, ToCome, StreamsFull, AtPair, Current
<1> QED BY <1>1, <1>3, <1>4 DEF IngestionInv

LEMMA IngestionStutters == ASSUME IngestionInv, UNCHANGED ingestionVars PROVE IngestionInv'
<1>1. UNCHANGED <<ingestion, running, progress, ingested, cutoff, cachedCutoff, spent>>
  BY DEF ingestionVars
<1> QED BY <1>1 DEF IngestionInv, IngestionShape, CutsArePast, PairsInOrder, ToCome, StreamsFull,
                    AtPair, Current

LEMMA IngestionSteps == ASSUME IngestionInv, [IngestionNext]_ingestionVars PROVE IngestionInv'
BY TriggerKeeps, ListKeeps, BeginKeeps, AnswerKeeps, SilenceKeeps, NothingKeeps, RefusalKeeps,
   AssessmentKeeps, CutoffKeeps, ExpiryKeeps, CrashKeeps, IngestionStutters DEF IngestionNext

LEMMA WholeFromFull == ASSUME IngestionInv PROVE IngestionSound
<1>1. /\ IngestionShape /\ PairsInOrder /\ StreamsFull /\ (running <=> ingestion.stage # "idle")
  BY DEF IngestionInv
<1>2. IngestionTypeOK
  <2>1. ingestion.stage \in {"idle", "listing", "assessing"} \union ToSet(Streams)
    BY <1>1 DEF IngestionShape, Stage
  <2>2. ASSUME NEW p \in Pair
        PROVE  /\ progress[p].status \in {"none", "in-progress", "complete", "failed"}
               /\ \A s \in Required : ingested[p][s] \subseteq Moments
    BY <1>1 DEF IngestionShape, PairEntry
  <2> QED BY <1>1, <2>1, <2>2 DEF IngestionShape, IngestionTypeOK, Pair
<1>3. RunsSettle
  <2>1. \A p \in Pair : progress[p].status = "in-progress" => running /\ ingestion.left # <<>> /\ p = Current
    BY <1>1 DEF PairsInOrder, AtPair
  <2>2. running \/ \A p, q \in Pair : (progress[p].status = "none") = (progress[q].status = "none")
    BY <1>1 DEF PairsInOrder
  <2> QED BY <1>1, <2>1, <2>2 DEF RunsSettle, Pair
<1>4. IngestedIsWhole
  <2> SUFFICES ASSUME NEW p \in Pair, progress[p].status = "complete", NEW s \in Required
               PROVE  (progress[p].range.from..progress[p].range.to)
                      \ ((IF s \in Kalshi THEN Overlooked(s, progress[p].range, progress[p].cuts[s])
                          ELSE {}) \union progress[p].skipped[s])
                          \subseteq ingested[p][s]
    BY DEF IngestedIsWhole, Pair
  <2>1. Full(progress[p], s, ingested[p][s], cutoff)
    BY <1>1 DEF StreamsFull
  <2> QED BY <2>1 DEF Full, Excused, CutFor, Overlooked
<1> QED BY <1>2, <1>3, <1>4 DEF IngestionSound

(* However an operator's run over the past is cut into streams, places,     *)
(* chunks and pages, whatever request fails and wherever the process dies:  *)
(* a complete pair has every row of its range but those that the venue's    *)
(* cutoff hid or that an answer was silent about, and a run that ends has   *)
(* judged every pair or none (IngestionOrchestratorService).                *)
THEOREM IngestionAlwaysSound == IngestionSpec => []IngestionSound
<1>1. IngestionInv /\ [IngestionNext]_ingestionVars => IngestionInv'
  BY IngestionSteps
<1>2. IngestionInv => IngestionSound
  BY WholeFromFull
<1> QED BY <1>1, <1>2, IngestionStarts, PTL DEF IngestionSpec

-----------------------------------------------------------------------------
(* The validation of the matches.                                           *)

(* The lists a validation compares. *)
Comparable(ours, pairs) ==
    /\ ours \in Seq([pm : Nat \ {0}, k : Nat \ {0}])
    /\ pairs \in Seq(ToSet(pairs))
    /\ \A pair \in ToSet(pairs) : \/ pair.source = "oddspipe" /\ pair.pm = 0 /\ pair.k = 0
                                 \/ pair.source = "predexon"

LEMMA PlacesListed ==
    ASSUME NEW S, NEW list \in Seq(S)
    PROVE  /\ DOMAIN list = 1 .. Len(list) /\ Len(list) \in Nat
           /\ ToSet(list) = {list[i] : i \in 1 .. Len(list)}
           /\ \A i \in DOMAIN list : list[i] \in S
BY DEF ToSet

LEMMA LastIsListed ==
    ASSUME NEW ours, ours \in Seq([pm : Nat \ {0}, k : Nat \ {0}]), NEW field, NEW id
    PROVE  LastWith(ours, field, id) = NoMatch \/ \E i \in DOMAIN ours : LastWith(ours, field, id) = <<ours[i]>>
<1> PICK places : places = {i \in DOMAIN ours : ours[i][field] = id}
  OBVIOUS
<1>1. CASE id = 0 \/ places = {}
  BY <1>1 DEF LastWith
<1>2. CASE ~(id = 0 \/ places = {})
  <2>1. Max(places) \in places
    <3>1. DOMAIN ours = 1 .. Len(ours) /\ Len(ours) \in Nat
      BY PlacesListed
    <3>2. places \in SUBSET (1 .. Len(ours)) /\ places # {}
      BY <1>2, <3>1
    <3> QED BY <3>1, <3>2, MaxOfSet
  <2>2. LastWith(ours, field, id) = <<ours[Max(places)]>>
    BY <1>2 DEF LastWith
  <2> QED BY <2>1, <2>2
<1> QED BY <1>1, <1>2

LEMMA ContractsNamed ==
    ASSUME NEW ours, ours \in Seq([pm : Nat \ {0}, k : Nat \ {0}]), NEW i \in DOMAIN ours
    PROVE  \E j \in DOMAIN ours : LastWith(ours, "pm", ours[i].pm) = <<ours[j]>>
<1>1. ours[i].pm # 0
  <2>1. ours[i] \in [pm : Nat \ {0}, k : Nat \ {0}]
    BY PlacesListed
  <2> QED BY <2>1
<1>2. LastWith(ours, "pm", ours[i].pm) # NoMatch
  BY <1>1 DEF LastWith, NoMatch
<1> QED BY <1>2, LastIsListed

(* A pair is about no match or about one of the list. *)
LEMMA MatchIsListed ==
    ASSUME NEW ours, ours \in Seq([pm : Nat \ {0}, k : Nat \ {0}]), NEW pair
    PROVE  \/ MatchExternalPair(pair, ours) = NoMatch
           \/ \E i \in DOMAIN ours : MatchExternalPair(pair, ours) = <<ours[i]>>
<1>1. FuzzyTitleMatch(pair, ours) = NoMatch \/ \E i \in DOMAIN ours : FuzzyTitleMatch(pair, ours) = <<ours[i]>>
  <2> PICK score : score = [i \in DOMAIN ours |-> CombinedTitles(pair, LastWith(ours, "pm", ours[i].pm)[1])]
    OBVIOUS
  <2> PICK good : good = {i \in DOMAIN ours : /\ \A j \in 1..(i - 1) : ours[j].pm # ours[i].pm
                                    /\ score[i] >= 2 * MatchThreshold /\ score[i] > 0}
    OBVIOUS
  <2> PICK best : best = {i \in good : \A j \in good : score[j] < score[i] \/ (score[j] = score[i] /\ i <= j)}
    OBVIOUS
  <2>1. FuzzyTitleMatch(pair, ours) =
          IF best = {} THEN NoMatch ELSE <<LastWith(ours, "pm", ours[CHOOSE i \in best : TRUE].pm)[1]>>
    BY DEF FuzzyTitleMatch
  <2>2. best # {} => (CHOOSE i \in best : TRUE) \in DOMAIN ours
    OBVIOUS
  <2>3. ASSUME NEW i \in DOMAIN ours
        PROVE  \E j \in DOMAIN ours : <<LastWith(ours, "pm", ours[i].pm)[1]>> = <<ours[j]>>
    BY ContractsNamed
  <2> QED BY <2>1, <2>2, <2>3, ZenonT(30)
<1>2. /\ LastWith(ours, "pm", pair.pm) = NoMatch \/ \E i \in DOMAIN ours : LastWith(ours, "pm", pair.pm) = <<ours[i]>>
      /\ LastWith(ours, "k", pair.k) = NoMatch \/ \E i \in DOMAIN ours : LastWith(ours, "k", pair.k) = <<ours[i]>>
  BY LastIsListed
<1> QED BY <1>1, <1>2 DEF MatchExternalPair

(* A key of ours names one match; a pair has such a key when it is about    *)
(* that match.                                                              *)
LEMMA OurKeyNames ==
    ASSUME NEW a \in [pm : Nat \ {0}, k : Nat \ {0}], NEW b \in [pm : Nat \ {0}, k : Nat \ {0}],
           OurKey(a) = OurKey(b)
    PROVE  a = b
<1>1. OurKey(a).pm = a.pm /\ OurKey(a).k = a.k /\ OurKey(b).pm = b.pm /\ OurKey(b).k = b.k
  BY DEF OurKey
<1> QED BY <1>1

LEMMA KeyOfPair ==
    ASSUME NEW ours, ours \in Seq([pm : Nat \ {0}, k : Nat \ {0}]), NEW pair
    PROVE  \/ /\ MatchExternalPair(pair, ours) = NoMatch
              /\ KeyOf(pair, ours) = ExternalKey(pair)
           \/ \E our \in ToSet(ours) : /\ MatchExternalPair(pair, ours) = <<our>>
                                      /\ KeyOf(pair, ours) = OurKey(our)
<1>1. CASE MatchExternalPair(pair, ours) = NoMatch
  BY <1>1 DEF KeyOf
<1>2. CASE MatchExternalPair(pair, ours) # NoMatch
  <2>1. PICK i \in DOMAIN ours : MatchExternalPair(pair, ours) = <<ours[i]>>
    BY <1>2, MatchIsListed
  <2>2. ours[i] \in ToSet(ours)
    BY PlacesListed
  <2>3. KeyOf(pair, ours) = OurKey(ours[i])
    BY <1>2, <2>1 DEF KeyOf
  <2> QED BY <2>1, <2>2, <2>3
<1> QED BY <1>1, <1>2

LEMMA KindsOfKeys ==
    /\ \A our : OurKey(our).of = "our"
    /\ \A pair : ExternalKey(pair).of = "external"
    /\ \A buckets, d : ConflictKey(buckets, d).of = "conflict"
BY DEF OurKey, ExternalKey, ConflictKey

(* The newest pair of a source about a contract. *)
LEMMA NewestListed ==
    ASSUME NEW ours, NEW pairs, Comparable(ours, pairs), NEW key, NEW source
    PROVE  LET places == {i \in PlacesAbout(ours, pairs, key) : pairs[i].source = source} IN
           /\ places = {} <=> NewestAbout(ours, pairs, key, source) = NoMatch
           /\ places # {} => \E m \in places :
                /\ NewestAbout(ours, pairs, key, source) = <<pairs[m]>>
                /\ \A i \in places : i <= m
<1> PICK places : places = {i \in PlacesAbout(ours, pairs, key) : pairs[i].source = source}
  OBVIOUS
<1>1. DOMAIN pairs = 1 .. Len(pairs) /\ Len(pairs) \in Nat
  BY PlacesListed DEF Comparable
<1>2. places \in SUBSET (1 .. Len(pairs))
  BY <1>1 DEF PlacesAbout
<1>3. NewestAbout(ours, pairs, key, source) = IF places = {} THEN NoMatch ELSE <<pairs[Max(places)]>>
  BY DEF NewestAbout
<1>4. places # {} => Max(places) \in places /\ \A i \in places : Max(places) >= i
  BY <1>1, <1>2, MaxOfSet
<1>5. places # {} => \A i \in places : i <= Max(places)
  BY <1>2, <1>4
<1>6. places # {} => NewestAbout(ours, pairs, key, source) # NoMatch
  BY <1>3 DEF NoMatch
<1>7. places # {} => \E m \in places : /\ NewestAbout(ours, pairs, key, source) = <<pairs[m]>>
                                      /\ \A i \in places : i <= m
  BY <1>3, <1>4, <1>5
<1> QED BY <1>3, <1>6, <1>7

(* A bucket of the comparison, and the key it is kept under. *)
BucketFor(ours, pairs, key, b) ==
    /\ b = [our |-> b.our, oddspipe |-> b.oddspipe, predexon |-> b.predexon, met |-> b.met,
            disputed |-> b.disputed]
    /\ b.oddspipe = NewestAbout(ours, pairs, key, "oddspipe")
    /\ b.predexon = NewestAbout(ours, pairs, key, "predexon")
    /\ key.of = "our" => \E our \in ToSet(ours) : key = OurKey(our) /\ b.our = <<our>>
    /\ key.of # "our" => key.of = "external" /\ b.our = NoMatch
    /\ PlacesAbout(ours, pairs, key) # {} => b.met \in PlacesAbout(ours, pairs, key)
    /\ b.disputed \in BOOLEAN
    /\ b.disputed => b.our = NoMatch /\ b.oddspipe # NoMatch /\ b.predexon # NoMatch

KeysOf(ours, pairs) == {OurKey(ours[i]) : i \in DOMAIN ours} \cup {KeyOf(pairs[i], ours) : i \in DOMAIN pairs}

LEMMA BucketsGathered ==
    ASSUME NEW ours, NEW pairs, Comparable(ours, pairs)
    PROVE  /\ DOMAIN AggregatePairs(ours, pairs) = KeysOf(ours, pairs)
           /\ \A key \in KeysOf(ours, pairs) : BucketFor(ours, pairs, key, AggregatePairs(ours, pairs)[key])
<1> PICK seed : seed = {OurKey(ours[i]) : i \in DOMAIN ours}
  OBVIOUS
<1>1. AggregatePairs(ours, pairs) =
        [key \in KeysOf(ours, pairs) |->
            [our |-> IF key \in seed THEN <<CHOOSE our \in ToSet(ours) : OurKey(our) = key>> ELSE NoMatch,
             oddspipe |-> NewestAbout(ours, pairs, key, "oddspipe"),
             predexon |-> NewestAbout(ours, pairs, key, "predexon"),
             met |-> IF PlacesAbout(ours, pairs, key) = {} THEN 0 ELSE Min(PlacesAbout(ours, pairs, key)),
             disputed |-> FALSE]]
  BY DEF AggregatePairs, KeysOf
<1>2. ASSUME NEW key \in KeysOf(ours, pairs)
      PROVE  BucketFor(ours, pairs, key, AggregatePairs(ours, pairs)[key])
  <2> PICK b : b = AggregatePairs(ours, pairs)[key]
    OBVIOUS
  <2>1. b = [our |-> IF key \in seed THEN <<CHOOSE our \in ToSet(ours) : OurKey(our) = key>> ELSE NoMatch,
             oddspipe |-> NewestAbout(ours, pairs, key, "oddspipe"),
             predexon |-> NewestAbout(ours, pairs, key, "predexon"),
             met |-> IF PlacesAbout(ours, pairs, key) = {} THEN 0 ELSE Min(PlacesAbout(ours, pairs, key)),
             disputed |-> FALSE]
    BY <1>1
  <2>2. /\ b.our = IF key \in seed THEN <<CHOOSE our \in ToSet(ours) : OurKey(our) = key>> ELSE NoMatch
        /\ b.oddspipe = NewestAbout(ours, pairs, key, "oddspipe")
        /\ b.predexon = NewestAbout(ours, pairs, key, "predexon")
        /\ b.met = IF PlacesAbout(ours, pairs, key) = {} THEN 0 ELSE Min(PlacesAbout(ours, pairs, key))
        /\ b.disputed = FALSE
    BY <2>1
  <2>3. b = [our |-> b.our, oddspipe |-> b.oddspipe, predexon |-> b.predexon, met |-> b.met,
             disputed |-> b.disputed]
    BY <2>1, <2>2
  <2>4. key \in seed <=> key.of = "our"
    <3>1. key \in seed => key.of = "our"
      BY KindsOfKeys
    <3>2. ASSUME key.of = "our", key \notin seed PROVE FALSE
      <4>1. PICK i \in DOMAIN pairs : key = KeyOf(pairs[i], ours)
        BY <3>2 DEF KeysOf
      <4>2. PICK our \in ToSet(ours) : key = OurKey(our)
        BY <3>2, <4>1, KeyOfPair, KindsOfKeys DEF Comparable
      <4>3. our \in {ours[j] : j \in DOMAIN ours}
        BY <4>2 DEF ToSet
      <4> QED BY <3>2, <4>2, <4>3
    <3> QED BY <3>1, <3>2
  <2>5. key.of = "our" => \E our \in ToSet(ours) : key = OurKey(our) /\ b.our = <<our>>
    <3> SUFFICES ASSUME key \in seed
                 PROVE  \E our \in ToSet(ours) : key = OurKey(our) /\ b.our = <<our>>
      BY <2>4
    <3>1. \E our \in ToSet(ours) : OurKey(our) = key
      BY DEF ToSet
    <3> PICK our : our = CHOOSE o \in ToSet(ours) : OurKey(o) = key
      OBVIOUS
    <3>2. our \in ToSet(ours) /\ OurKey(our) = key
      BY <3>1
    <3>3. b.our = <<our>>
      BY <2>2
    <3> QED BY <3>2, <3>3
  <2>6. key.of # "our" => key.of = "external" /\ b.our = NoMatch
    <3> SUFFICES ASSUME key \notin seed PROVE key.of = "external" /\ b.our = NoMatch
      BY <2>4
    <3>1. PICK i \in DOMAIN pairs : key = KeyOf(pairs[i], ours)
      BY DEF KeysOf
    <3>2. key.of = "external"
      BY <2>4, <3>1, KeyOfPair, KindsOfKeys DEF Comparable
    <3> QED BY <2>2, <3>2
  <2>7. PlacesAbout(ours, pairs, key) # {} => b.met \in PlacesAbout(ours, pairs, key)
    <3>1. DOMAIN pairs = 1 .. Len(pairs) /\ Len(pairs) \in Nat
      BY PlacesListed DEF Comparable
    <3>2. PlacesAbout(ours, pairs, key) \in SUBSET Nat
      BY <3>1 DEF PlacesAbout
    <3> QED BY <2>2, <3>2, LeastOf
  <2> QED BY <2>2, <2>3, <2>5, <2>6, <2>7 DEF BucketFor
<1> QED BY <1>1, <1>2

LEMMA BucketsDisputed ==
    ASSUME NEW ours, NEW pairs, Comparable(ours, pairs), NEW B, DOMAIN B = KeysOf(ours, pairs),
           \A key \in DOMAIN B : BucketFor(ours, pairs, key, B[key])
    PROVE  /\ DOMAIN DisputedInside(B) = KeysOf(ours, pairs)
           /\ \A key \in DOMAIN B : BucketFor(ours, pairs, key, DisputedInside(B)[key])
<1>1. DOMAIN DisputedInside(B) = KeysOf(ours, pairs)
  BY DEF DisputedInside
<1>2. ASSUME NEW key \in DOMAIN B PROVE BucketFor(ours, pairs, key, DisputedInside(B)[key])
  <2> PICK b : b = B[key]
    OBVIOUS
  <2>1. BucketFor(ours, pairs, key, b)
    OBVIOUS
  <2>2. \/ DisputedInside(B)[key] = b
        \/ /\ b.our = NoMatch /\ b.oddspipe # NoMatch /\ b.predexon # NoMatch
           /\ DisputedInside(B)[key] = [b EXCEPT !.disputed = TRUE]
    BY DEF DisputedInside
  <2>3. CASE /\ b.our = NoMatch /\ b.oddspipe # NoMatch /\ b.predexon # NoMatch
             /\ DisputedInside(B)[key] = [b EXCEPT !.disputed = TRUE]
    <3> PICK c : c = DisputedInside(B)[key]
      OBVIOUS
    <3>1. b = [our |-> b.our, oddspipe |-> b.oddspipe, predexon |-> b.predexon, met |-> b.met,
               disputed |-> b.disputed]
      BY <2>1 DEF BucketFor
    <3>2. c = [our |-> b.our, oddspipe |-> b.oddspipe, predexon |-> b.predexon, met |-> b.met,
               disputed |-> TRUE]
      BY <2>3, <3>1
    <3>3. c.our = b.our /\ c.oddspipe = b.oddspipe /\ c.predexon = b.predexon /\ c.met = b.met /\ c.disputed = TRUE
      BY <3>2
    <3>4. c = [our |-> c.our, oddspipe |-> c.oddspipe, predexon |-> c.predexon, met |-> c.met,
               disputed |-> c.disputed]
      BY <3>2, <3>3
    <3> QED BY <2>1, <2>3, <3>3, <3>4 DEF BucketFor
  <2> QED BY <2>1, <2>2, <2>3
<1> QED BY <1>1, <1>2

(* The buckets of a comparison, before those of two sources are compared. *)
Gathered(ours, pairs, B) ==
    DOMAIN B = KeysOf(ours, pairs) /\ \A key \in DOMAIN B : BucketFor(ours, pairs, key, B[key])

LEMMA OpposedSides ==
    ASSUME NEW B, NEW d \in Opposed(B)
    PROVE  /\ d = <<d[1], d[2]>> /\ d[1] \in DOMAIN B /\ d[2] \in DOMAIN B
           /\ B[d[1]].our = NoMatch /\ B[d[1]].oddspipe # NoMatch /\ B[d[1]].predexon = NoMatch
           /\ B[d[2]].our = NoMatch /\ B[d[2]].predexon # NoMatch /\ B[d[2]].oddspipe = NoMatch
           /\ B[d[1]].oddspipe[1].pmTitle = B[d[2]].predexon[1].pmTitle
<1>1. /\ d \in LastLone(B, "oddspipe", "predexon") \X LastLone(B, "predexon", "oddspipe")
      /\ B[d[1]].oddspipe[1].pmTitle = B[d[2]].predexon[1].pmTitle
  BY DEF Opposed
<1>2. d = <<d[1], d[2]>> /\ d[1] \in Lone(B, "oddspipe", "predexon") /\ d[2] \in Lone(B, "predexon", "oddspipe")
  BY <1>1 DEF LastLone
<1> QED BY <1>1, <1>2 DEF Lone, OfSource

(* The last of a title is one. *)
LEMMA LastIsOne ==
    ASSUME NEW ours, NEW pairs, Comparable(ours, pairs), NEW B, Gathered(ours, pairs, B),
           NEW source \in {"oddspipe", "predexon"}, NEW other,
           NEW x \in LastLone(B, source, other), NEW y \in LastLone(B, source, other),
           OfSource(B[x], source)[1].pmTitle = OfSource(B[y], source)[1].pmTitle
    PROVE  x = y
<1>1. x \in Lone(B, source, other) /\ y \in Lone(B, source, other)
  BY DEF LastLone
<1>2. B[x].met <= B[y].met /\ B[y].met <= B[x].met
  BY <1>1 DEF LastLone
<1>3. ASSUME NEW key \in Lone(B, source, other)
      PROVE  B[key].met \in PlacesAbout(ours, pairs, key)
  <2>1. key \in DOMAIN B /\ OfSource(B[key], source) # NoMatch
    BY <1>3 DEF Lone
  <2>2. BucketFor(ours, pairs, key, B[key])
    BY <2>1 DEF Gathered
  <2>3. NewestAbout(ours, pairs, key, source) # NoMatch
    BY <2>1, <2>2 DEF BucketFor, OfSource
  <2>4. PlacesAbout(ours, pairs, key) # {}
    <3>1. {i \in PlacesAbout(ours, pairs, key) : pairs[i].source = source} # {}
      BY <2>3, NewestListed
    <3> QED BY <3>1
  <2> QED BY <2>2, <2>4 DEF BucketFor
<1>4. B[x].met \in PlacesAbout(ours, pairs, x) /\ B[y].met \in PlacesAbout(ours, pairs, y)
  BY <1>1, <1>3
<1>5. B[x].met \in Nat /\ B[y].met \in Nat
  <2>1. DOMAIN pairs = 1 .. Len(pairs) /\ Len(pairs) \in Nat
    BY PlacesListed DEF Comparable
  <2> QED BY <1>4, <2>1 DEF PlacesAbout
<1>6. B[x].met = B[y].met
  BY <1>2, <1>5
<1> QED BY <1>4, <1>6 DEF PlacesAbout

LEMMA OpposedByTitle ==
    ASSUME NEW ours, NEW pairs, Comparable(ours, pairs), NEW B, Gathered(ours, pairs, B),
           NEW d \in Opposed(B), NEW e \in Opposed(B), ConflictKey(B, d) = ConflictKey(B, e)
    PROVE  d = e
<1>1. B[d[1]].oddspipe[1].pmTitle = B[e[1]].oddspipe[1].pmTitle
  BY DEF ConflictKey
<1>2. B[d[2]].predexon[1].pmTitle = B[e[2]].predexon[1].pmTitle
  BY <1>1, OpposedSides
<1>3. /\ d[1] \in LastLone(B, "oddspipe", "predexon") /\ e[1] \in LastLone(B, "oddspipe", "predexon")
      /\ d[2] \in LastLone(B, "predexon", "oddspipe") /\ e[2] \in LastLone(B, "predexon", "oddspipe")
  BY DEF Opposed
<1>4. d[1] = e[1]
  <2>1. OfSource(B[d[1]], "oddspipe")[1].pmTitle = OfSource(B[e[1]], "oddspipe")[1].pmTitle
    BY <1>1 DEF OfSource
  <2> QED BY <1>3, <2>1, LastIsOne
<1>5. d[2] = e[2]
  <2>1. OfSource(B[d[2]], "predexon")[1].pmTitle = OfSource(B[e[2]], "predexon")[1].pmTitle
    BY <1>2 DEF OfSource
  <2> QED BY <1>3, <2>1, LastIsOne
<1> QED BY <1>4, <1>5, OpposedSides

MergedFrom(B, d) == [B[d[1]] EXCEPT !.predexon = B[d[2]].predexon, !.disputed = TRUE]

LEMMA BucketsMerged ==
    ASSUME NEW ours, NEW pairs, Comparable(ours, pairs), NEW B, Gathered(ours, pairs, B)
    PROVE  /\ \A key \in DOMAIN B :
                \/ key \in DOMAIN DisputedAcross(B) /\ DisputedAcross(B)[key] = B[key]
                \/ \E d \in Opposed(B) : key \in {d[1], d[2]}
           /\ \A key \in DOMAIN DisputedAcross(B) :
                \/ key \in DOMAIN B /\ DisputedAcross(B)[key] = B[key]
                \/ \E d \in Opposed(B) : key = ConflictKey(B, d)
           /\ \A d \in Opposed(B) :
                /\ ConflictKey(B, d) \in DOMAIN DisputedAcross(B)
                /\ DisputedAcross(B)[ConflictKey(B, d)].our = NoMatch
                /\ DisputedAcross(B)[ConflictKey(B, d)].oddspipe = B[d[1]].oddspipe
                /\ DisputedAcross(B)[ConflictKey(B, d)].predexon = B[d[2]].predexon
<1> PICK gone : gone = {d[1] : d \in Opposed(B)} \cup {d[2] : d \in Opposed(B)}
  OBVIOUS
<1> PICK merged : merged = {ConflictKey(B, d) : d \in Opposed(B)}
  OBVIOUS
<1> PICK X : X = DisputedAcross(B)
  OBVIOUS
<1>1. X = [key \in (DOMAIN B \ gone) \cup merged |->
            IF key \in DOMAIN B THEN B[key]
            ELSE MergedFrom(B, CHOOSE d \in Opposed(B) : ConflictKey(B, d) = key)]
  BY DEF DisputedAcross, MergedFrom
<1>2. DOMAIN X = (DOMAIN B \ gone) \cup merged
  BY <1>1
<1>3. \A key \in DOMAIN X : key \in DOMAIN B => X[key] = B[key]
  BY <1>1
<1>4. \A key \in merged : key \notin DOMAIN B
  <2> SUFFICES ASSUME NEW key \in DOMAIN B, key \in merged PROVE FALSE
    OBVIOUS
  <2>1. key.of = "conflict"
    BY KindsOfKeys
  <2>2. BucketFor(ours, pairs, key, B[key])
    BY DEF Gathered
  <2> QED BY <2>1, <2>2 DEF BucketFor
<1>5. ASSUME NEW d \in Opposed(B)
      PROVE  /\ ConflictKey(B, d) \in DOMAIN X /\ X[ConflictKey(B, d)].our = NoMatch
             /\ X[ConflictKey(B, d)].oddspipe = B[d[1]].oddspipe
             /\ X[ConflictKey(B, d)].predexon = B[d[2]].predexon
  <2> PICK key : key = ConflictKey(B, d)
    OBVIOUS
  <2>1. key \in merged
    OBVIOUS
  <2>2. (CHOOSE e \in Opposed(B) : ConflictKey(B, e) = key) = d
    BY OpposedByTitle
  <2>3. key \in DOMAIN X /\ key \notin DOMAIN B
    BY <1>2, <1>4, <2>1
  <2>4. X[key] = [B[d[1]] EXCEPT !.predexon = B[d[2]].predexon, !.disputed = TRUE]
    <3>1. X[key] = MergedFrom(B, CHOOSE e \in Opposed(B) : ConflictKey(B, e) = key)
      BY <1>1, <1>2, <2>3
    <3>2. X[key] = MergedFrom(B, d)
      BY <2>2, <3>1
    <3> QED BY <3>2 DEF MergedFrom
  <2> PICK b : b = B[d[1]]
    OBVIOUS
  <2>5. b = [our |-> b.our, oddspipe |-> b.oddspipe, predexon |-> b.predexon, met |-> b.met,
             disputed |-> b.disputed]
    BY OpposedSides DEF Gathered, BucketFor
  <2>6. b.our = NoMatch
    BY OpposedSides
  <2>7. X[key] = [our |-> b.our, oddspipe |-> b.oddspipe, predexon |-> B[d[2]].predexon, met |-> b.met,
                  disputed |-> TRUE]
    BY <2>4, <2>5
  <2>8. X[key].our = b.our /\ X[key].oddspipe = b.oddspipe /\ X[key].predexon = B[d[2]].predexon
    BY <2>7
  <2> QED BY <1>2, <2>1, <2>6, <2>8
<1>6. \A key \in DOMAIN B : (key \in DOMAIN X /\ X[key] = B[key]) \/ \E d \in Opposed(B) : key \in {d[1], d[2]}
  BY <1>2, <1>3
<1>7. \A key \in DOMAIN X : (key \in DOMAIN B /\ X[key] = B[key]) \/ \E d \in Opposed(B) : key = ConflictKey(B, d)
  BY <1>2, <1>3
<1> QED BY <1>5, <1>6, <1>7

LEMMA SingleOf == \A x : ToSet(<<x>>) = {x} /\ <<x>>[1] = x /\ <<x>> # NoMatch
<1> SUFFICES ASSUME NEW x PROVE ToSet(<<x>>) = {x} /\ <<x>>[1] = x /\ <<x>> # NoMatch
  OBVIOUS
<1>1. DOMAIN <<x>> = {1} /\ <<x>>[1] = x
  OBVIOUS
<1> QED BY <1>1 DEF ToSet, NoMatch

(* What a bucket of the report says is what the lists say. *)
ReportedAs(ours, pairs, X, B) ==
    Comparable(ours, pairs) /\ Gathered(ours, pairs, B) /\ X = DisputedAcross(B)

LEMMA NoPairLost ==
    ASSUME NEW ours, NEW pairs, NEW B, NEW X, ReportedAs(ours, pairs, X, B), NEW i \in DOMAIN pairs
    PROVE  \/ \E key \in DOMAIN X : OfSource(X[key], pairs[i].source) = <<pairs[i]>>
           \/ \E j \in (i + 1)..Len(pairs) : /\ pairs[j].source = pairs[i].source
                                            /\ KeyOf(pairs[j], ours) = KeyOf(pairs[i], ours)
<1> PICK key : key = KeyOf(pairs[i], ours)
  OBVIOUS
<1> PICK source : source = pairs[i].source
  OBVIOUS
<1>0. Comparable(ours, pairs) /\ Gathered(ours, pairs, B) /\ X = DisputedAcross(B)
  BY DEF ReportedAs
<1>1. DOMAIN pairs = 1 .. Len(pairs) /\ Len(pairs) \in Nat
  BY <1>0, PlacesListed DEF Comparable
<1>2. source \in {"oddspipe", "predexon"}
  <2>1. pairs[i] \in ToSet(pairs)
    BY DEF ToSet
  <2> QED BY <1>0, <2>1 DEF Comparable
<1>3. i \in {q \in PlacesAbout(ours, pairs, key) : pairs[q].source = source}
  BY DEF PlacesAbout
<1>4. PICK m \in {q \in PlacesAbout(ours, pairs, key) : pairs[q].source = source} :
            NewestAbout(ours, pairs, key, source) = <<pairs[m]>> /\ i <= m
  BY <1>0, <1>3, NewestListed
<1>5. m \in 1 .. Len(pairs) /\ KeyOf(pairs[m], ours) = key /\ pairs[m].source = source
  BY <1>1, <1>4 DEF PlacesAbout
<1>6. CASE m # i
  <2>1. m \in (i + 1) .. Len(pairs)
    BY <1>1, <1>4, <1>5, <1>6
  <2> QED BY <1>5, <2>1
<1>7. CASE m = i
  <2>1. key \in DOMAIN B
    BY <1>0 DEF Gathered, KeysOf
  <2>2. OfSource(B[key], source) = <<pairs[i]>>
    <3>1. BucketFor(ours, pairs, key, B[key])
      BY <1>0, <2>1 DEF Gathered
    <3> QED BY <1>2, <1>4, <1>7, <3>1 DEF BucketFor, OfSource
  <2>3. CASE key \in DOMAIN X /\ X[key] = B[key]
    BY <2>2, <2>3
  <2>4. ASSUME NEW d \in Opposed(B), key \in {d[1], d[2]}
        PROVE  \E k \in DOMAIN X : OfSource(X[k], pairs[i].source) = <<pairs[i]>>
    <3> PICK k : k = ConflictKey(B, d)
      OBVIOUS
    <3>1. k \in DOMAIN X /\ X[k].oddspipe = B[d[1]].oddspipe /\ X[k].predexon = B[d[2]].predexon
      BY <1>0, BucketsMerged
    <3>2. B[d[1]].predexon = NoMatch /\ B[d[2]].oddspipe = NoMatch
      BY OpposedSides
    <3>3. <<pairs[i]>> # NoMatch
      BY SingleOf
    <3>4. OfSource(X[k], source) = OfSource(B[key], source)
      BY <1>2, <2>2, <2>4, <3>1, <3>2, <3>3 DEF OfSource
    <3> QED BY <2>2, <3>1, <3>4
  <2> QED BY <1>0, <2>1, <2>3, <2>4, BucketsMerged
<1> QED BY <1>6, <1>7

LEMMA MatchJudgedOnce ==
    ASSUME NEW ours, NEW pairs, NEW B, NEW X, ReportedAs(ours, pairs, X, B), NEW our \in ToSet(ours)
    PROVE  Cardinality({key \in DOMAIN X : X[key].our = <<our>>}) = 1
<1>0. Comparable(ours, pairs) /\ Gathered(ours, pairs, B) /\ X = DisputedAcross(B)
  BY DEF ReportedAs
<1>1. \A o \in ToSet(ours) : o \in [pm : Nat \ {0}, k : Nat \ {0}]
  <2>1. ours \in Seq([pm : Nat \ {0}, k : Nat \ {0}])
    BY <1>0 DEF Comparable
  <2>2. \A i \in DOMAIN ours : ours[i] \in [pm : Nat \ {0}, k : Nat \ {0}]
    BY <2>1, PlacesListed
  <2> QED BY <2>2 DEF ToSet
<1>2. OurKey(our) \in DOMAIN B
  <2>1. \E i \in DOMAIN ours : our = ours[i]
    BY DEF ToSet
  <2> QED BY <1>0, <2>1 DEF Gathered, KeysOf
<1>3. ASSUME NEW key \in DOMAIN B PROVE B[key].our = <<our>> <=> key = OurKey(our)
  <2>1. BucketFor(ours, pairs, key, B[key])
    BY <1>0 DEF Gathered
  <2>2. CASE key.of = "our"
    <3>1. PICK o \in ToSet(ours) : key = OurKey(o) /\ B[key].our = <<o>>
      BY <2>1, <2>2 DEF BucketFor
    <3>2. B[key].our = <<our>> <=> o = our
      BY <3>1, SingleOf
    <3>3. key = OurKey(our) <=> o = our
      BY <1>1, <3>1, OurKeyNames
    <3> QED BY <3>2, <3>3
  <2>3. CASE key.of # "our"
    <3>1. B[key].our = NoMatch
      BY <2>1, <2>3 DEF BucketFor
    <3> QED BY <2>3, <3>1, KindsOfKeys, SingleOf
  <2> QED BY <2>2, <2>3
<1>4. \A d \in Opposed(B) : B[d[1]].our # <<our>> /\ B[d[2]].our # <<our>>
  BY OpposedSides, SingleOf, ZenonT(60)
<1>5. OurKey(our) \in DOMAIN X /\ X[OurKey(our)].our = <<our>>
  BY <1>0, <1>2, <1>3, <1>4, BucketsMerged
<1>6. ASSUME NEW key \in DOMAIN X, X[key].our = <<our>> PROVE key = OurKey(our)
  <2>1. ASSUME NEW d \in Opposed(B) PROVE key # ConflictKey(B, d)
    <3>1. X[ConflictKey(B, d)].our = NoMatch
      BY <1>0, BucketsMerged
    <3>2. <<our>> # NoMatch
      BY SingleOf
    <3> QED BY <1>6, <3>1, <3>2
  <2>2. key \in DOMAIN B /\ X[key] = B[key]
    BY <1>0, <2>1, BucketsMerged
  <2> QED BY <1>3, <1>6, <2>2
<1>7. {key \in DOMAIN X : X[key].our = <<our>>} = {OurKey(our)}
  BY <1>5, <1>6
<1> QED BY <1>7, FS_Singleton

LEMMA VerdictRight ==
    ASSUME NEW ours, NEW pairs, NEW B, NEW X, ReportedAs(ours, pairs, X, B), NEW key \in DOMAIN X
    PROVE  LET b == X[key]  verdict == PairCategory(b) IN
           /\ verdict = "confirmed" =>
                /\ \E pair \in ToSet(pairs) : MatchExternalPair(pair, ours) = b.our
                /\ \A pair \in ToSet(b.predexon) : pair.k \in {0, b.our[1].k}
           /\ verdict = "our-only" =>
                \A pair \in ToSet(pairs) : MatchExternalPair(pair, ours) # b.our
           /\ verdict = "conflict" /\ b.our = NoMatch =>
                b.oddspipe # NoMatch /\ b.predexon # NoMatch
                /\ b.oddspipe[1].pmTitle = b.predexon[1].pmTitle
<1> PICK b : b = X[key]
  OBVIOUS
<1> PICK verdict : verdict = PairCategory(b)
  OBVIOUS
<1>0. Comparable(ours, pairs) /\ Gathered(ours, pairs, B) /\ X = DisputedAcross(B)
  BY DEF ReportedAs
<1>1. DOMAIN pairs = 1 .. Len(pairs) /\ Len(pairs) \in Nat
  BY <1>0, PlacesListed DEF Comparable
<1>2. \A o \in ToSet(ours) : o \in [pm : Nat \ {0}, k : Nat \ {0}]
  <2>1. ours \in Seq([pm : Nat \ {0}, k : Nat \ {0}])
    BY <1>0 DEF Comparable
  <2>2. \A i \in DOMAIN ours : ours[i] \in [pm : Nat \ {0}, k : Nat \ {0}]
    BY <2>1, PlacesListed
  <2> QED BY <2>2 DEF ToSet
<1>3. CASE key \in DOMAIN B /\ X[key] = B[key]
  <2>1. BucketFor(ours, pairs, key, b)
    BY <1>0, <1>3 DEF Gathered
  <2>2. CASE key.of = "our"
    <3>1. PICK our \in ToSet(ours) : key = OurKey(our) /\ b.our = <<our>>
      BY <2>1, <2>2 DEF BucketFor
    <3>2. b.our # NoMatch /\ b.our[1] = our
      BY <3>1, SingleOf
    <3>3. ASSUME NEW i \in PlacesAbout(ours, pairs, key)
          PROVE  pairs[i] \in ToSet(pairs) /\ MatchExternalPair(pairs[i], ours) = b.our
      <4>1. i \in DOMAIN pairs /\ KeyOf(pairs[i], ours) = key
        BY DEF PlacesAbout
      <4>2. PICK o \in ToSet(ours) : MatchExternalPair(pairs[i], ours) = <<o>> /\ key = OurKey(o)
        BY <1>0, <2>2, <4>1, KeyOfPair, KindsOfKeys DEF Comparable
      <4>3. o = our
        BY <1>2, <3>1, <4>2, OurKeyNames
      <4>4. pairs[i] \in ToSet(pairs)
        BY <4>1 DEF ToSet
      <4> QED BY <3>1, <4>2, <4>3, <4>4
    <3>4. verdict = "confirmed" => \E pair \in ToSet(pairs) : MatchExternalPair(pair, ours) = b.our
      <4> SUFFICES ASSUME verdict = "confirmed" PROVE PlacesAbout(ours, pairs, key) # {}
        BY <3>3
      <4>1. b.oddspipe # NoMatch \/ b.predexon # NoMatch
        BY <3>2 DEF PairCategory
      <4>2. NewestAbout(ours, pairs, key, "oddspipe") # NoMatch \/ NewestAbout(ours, pairs, key, "predexon") # NoMatch
        BY <2>1, <4>1 DEF BucketFor
      <4>3. \/ {i \in PlacesAbout(ours, pairs, key) : pairs[i].source = "oddspipe"} # {}
            \/ {i \in PlacesAbout(ours, pairs, key) : pairs[i].source = "predexon"} # {}
        BY <1>0, <4>2, NewestListed
      <4> QED BY <4>3
    <3>5. verdict = "confirmed" => \A pair \in ToSet(b.predexon) : pair.k \in {0, b.our[1].k}
      <4> SUFFICES ASSUME verdict = "confirmed", NEW pair \in ToSet(b.predexon)
                   PROVE  pair.k \in {0, our.k}
        BY <3>2
      <4>1. ~(b.predexon # NoMatch /\ b.predexon[1].k \notin {0, our.k})
        BY <3>2 DEF PairCategory
      <4>2. b.predexon # NoMatch
        BY DEF ToSet, NoMatch
      <4>3. \E p : b.predexon = <<p>>
        <5>1. NewestAbout(ours, pairs, key, "predexon") # NoMatch
          BY <2>1, <4>2 DEF BucketFor
        <5>2. {i \in PlacesAbout(ours, pairs, key) : pairs[i].source = "predexon"} # {}
          BY <1>0, <5>1, NewestListed
        <5>3. \E p : NewestAbout(ours, pairs, key, "predexon") = <<p>>
          BY <1>0, <5>2, NewestListed
        <5> QED BY <2>1, <5>3 DEF BucketFor
      <4>4. b.predexon[1] = pair
        BY <4>3, SingleOf
      <4> QED BY <4>1, <4>2, <4>4
    <3>6. verdict = "our-only" => \A pair \in ToSet(pairs) : MatchExternalPair(pair, ours) # b.our
      <4> SUFFICES ASSUME verdict = "our-only", NEW i \in DOMAIN pairs,
                          MatchExternalPair(pairs[i], ours) = b.our
                   PROVE  FALSE
        BY DEF ToSet
      <4>1. b.oddspipe = NoMatch /\ b.predexon = NoMatch
        BY <3>2 DEF PairCategory
      <4>2. KeyOf(pairs[i], ours) = key
        BY <3>1, <3>2 DEF KeyOf
      <4>3. i \in PlacesAbout(ours, pairs, key)
        BY <4>2 DEF PlacesAbout
      <4>4. pairs[i].source \in {"oddspipe", "predexon"}
        <5>1. pairs[i] \in ToSet(pairs)
          BY DEF ToSet
        <5> QED BY <1>0, <5>1 DEF Comparable
      <4>5. i \in {q \in PlacesAbout(ours, pairs, key) : pairs[q].source = pairs[i].source}
        BY <4>3
      <4>6. NewestAbout(ours, pairs, key, pairs[i].source) # NoMatch
        BY <1>0, <4>5, NewestListed
      <4> QED BY <2>1, <4>1, <4>4, <4>6 DEF BucketFor
    <3> QED BY <3>2, <3>4, <3>5, <3>6
  <2>3. CASE key.of # "our"
    <3>1. b.our = NoMatch /\ key.of = "external"
      BY <2>1, <2>3 DEF BucketFor
    <3>2. verdict = IF b.disputed THEN "conflict" ELSE "external-only"
      BY <3>1 DEF PairCategory
    <3>3. verdict \notin {"confirmed", "our-only"}
      BY <3>2
    <3>4. ASSUME verdict = "conflict"
          PROVE  b.oddspipe # NoMatch /\ b.predexon # NoMatch
                 /\ b.oddspipe[1].pmTitle = b.predexon[1].pmTitle
      <4>1. b.disputed
        BY <3>2, <3>4
      <4>2. b.oddspipe # NoMatch /\ b.predexon # NoMatch
        BY <2>1, <4>1 DEF BucketFor
      <4>3. ASSUME NEW source, NewestAbout(ours, pairs, key, source) # NoMatch
            PROVE  \E i \in DOMAIN pairs : /\ NewestAbout(ours, pairs, key, source) = <<pairs[i]>>
                                          /\ pairs[i].source = source /\ key = ExternalKey(pairs[i])
        <5>1. PICK m \in PlacesAbout(ours, pairs, key) :
                NewestAbout(ours, pairs, key, source) = <<pairs[m]>> /\ pairs[m].source = source
          BY <1>0, <4>3, NewestListed
        <5>2. m \in DOMAIN pairs /\ KeyOf(pairs[m], ours) = key
          BY DEF PlacesAbout
        <5>3. key = ExternalKey(pairs[m])
          BY <1>0, <2>3, <5>2, KeyOfPair, KindsOfKeys DEF Comparable
        <5> QED BY <5>1, <5>2, <5>3
      <4>4. PICK i \in DOMAIN pairs : /\ b.oddspipe = <<pairs[i]>> /\ pairs[i].source = "oddspipe"
                                     /\ key = ExternalKey(pairs[i])
        BY <2>1, <4>2, <4>3 DEF BucketFor
      <4>5. PICK j \in DOMAIN pairs : b.predexon = <<pairs[j]>> /\ key = ExternalKey(pairs[j])
        BY <2>1, <4>2, <4>3 DEF BucketFor
      <4>6. pairs[i].pm = 0
        <5>1. pairs[i] \in ToSet(pairs)
          BY DEF ToSet
        <5> QED BY <1>0, <4>4, <5>1 DEF Comparable
      <4>7. ASSUME NEW pair, key = ExternalKey(pair)
            PROVE  key.pm = pair.pm /\ (pair.pm = 0 => key.title = pair.pmTitle)
        BY <4>7 DEF ExternalKey
      <4>8. key.pm = pairs[i].pm /\ key.pm = pairs[j].pm
        BY <4>4, <4>5, <4>7
      <4>9. key.title = pairs[i].pmTitle /\ key.title = pairs[j].pmTitle
        BY <4>4, <4>5, <4>6, <4>7, <4>8
      <4>10. b.oddspipe[1] = pairs[i] /\ b.predexon[1] = pairs[j]
        <5>1. ASSUME NEW pair PROVE <<pair>>[1] = pair
          OBVIOUS
        <5> QED BY <4>4, <4>5, <5>1, Zenon
      <4> QED BY <4>2, <4>9, <4>10, Zenon
    <3> QED BY <3>3, <3>4
  <2> QED BY <2>2, <2>3
<1>4. ASSUME NEW d \in Opposed(B), key = ConflictKey(B, d)
      PROVE  /\ verdict \notin {"confirmed", "our-only"}
             /\ b.oddspipe # NoMatch /\ b.predexon # NoMatch
             /\ b.oddspipe[1].pmTitle = b.predexon[1].pmTitle
  <2>1. b.our = NoMatch /\ b.oddspipe = B[d[1]].oddspipe /\ b.predexon = B[d[2]].predexon
    BY <1>0, <1>4, BucketsMerged
  <2>2. verdict \notin {"confirmed", "our-only"}
    BY <2>1 DEF PairCategory
  <2> QED BY <2>1, <2>2, OpposedSides
<1>5. \/ key \in DOMAIN B /\ X[key] = B[key]
      \/ \E d \in Opposed(B) : key = ConflictKey(B, d)
  BY <1>0, BucketsMerged
<1> QED BY <1>3, <1>4, <1>5

(* Until a safety timer fires the flag is up exactly while somebody         *)
(* validates, and one validates; the report is a comparison of two lists.   *)
Reported(v) ==
    v = NoReport \/ \E ours \in OurLists, pairs \in PairLists :
        v = [ours |-> ours, pairs |-> pairs, buckets |-> <<Compared(ours, pairs)>>]

OneValidates ==
    fired \/ /\ \A c, d \in Callers : validating[c] # "no" /\ validating[d] # "no" => c = d
             /\ flag <=> \E c \in Callers : validating[c] # "no"

ValidationInv == ValidationTypeOK /\ OneValidates /\ Reported(validation)

LEMMA ValidationStarts == ValidationInit => ValidationInv
BY Zenon DEF ValidationInit, ValidationInv, ValidationTypeOK, OneValidates, Reported, Callers

LEMMA ValidationSteps == ValidationInv /\ [ValidationNext]_validationVars => ValidationInv'
<1> SUFFICES ASSUME ValidationInv, [ValidationNext]_validationVars PROVE ValidationInv'
  OBVIOUS
<1> USE DEF ValidationInv
<1>1. CASE UNCHANGED validationVars
  BY <1>1 DEF validationVars, ValidationTypeOK, OneValidates, Reported
<1>2. ASSUME NEW c \in Callers, RunValidation(c) PROVE ValidationInv'
  <2>1. ~flag /\ validating' = [validating EXCEPT ![c] = "fetching"] /\ flag' = TRUE
        /\ UNCHANGED <<fired, validation>>
    BY <1>2 DEF RunValidation
  <2>2. ValidationTypeOK'
    BY <1>2, Zenon DEF RunValidation, ValidationTypeOK
  <2>3. OneValidates'
    BY <2>1 DEF OneValidates, ValidationTypeOK
  <2> QED BY <2>1, <2>2, <2>3 DEF Reported
<1>3. ASSUME NEW c \in Callers, PairsFetched(c) PROVE ValidationInv'
  <2>1. /\ validating[c] = "fetching" /\ validating' = [validating EXCEPT ![c] = "storing"]
        /\ UNCHANGED <<flag, timers, safetyTimer, fired>>
    BY <1>3 DEF PairsFetched
  <2>2. ValidationTypeOK'
    BY <2>1 DEF ValidationTypeOK
  <2>3. OneValidates'
    BY <2>1 DEF OneValidates, ValidationTypeOK
  <2>4. Reported(validation)'
    BY <1>3 DEF PairsFetched, Reported
  <2> QED BY <2>2, <2>3, <2>4
<1>4. ASSUME NEW c \in Callers, ValidationEnds(c) PROVE ValidationInv'
  <2>1. /\ validating[c] # "no" /\ flag' = FALSE /\ validating' = [validating EXCEPT ![c] = "no"]
        /\ timers' = timers \ {safetyTimer} /\ safetyTimer' = Nobody /\ UNCHANGED validation
        /\ fired' = (fired /\ \E d \in Callers \ {c} : validating[d] # "no")
    BY <1>4 DEF ValidationEnds
  <2>2. ValidationTypeOK'
    BY <2>1, Zenon DEF ValidationTypeOK
  <2>3. OneValidates'
    <3>1. CASE \E d \in Callers \ {c} : validating[d] # "no"
      BY <2>1, <3>1 DEF OneValidates, ValidationTypeOK
    <3>2. CASE \A d \in Callers \ {c} : validating[d] = "no"
      <4>1. \A d \in Callers : validating'[d] = "no"
        BY <2>1, <3>2 DEF ValidationTypeOK
      <4> QED BY <2>1, <4>1 DEF OneValidates
    <3> QED BY <3>1, <3>2
  <2> QED BY <2>1, <2>2, <2>3 DEF Reported
<1>5. ASSUME NEW c \in Callers, SafetyTimerFires(c) PROVE ValidationInv'
  <2>1. /\ timers' = timers \ {c} /\ flag' = FALSE /\ UNCHANGED <<safetyTimer, validating, validation>>
        /\ fired' = \E d \in Callers : validating[d] # "no"
    BY <1>5 DEF SafetyTimerFires
  <2>2. ValidationTypeOK'
    BY <2>1, Zenon DEF ValidationTypeOK
  <2>3. OneValidates'
    BY <2>1 DEF OneValidates
  <2> QED BY <2>1, <2>2, <2>3 DEF Reported
<1> QED BY <1>1, <1>2, <1>3, <1>4, <1>5 DEF ValidationNext

LEMMA ComparisonSound ==
    ASSUME NEW ours \in OurLists, NEW pairs \in PairLists,
           validation = [ours |-> ours, pairs |-> pairs, buckets |-> <<Compared(ours, pairs)>>]
    PROVE  PairsAccounted /\ VerdictsSupported
<1> PICK X : X = Compared(ours, pairs)
  OBVIOUS
<1> PICK B : B = DisputedInside(AggregatePairs(ours, pairs))
  OBVIOUS
<1>1. Comparable(ours, pairs)
  BY ValidationAssumption DEF Comparable
<1>2. Gathered(ours, pairs, B)
  <2> PICK A : A = AggregatePairs(ours, pairs)
    OBVIOUS
  <2>1. DOMAIN A = KeysOf(ours, pairs) /\ \A key \in DOMAIN A : BucketFor(ours, pairs, key, A[key])
    BY <1>1, BucketsGathered
  <2>2. B = DisputedInside(A)
    OBVIOUS
  <2> QED BY <1>1, <2>1, <2>2, BucketsDisputed DEF Gathered
<1>3. ReportedAs(ours, pairs, X, B)
  BY <1>1, <1>2 DEF ReportedAs, Compared
<1>4. validation.ours = ours /\ validation.pairs = pairs /\ validation.buckets = <<X>>
  OBVIOUS
<1>5. validation.buckets # NoMatch /\ validation.buckets[1] = X
  BY <1>4, SingleOf
<1> HIDE DEF NoMatch
<1>6. PairsAccounted
  BY <1>3, <1>4, <1>5, NoPairLost DEF PairsAccounted
<1>7. VerdictsSupported
  BY <1>3, <1>4, <1>5, MatchJudgedOnce, VerdictRight, SMTT(30) DEF VerdictsSupported
<1> QED BY <1>6, <1>7

LEMMA ValidationsFromInv == ValidationInv => ValidationsSound
<1> SUFFICES ASSUME ValidationInv PROVE ValidationsSound
  OBVIOUS
<1>1. ValidationTypeOK /\ OneValidates /\ Reported(validation)
  BY DEF ValidationInv
<1>2. ExclusiveUntilSafety
  <2> SUFFICES ASSUME ~fired PROVE Cardinality({c \in Callers : validating[c] # "no"}) <= 1
    BY <1>1 DEF ExclusiveUntilSafety, OneValidates
  <2> PICK busy : busy = {c \in Callers : validating[c] # "no"}
    OBVIOUS
  <2>1. \A c, d \in busy : c = d
    BY <1>1 DEF OneValidates
  <2>2. Cardinality(busy) \in {0, 1}
    <3>1. CASE busy = {}
      BY <3>1, FS_EmptySet
    <3>2. CASE busy # {}
      <4>1. PICK c : busy = {c}
        BY <2>1, <3>2
      <4> QED BY <4>1, FS_Singleton
    <3> QED BY <3>1, <3>2
  <2> QED BY <2>2
<1>3. CASE validation = NoReport
  <2>1. validation.pairs = <<>> /\ validation.buckets = NoMatch
    BY <1>3 DEF NoReport
  <2>2. PairsAccounted
    BY <2>1 DEF PairsAccounted
  <2>3. VerdictsSupported
    BY <2>1 DEF VerdictsSupported
  <2> QED BY <1>1, <1>2, <2>2, <2>3 DEF ValidationsSound
<1>4. CASE validation # NoReport
  BY <1>1, <1>2, <1>4, ComparisonSound DEF ValidationsSound, Reported
<1> QED BY <1>3, <1>4

(* Two validations overlap only after a safety timer has fired; and a       *)
(* report loses no pair of a source, judges every match once, confirms one  *)
(* only by pairs that agree with it, and has two sides to every conflict.   *)
THEOREM ValidationsAlwaysSound == ValidationSpec => []ValidationsSound
<1>1. ValidationInv => ValidationsSound
  BY ValidationsFromInv
<1> QED BY <1>1, ValidationStarts, ValidationSteps, PTL DEF ValidationSpec

-----------------------------------------------------------------------------
(* The computations around the data of the past. *)

LEMMA HistoryConstants ==
    /\ Attempts \in Nat \ {0} /\ Hour \in Nat \ {0}
    /\ GapAfter \in Nat /\ LowTrades \in Nat /\ LastTime \in Nat /\ MaxRecords \in Nat
BY HistoryAssumption

(* A request: from each attempt on, the first reply that ends it. *)
Tries(client, replies) ==
    CHOOSE try : try = [n \in 1..(Attempts + 1) |->
            IF n > Attempts THEN <<"throws", Attempts>>
            ELSE IF Effect(client, replies[n]) = "again" THEN try[n + 1]
            ELSE <<Effect(client, replies[n]), n>>]

LEMMA TriesUnfold ==
    ASSUME NEW client, NEW replies
    PROVE  Tries(client, replies) = [n \in 1..(Attempts + 1) |->
            IF n > Attempts THEN <<"throws", Attempts>>
            ELSE IF Effect(client, replies[n]) = "again" THEN Tries(client, replies)[n + 1]
            ELSE <<Effect(client, replies[n]), n>>]
<1>0. Attempts \in Nat
  BY HistoryConstants
<1>1. PICK stop : stop = {n \in 1..(Attempts + 1) : n > Attempts \/ Effect(client, replies[n]) # "again"}
  OBVIOUS
<1>2. PICK v : v = [n \in 1..(Attempts + 1) |-> IF n > Attempts THEN <<"throws", Attempts>>
                                              ELSE <<Effect(client, replies[n]), n>>]
  OBVIOUS
<1>3. PICK next : next = [n \in 1..(Attempts + 1) |-> n + 1]
  OBVIOUS
<1>S. PICK S : S = {v[n] : n \in 1..(Attempts + 1)}
  OBVIOUS
<1>4. \E f \in [1..(Attempts + 1) -> S] :
        \A s \in 1..(Attempts + 1) : (s \in stop => f[s] = v[s]) /\ (s \notin stop => f[s] = f[next[s]])
  <2>1. 1 \in Int /\ Attempts + 1 \in Int
    BY <1>0
  <2>2. \A n \in 1..(Attempts + 1) : n \notin stop => next[n] \in 1..(Attempts + 1) /\ next[n] > n
    BY <1>0, <1>1, <1>3
  <2>3. v \in [1..(Attempts + 1) -> S]
    BY <1>2, <1>S
  <2>4. next \in Onwards(1, Attempts + 1, stop)
    BY <1>0, <1>3, <2>1, <2>2 DEF Onwards
  <2>5. Downwards(1, Attempts + 1, S, stop, v, next) # {}
    BY <2>1, <2>3, <2>4, RecursionDownward, Zenon
  <2> QED BY <2>5 DEF Downwards
<1>p. PICK f \in [1..(Attempts + 1) -> S] :
        \A s \in 1..(Attempts + 1) : (s \in stop => f[s] = v[s]) /\ (s \notin stop => f[s] = f[next[s]])
  BY <1>4
<1>5. ASSUME NEW n \in 1..(Attempts + 1)
      PROVE  f[n] =
                IF n > Attempts THEN <<"throws", Attempts>>
                ELSE IF Effect(client, replies[n]) = "again" THEN f[n + 1]
                ELSE <<Effect(client, replies[n]), n>>
  BY <1>1, <1>2, <1>3, <1>p
<1>6. f = [n \in 1..(Attempts + 1) |->
            IF n > Attempts THEN <<"throws", Attempts>>
            ELSE IF Effect(client, replies[n]) = "again" THEN f[n + 1]
            ELSE <<Effect(client, replies[n]), n>>]
  BY <1>p, <1>5
<1> QED BY <1>6 DEF Tries

LEMMA RequestsRight ==
    ASSUME NEW client \in Clients, NEW replies \in [1..Attempts -> HttpAnswers]
    PROVE  LET sent == Retried(client, replies)[2]
               final == {n \in 1..Attempts : Effect(client, replies[n]) # "again"}
           IN  /\ sent = IF final = {} THEN Attempts ELSE Min(final)
               /\ Retried(client, replies)[1] = "rows" <=> final # {} /\ replies[sent] = "ok"
<1>0. Attempts \in Nat \ {0}
  BY HistoryConstants
<1> DEFINE try == Tries(client, replies)
<1>1. try = [n \in 1..(Attempts + 1) |->
            IF n > Attempts THEN <<"throws", Attempts>>
            ELSE IF Effect(client, replies[n]) = "again" THEN try[n + 1]
            ELSE <<Effect(client, replies[n]), n>>]
  BY TriesUnfold, Zenon
<1>2. Retried(client, replies) = try[1]
  BY DEF Retried, Tries
<1> HIDE DEF try
<1>3. \A n \in 1..(Attempts + 1) :
            try[n] = IF n > Attempts THEN <<"throws", Attempts>>
                     ELSE IF Effect(client, replies[n]) = "again" THEN try[n + 1]
                     ELSE <<Effect(client, replies[n]), n>>
  BY <1>1, Zenon
<1>f. PICK final : final = {n \in 1..Attempts : Effect(client, replies[n]) # "again"}
  OBVIOUS
<1>s. PICK stop : stop = {n \in 1..(Attempts + 1) : n > Attempts \/ n \in final}
  OBVIOUS
<1>n. PICK next : next = [n \in 1..(Attempts + 1) |-> n + 1]
  OBVIOUS
<1>h. PICK H : H = {n \in 1..(Attempts + 1) :
        IF \A m \in final : m < n THEN try[n] = <<"throws", Attempts>>
        ELSE \E m \in final : /\ n <= m /\ (\A q \in final : q < n \/ m <= q)
                              /\ try[n] = <<Effect(client, replies[m]), m>>}
  OBVIOUS
<1>4. ASSUME NEW n \in 1..(Attempts + 1), n \in stop PROVE n \in H
  <2>1. CASE n > Attempts
    <3>1. \A m \in final : m < n
      BY <1>0, <1>f, <2>1
    <3>2. try[n] = <<"throws", Attempts>>
      BY <1>3, <2>1
    <3> QED BY <1>h, <3>1, <3>2
  <2>2. CASE n \in final
    <3>1. ~(\A m \in final : m < n)
      BY <1>0, <2>2
    <3>2. ~(n > Attempts) /\ Effect(client, replies[n]) # "again"
      BY <1>0, <1>f, <2>2
    <3>3. try[n] = <<Effect(client, replies[n]), n>>
      BY <1>3, <3>2
    <3>4. n <= n /\ \A q \in final : q < n \/ n <= q
      BY <1>0, <1>f
    <3> QED BY <1>h, <2>2, <3>1, <3>3, <3>4
  <2> QED BY <1>s, <1>4, <2>1, <2>2
<1>5. ASSUME NEW n \in 1..(Attempts + 1), n \notin stop, next[n] \in H PROVE n \in H
  <2>0. ~(n > Attempts) /\ n \notin final
    BY <1>0, <1>s, <1>5
  <2>1. n \in 1..Attempts /\ Effect(client, replies[n]) = "again"
    BY <1>0, <1>f, <2>0
  <2>a. try[n] = try[n + 1]
    BY <1>3, <2>0, <2>1
  <2>2. \A m \in final : m \in Nat /\ (m < n <=> m < n + 1)
    BY <1>0, <1>f, <2>0
  <2>3. n + 1 \in H
    BY <1>n, <1>5
  <2>4. CASE \A m \in final : m < n + 1
    <3>1. try[n + 1] = <<"throws", Attempts>>
      BY <1>h, <2>3, <2>4
    <3>2. \A m \in final : m < n
      BY <2>2, <2>4
    <3>3. try[n] = <<"throws", Attempts>>
      BY <2>a, <3>1
    <3> QED BY <1>h, <3>2, <3>3
  <2>5. CASE ~(\A m \in final : m < n + 1)
    <3>1. PICK m \in final : /\ n + 1 <= m /\ (\A q \in final : q < n + 1 \/ m <= q)
                             /\ try[n + 1] = <<Effect(client, replies[m]), m>>
      BY <1>h, <2>3, <2>5
    <3>2. n <= m /\ \A q \in final : q < n \/ m <= q
      BY <2>2, <3>1
    <3>3. ~(\A q \in final : q < n)
      BY <2>2, <2>5
    <3>4. try[n] = <<Effect(client, replies[m]), m>>
      BY <2>a, <3>1
    <3> QED BY <1>h, <3>2, <3>3, <3>4
  <2> QED BY <2>4, <2>5
<1>6. 1 \in H
  <2>1. \A n \in 1..(Attempts + 1) : n \notin stop => next[n] \in 1..(Attempts + 1) /\ next[n] > n
    BY <1>0, <1>s, <1>n
  <2>2. 1 \in Int /\ Attempts + 1 \in Int
    BY <1>0
  <2>3. /\ \A n \in 1..(Attempts + 1) : n \in stop => n \in H
        /\ \A n \in 1..(Attempts + 1) : n \notin stop /\ next[n] \in H => n \in H
    BY <1>4, <1>5
  <2>4. \A n \in 1..(Attempts + 1) : n \in H
    BY <2>1, <2>2, <2>3, DownwardInduction, ZenonT(60)
  <2> QED BY <1>0, <2>4
<1>7. final \in SUBSET Nat
  BY <1>f
<1>8. CASE final = {}
  <2>1. try[1] = <<"throws", Attempts>>
    BY <1>h, <1>6, <1>8
  <2>2. try[1][1] = "throws" /\ try[1][2] = Attempts
    BY <2>1
  <2> QED BY <1>f, <1>2, <1>8, <2>2
<1>9. CASE final # {}
  <2>1. \A q \in final : q >= 1
    BY <1>f
  <2>2. PICK m \in final : (\A q \in final : m <= q) /\ try[1] = <<Effect(client, replies[m]), m>>
    <3>1. ~(\A q \in final : q < 1)
      <4>1. PICK q \in final : TRUE
        BY <1>9
      <4>2. q \in Nat /\ q >= 1
        BY <1>7, <2>1
      <4> QED BY <4>1, <4>2
    <3>2. PICK m \in final : /\ 1 <= m /\ (\A q \in final : q < 1 \/ m <= q)
                             /\ try[1] = <<Effect(client, replies[m]), m>>
      BY <1>h, <1>6, <3>1
    <3> QED BY <1>7, <2>1, <3>2
  <2>3. m = Min(final)
    <3>1. Min(final) \in final /\ \A q \in final : Min(final) <= q
      BY <1>7, <1>9, LeastOf
    <3>2. m \in Nat /\ Min(final) \in Nat /\ m <= Min(final) /\ Min(final) <= m
      BY <1>7, <2>2, <3>1
    <3> QED BY <3>2
  <2>4. Effect(client, replies[m]) = "rows" <=> replies[m] = "ok"
    <3>1. replies[m] \in HttpAnswers
      BY <1>f
    <3>2. ASSUME NEW reply \in HttpAnswers PROVE Effect(client, reply) = "rows" <=> reply = "ok"
      BY <3>2 DEF HttpAnswers, Effect
    <3> QED BY <3>1, <3>2
  <2>5. try[1][1] = Effect(client, replies[m]) /\ try[1][2] = m
    BY <2>2
  <2> QED BY <1>f, <1>2, <1>9, <2>3, <2>4, <2>5
<1> QED BY <1>8, <1>9

LEMMA FreshnessRight ==
    ASSUME NEW present \in Nat, NEW success \in 0..present, NEW threshold \in Nat, threshold > 0
    PROVE  /\ FreshStatus(success, present, threshold) \in {"stale", "never"} <=>
                  StaleEvent(success, present, threshold) # "none"
           /\ FreshStatus(success, present, threshold) = "never" => StaleEvent(success, present, threshold) = "error"
BY DEF FreshStatus, StaleEvent

-----------------------------------------------------------------------------
(* The rows in the order of their times are the rows, each once.            *)
LEMMA RowsInTime ==
    ASSUME NEW n \in Nat, NEW records, DOMAIN records = 1..n, \A i \in 1..n : records[i].t \in Nat
    PROVE  \E origin \in [1..n -> 1..n] :
              /\ InTime(records) = [p \in 1..n |-> records[origin[p]]]
              /\ \A i \in 1..n : \E p \in 1..n : origin[p] = i
              /\ \A p, q \in 1..n : origin[p] = origin[q] => p = q
              /\ \A p, q \in 1..n : p < q => records[origin[p]].t <= records[origin[q]].t
<1>k. PICK key : key = [i \in 1..n |-> records[i].t]
  OBVIOUS
<1>p. PICK place : place = [i \in 1..n |-> PlaceInTime(records, i)]
  OBVIOUS
<1>o. PICK origin : origin = [p \in 1..n |-> CHOOSE i \in 1..n : PlaceInTime(records, i) = p]
  OBVIOUS
<1>1. key \in [1..n -> Int]
  BY <1>k
<1>2. ASSUME NEW i \in 1..n
      PROVE  place[i] = Cardinality({j \in 1..n : key[j] < key[i] \/ (key[j] = key[i] /\ j <= i)})
  <2>1. {j \in 1..n : key[j] < key[i] \/ (key[j] = key[i] /\ j <= i)} =
        {j \in DOMAIN records : records[j].t < records[i].t \/ (records[j].t = records[i].t /\ j <= i)}
    BY <1>k
  <2>2. place[i] = PlaceInTime(records, i)
    BY <1>p
  <2> QED BY <2>1, <2>2, Zenon DEF PlaceInTime
<1>3. /\ \A k \in 1..n : \E i \in 1..n : place[i] = k
      /\ \A i, j \in 1..n : place[i] = place[j] => i = j
      /\ \A i \in 1..n : place[i] \in 1..n
      /\ \A i, j \in 1..n : place[i] < place[j] => key[i] <= key[j]
  BY <1>1, <1>2, Ranked
<1>4. \A p \in 1..n : origin[p] \in 1..n /\ place[origin[p]] = p
  <2> SUFFICES ASSUME NEW p \in 1..n PROVE origin[p] \in 1..n /\ place[origin[p]] = p
    OBVIOUS
  <2>1. \E i \in 1..n : PlaceInTime(records, i) = p
    BY <1>3, <1>p
  <2>2. origin[p] = CHOOSE i \in 1..n : PlaceInTime(records, i) = p
    BY <1>o
  <2>3. origin[p] \in 1..n /\ PlaceInTime(records, origin[p]) = p
    BY <2>1, <2>2
  <2> QED BY <1>p, <2>3
<1>5. origin \in [1..n -> 1..n]
  BY <1>4, <1>o
<1>6. InTime(records) = [p \in 1..n |-> records[origin[p]]]
  BY <1>o DEF InTime
<1>7. \A i \in 1..n : \E p \in 1..n : origin[p] = i
  <2> SUFFICES ASSUME NEW i \in 1..n PROVE \E p \in 1..n : origin[p] = i
    OBVIOUS
  <2>1. place[i] \in 1..n
    BY <1>3
  <2>2. origin[place[i]] \in 1..n /\ place[origin[place[i]]] = place[i]
    BY <1>4, <2>1
  <2> QED BY <1>3, <2>1, <2>2
<1>8. \A p, q \in 1..n : origin[p] = origin[q] => p = q
  BY <1>4
<1>9. ASSUME NEW p \in 1..n, NEW q \in 1..n, p < q
      PROVE  records[origin[p]].t <= records[origin[q]].t
  <2>1. origin[p] \in 1..n /\ origin[q] \in 1..n /\ place[origin[p]] < place[origin[q]]
    BY <1>4, <1>9
  <2>2. key[origin[p]] <= key[origin[q]]
    BY <1>3, <2>1
  <2> QED BY <1>k, <2>1, <2>2
<1> QED BY <1>5, <1>6, <1>7, <1>8, <1>9

(* A step in a rising list from at most a to more: the place where it is.   *)
LEMMA StepPast ==
    ASSUME NEW n \in Nat, NEW time \in [1..n -> Nat],
           \A p, q \in 1..n : p < q => time[p] <= time[q],
           NEW p \in 1..n, NEW q \in 1..n, time[p] < time[q]
    PROVE  \E r \in 1..(n - 1) : time[r] = time[p] /\ time[r + 1] > time[p] /\ time[r + 1] <= time[q]
<1>1. PICK S : S = {x \in 1..n : time[x] > time[p]}
  OBVIOUS
<1>2. S \in SUBSET Nat /\ S # {}
  BY <1>1
<1>3. PICK m \in S : \A y \in S : m <= y
  BY <1>2, LeastOf
<1>4. m \in 1..n /\ time[m] > time[p] /\ m <= q
  BY <1>1, <1>3
<1>5. p < m
  <2> SUFFICES ASSUME m <= p PROVE FALSE
    BY <1>4
  <2>1. m = p \/ time[m] <= time[p]
    BY <1>4
  <2> QED BY <1>4, <2>1
<1>6. m - 1 \in 1..(n - 1) /\ m - 1 \in 1..n /\ p <= m - 1 /\ (m - 1) + 1 = m
  BY <1>4, <1>5
<1>7. m - 1 \notin S
  <2> SUFFICES ASSUME m - 1 \in S PROVE FALSE
    OBVIOUS
  <2>1. m <= m - 1
    BY <1>3
  <2> QED BY <1>4, <2>1
<1>8. time[m - 1] <= time[p]
  BY <1>1, <1>6, <1>7
<1>9. time[m - 1] >= time[p]
  BY <1>6
<1>10. time[m] <= time[q]
  BY <1>4
<1>11. time[m - 1] = time[p]
  BY <1>6, <1>8, <1>9
<1> QED BY <1>4, <1>6, <1>10, <1>11

(* The gaps between neighbours are the empty stretches, whatever the order  *)
(* of the rows.                                                             *)
LEMMA GapsAreEmpty ==
    ASSUME NEW n \in Nat, NEW records, DOMAIN records = 1..n, \A i \in 1..n : records[i].t \in Nat,
           NEW longest \in Nat
    PROVE  GapsExact(GapsIn(InTime(records), longest), records, longest)
<1>o. PICK origin \in [1..n -> 1..n] :
              /\ InTime(records) = [p \in 1..n |-> records[origin[p]]]
              /\ \A i \in 1..n : \E p \in 1..n : origin[p] = i
              /\ \A p, q \in 1..n : origin[p] = origin[q] => p = q
              /\ \A p, q \in 1..n : p < q => records[origin[p]].t <= records[origin[q]].t
  BY RowsInTime
<1>t. PICK time : time = [p \in 1..n |-> records[origin[p]].t]
  OBVIOUS
<1>s. PICK sorted : sorted = InTime(records)
  OBVIOUS
<1>1. /\ time \in [1..n -> Nat]
      /\ \A p, q \in 1..n : p < q => time[p] <= time[q]
      /\ \A p \in 1..n : sorted[p].t = time[p]
  BY <1>o, <1>t, <1>s
<1>2. Len(sorted) = n
  BY <1>o, <1>s
<1>3. \A i \in 1..n : \E p \in 1..n : records[i].t = time[p]
  BY <1>o, <1>t
<1>4. \A p \in 1..n : \E i \in 1..n : records[i].t = time[p]
  BY <1>o, <1>t
<1>r. PICK rows : rows = ToSet(records)
  OBVIOUS
<1>5. rows = {records[i] : i \in 1..n}
  BY <1>r DEF ToSet
<1>g. PICK gaps : gaps = GapsIn(sorted, longest)
  OBVIOUS
<1>6. \A g : g \in gaps <=> \E p \in 1..(n - 1) : g = <<time[p], time[p + 1]>> /\ time[p + 1] - time[p] > longest
  <2>1. \A p \in 1..(n - 1) : p \in 1..n /\ p + 1 \in 1..n
    OBVIOUS
  <2>2. \A p \in 1..(n - 1) : sorted[p].t = time[p] /\ sorted[p + 1].t = time[p + 1]
    BY <1>1, <2>1
  <2>3. gaps = {<<sorted[i[1]].t, sorted[i[2]].t>> :
                  i \in {j \in {<<p, p + 1>> : p \in 1..(n - 1)} : sorted[j[2]].t - sorted[j[1]].t > longest}}
    BY <1>g, <1>2 DEF GapsIn, Neighbours
  <2>4. ASSUME NEW g, g \in gaps
        PROVE  \E p \in 1..(n - 1) : g = <<time[p], time[p + 1]>> /\ time[p + 1] - time[p] > longest
    <3>1. PICK j \in {<<p, p + 1>> : p \in 1..(n - 1)} :
             g = <<sorted[j[1]].t, sorted[j[2]].t>> /\ sorted[j[2]].t - sorted[j[1]].t > longest
      BY <2>3, <2>4
    <3>2. PICK p \in 1..(n - 1) : j = <<p, p + 1>>
      BY <3>1
    <3>3. j[1] = p /\ j[2] = p + 1
      BY <3>2
    <3> QED BY <2>2, <3>1, <3>3
  <2>5. ASSUME NEW p \in 1..(n - 1), time[p + 1] - time[p] > longest PROVE <<time[p], time[p + 1]>> \in gaps
    <3>1. PICK j : j = <<p, p + 1>>
      OBVIOUS
    <3>2. j[1] = p /\ j[2] = p + 1 /\ j \in {<<x, x + 1>> : x \in 1..(n - 1)}
      BY <3>1
    <3>3. <<sorted[j[1]].t, sorted[j[2]].t>> \in gaps
      BY <2>2, <2>3, <2>5, <3>2
    <3> QED BY <2>2, <3>2, <3>3
  <2> QED BY <2>4, <2>5
<1>c. \A c \in rows : \E q \in 1..n : c.t = time[q]
  <2>1. ASSUME NEW c \in rows PROVE \E q \in 1..n : c.t = time[q]
    <3>1. PICK i \in 1..n : c = records[i]
      BY <1>5, Zenon
    <3> QED BY <1>3, <3>1, Zenon
  <2> QED BY <2>1
<1>d. ASSUME NEW p \in 1..(n - 1), NEW q \in 1..n
      PROVE  time[q] <= time[p] \/ time[q] >= time[p + 1]
  <2>1. p \in 1..n /\ p + 1 \in 1..n
    OBVIOUS
  <2>2. q = p \/ q < p \/ q = p + 1 \/ p + 1 < q
    BY <2>1
  <2>3. \A x \in 1..n : time[x] <= time[x]
    BY <1>1
  <2>4. q = p \/ q < p => time[q] <= time[p]
    BY <1>1, <2>1, <2>3, Zenon
  <2>5. q = p + 1 \/ p + 1 < q => time[q] >= time[p + 1]
    <3>1. q = p + 1 => time[q] >= time[p + 1]
      BY <2>1, <2>3
    <3>2. p + 1 < q => time[p + 1] <= time[q]
      BY <1>1, <2>1, Zenon
    <3>3. time[q] \in Nat /\ time[p + 1] \in Nat
      BY <1>1, <2>1
    <3>4. time[p + 1] <= time[q] => time[q] >= time[p + 1]
      BY <3>3
    <3> QED BY <3>1, <3>2, <3>4, Zenon
  <2> QED BY <2>2, <2>4, <2>5, Zenon
<1>p. \A p \in 1..(n - 1) : p \in 1..n /\ p + 1 \in 1..n
  OBVIOUS
<1>7. ASSUME NEW g, g \in gaps PROVE \E a, b \in rows : g = <<a.t, b.t>>
  <2>1. PICK p \in 1..(n - 1) : g = <<time[p], time[p + 1]>>
    BY <1>6, <1>7
  <2>2. p \in 1..n /\ p + 1 \in 1..n
    BY <1>p, Zenon
  <2>3. PICK i \in 1..n, j \in 1..n : records[i].t = time[p] /\ records[j].t = time[p + 1]
    BY <1>4, <2>2
  <2>4. records[i] \in rows /\ records[j] \in rows
    BY <1>5
  <2> QED BY <2>1, <2>3, <2>4
<1>8. ASSUME NEW a \in rows, NEW b \in rows, <<a.t, b.t>> \in gaps
      PROVE  b.t - a.t > longest /\ \A c \in rows : c.t <= a.t \/ c.t >= b.t
  <2>1. PICK p \in 1..(n - 1) : <<a.t, b.t>> = <<time[p], time[p + 1]>> /\ time[p + 1] - time[p] > longest
    BY <1>6, <1>8
  <2>2. a.t = time[p] /\ b.t = time[p + 1]
    BY <2>1
  <2>3. p \in 1..n /\ p + 1 \in 1..n
    BY <1>p, Zenon
  <2>4. ASSUME NEW c \in rows PROVE c.t <= a.t \/ c.t >= b.t
    <3>1. PICK q \in 1..n : c.t = time[q]
      BY <1>c, Zenon
    <3>3. time[q] <= time[p] \/ time[q] >= time[p + 1]
      BY <1>d, Zenon
    <3> QED BY <2>2, <3>1, <3>3
  <2> QED BY <2>1, <2>2, <2>4
<1>9. ASSUME NEW a \in rows, NEW b \in rows, b.t - a.t > longest,
             \A c \in rows : c.t <= a.t \/ c.t >= b.t
      PROVE  <<a.t, b.t>> \in gaps
  <2>0. PICK p \in 1..n : a.t = time[p]
    BY <1>c, Zenon
  <2>1. PICK q \in 1..n : b.t = time[q]
    BY <1>c, Zenon
  <2>2. a.t = time[p] /\ b.t = time[q]
    BY <2>0, <2>1
  <2>3. time[p] \in Nat /\ time[q] \in Nat /\ time[q] - time[p] > longest
    BY <1>1, <1>9, <2>2
  <2>4. time[p] < time[q]
    BY <2>3
  <2>5. PICK r \in 1..(n - 1) : time[r] = time[p] /\ time[r + 1] > time[p] /\ time[r + 1] <= time[q]
    BY <1>1, <2>4, StepPast
  <2>6. r + 1 \in 1..n
    BY <1>p, Zenon
  <2>7. PICK i \in 1..n : records[i].t = time[r + 1]
    BY <1>4, <2>6
  <2>8. records[i] \in rows
    BY <1>5
  <2>9. time[r + 1] <= time[p] \/ time[r + 1] >= time[q]
    BY <1>9, <2>2, <2>7, <2>8
  <2>10. time[r + 1] \in Nat
    BY <1>1, <2>6
  <2>11. time[r + 1] = time[q]
    <3>1. ASSUME NEW x \in Nat, NEW y \in Nat, NEW z \in Nat, z > x, z <= y, z <= x \/ z >= y PROVE z = y
      BY <3>1
    <3> QED BY <2>3, <2>5, <2>9, <2>10, <3>1, Zenon
  <2>12. time[r + 1] - time[r] > longest
    BY <2>3, <2>5, <2>11
  <2>13. <<a.t, b.t>> = <<time[r], time[r + 1]>>
    BY <2>2, <2>5, <2>11
  <2> QED BY <1>6, <2>12, <2>13
<1>10. \A g \in gaps : \E a, b \in rows : g = <<a.t, b.t>>
  BY <1>7, Zenon
<1>11. \A a, b \in rows :
          <<a.t, b.t>> \in gaps <=> b.t - a.t > longest /\ \A c \in rows : c.t <= a.t \/ c.t >= b.t
  BY <1>8, <1>9, Zenon
<1>12. GapsExact(gaps, records, longest)
  BY <1>10, <1>11, <1>r, Zenon DEF GapsExact
<1> QED BY <1>12, <1>g, <1>s, Zenon

-----------------------------------------------------------------------------
(* The windows of a list of trades. *)
Earlier(times, limit) == Cardinality({i \in 1..Len(times) : times[i] < limit})
FirstLow(times) ==
    CHOOSE firstLow : firstLow = [start \in 0..(LastTime + Hour) |->
            IF start >= times[Len(times)] THEN Nil
            ELSE IF Earlier(times, start + Hour) - Earlier(times, start) < LowTrades THEN <<start>>
            ELSE firstLow[start + Hour]]
Within(times, from) == Cardinality({i \in 1..Len(times) : times[i] \in from..(from + Hour - 1)})

LEMMA EarlierInWindow ==
    ASSUME NEW n \in Nat, NEW times \in [1..n -> Nat], Len(times) = n, NEW start \in Nat
    PROVE  Earlier(times, start + Hour) - Earlier(times, start) = Within(times, start)
<1>h. Hour \in Nat \ {0}
  BY HistoryConstants
<1>a. PICK A : A = {i \in 1..n : times[i] < start}
  OBVIOUS
<1>b. PICK B : B = {i \in 1..n : times[i] \in start..(start + Hour - 1)}
  OBVIOUS
<1>c. PICK C : C = {i \in 1..n : times[i] < start + Hour}
  OBVIOUS
<1>1. \A i \in 1..n : times[i] \in Nat
  OBVIOUS
<1>2. C = A \cup B /\ A \cap B = {}
  BY <1>1, <1>a, <1>b, <1>c, <1>h
<1>3. IsFiniteSet(A) /\ IsFiniteSet(B)
  <2>1. IsFiniteSet(1..n)
    BY FS_Interval
  <2>2. A \subseteq 1..n /\ B \subseteq 1..n
    BY <1>a, <1>b
  <2> QED BY <2>1, <2>2, FS_Subset
<1>4. Cardinality(C) = Cardinality(A) + Cardinality(B)
  <2>1. Cardinality(A \cup B) = Cardinality(A) + Cardinality(B) - Cardinality(A \cap B)
    BY <1>3, FS_Union
  <2>2. Cardinality(A \cap B) = 0
    BY <1>2, FS_EmptySet
  <2>3. Cardinality(A) \in Nat /\ Cardinality(B) \in Nat
    BY <1>3, FS_CardinalityType
  <2> QED BY <1>2, <2>1, <2>2, <2>3
<1>5. Cardinality(A) \in Nat /\ Cardinality(B) \in Nat
  BY <1>3, FS_CardinalityType
<1>6. Earlier(times, start) = Cardinality(A) /\ Earlier(times, start + Hour) = Cardinality(C)
      /\ Within(times, start) = Cardinality(B)
  BY <1>a, <1>b, <1>c DEF Earlier, Within
<1> QED BY <1>4, <1>5, <1>6

LEMMA FirstLowUnfold ==
    ASSUME NEW n \in Nat \ {0}, NEW times \in [1..n -> Times], Len(times) = n
    PROVE  /\ FirstLow(times) = [start \in 0..(LastTime + Hour) |->
                  IF start >= times[n] THEN Nil
                  ELSE IF Earlier(times, start + Hour) - Earlier(times, start) < LowTrades THEN <<start>>
                  ELSE FirstLow(times)[start + Hour]]
<1>0. Hour \in Nat \ {0} /\ LastTime \in Nat
  BY HistoryConstants
<1>1. times[n] \in 0..LastTime
  BY DEF Times
<1>h. PICK hi : hi = LastTime + Hour
  OBVIOUS
<1>w. PICK low : low = {s \in 0..hi : Earlier(times, s + Hour) - Earlier(times, s) < LowTrades}
  OBVIOUS
<1>s. PICK stop : stop = {s \in 0..hi : s >= times[n] \/ s \in low}
  OBVIOUS
<1>v. PICK v : v = [s \in 0..hi |-> IF s >= times[n] THEN Nil ELSE <<s>>]
  OBVIOUS
<1>n. PICK next : next = [s \in 0..hi |-> s + Hour]
  OBVIOUS
<1>S. PICK S : S = {v[s] : s \in 0..hi}
  OBVIOUS
<1>2. \E f \in [0..hi -> S] :
        \A s \in 0..hi : (s \in stop => f[s] = v[s]) /\ (s \notin stop => f[s] = f[next[s]])
  <2>1. 0 \in Int /\ hi \in Int
    BY <1>0, <1>h
  <2>2. \A s \in 0..hi : s \notin stop => next[s] \in 0..hi /\ next[s] > s
    BY <1>0, <1>1, <1>h, <1>s, <1>n
  <2>3. v \in [0..hi -> S]
    BY <1>v, <1>S
  <2>4. next \in Onwards(0, hi, stop)
    BY <1>0, <1>n, <2>1, <2>2 DEF Onwards
  <2>5. Downwards(0, hi, S, stop, v, next) # {}
    BY <2>1, <2>3, <2>4, RecursionDownward, Zenon
  <2> QED BY <2>5 DEF Downwards
<1>3. PICK f \in [0..hi -> S] :
        \A s \in 0..hi : (s \in stop => f[s] = v[s]) /\ (s \notin stop => f[s] = f[next[s]])
  BY <1>2
<1>4. ASSUME NEW s \in 0..hi
      PROVE  f[s] = IF s >= times[n] THEN Nil
                    ELSE IF Earlier(times, s + Hour) - Earlier(times, s) < LowTrades THEN <<s>>
                    ELSE f[s + Hour]
  <2>1. s \in low <=> Earlier(times, s + Hour) - Earlier(times, s) < LowTrades
    BY <1>w
  <2>2. v[s] = (IF s >= times[n] THEN Nil ELSE <<s>>) /\ next[s] = s + Hour
    BY <1>v, <1>n
  <2>3. s \in stop <=> s >= times[n] \/ s \in low
    BY <1>s
  <2>4. (s \in stop => f[s] = v[s]) /\ (s \notin stop => f[s] = f[next[s]])
    BY <1>3
  <2> QED BY <2>1, <2>2, <2>3, <2>4, Zenon
<1>5. f = [s \in 0..hi |-> f[s]]
  BY <1>3
<1>6. f = [s \in 0..hi |->
             IF s >= times[n] THEN Nil
             ELSE IF Earlier(times, s + Hour) - Earlier(times, s) < LowTrades THEN <<s>>
             ELSE f[s + Hour]]
  BY <1>4, <1>5, Zenon
<1>7. f = [s \in 0..(LastTime + Hour) |->
             IF s >= times[Len(times)] THEN Nil
             ELSE IF Earlier(times, s + Hour) - Earlier(times, s) < LowTrades THEN <<s>>
             ELSE f[s + Hour]]
  BY <1>6, <1>h, Zenon
<1>8. FirstLow(times) = [s \in 0..(LastTime + Hour) |->
             IF s >= times[Len(times)] THEN Nil
             ELSE IF Earlier(times, s + Hour) - Earlier(times, s) < LowTrades THEN <<s>>
             ELSE FirstLow(times)[s + Hour]]
  BY <1>7, Zenon DEF FirstLow
<1> QED BY <1>8, Zenon

(* The search goes through every window from the first trade on. *)
LEMMA LowFound ==
    ASSUME NEW n \in Nat \ {0}, NEW times \in [1..n -> Times], Len(times) = n
    PROVE  FirstLow(times)[times[1]] # Nil <=>
               \E k \in Nat : times[1] + k * Hour < times[n] /\ Within(times, times[1] + k * Hour) < LowTrades
<1>0. Hour \in Nat \ {0} /\ LastTime \in Nat /\ LowTrades \in Nat
  BY HistoryConstants
<1>1. times[n] \in 0..LastTime /\ times[1] \in 0..LastTime /\ times \in [1..n -> Nat]
  BY DEF Times
<1>h. PICK hi : hi = LastTime + Hour
  OBVIOUS
<1>f. PICK f : f = FirstLow(times)
  OBVIOUS
<1>w. PICK low : low = {s \in Nat : Within(times, s) < LowTrades}
  OBVIOUS
<1>l. PICK newest : newest = times[n]
  OBVIOUS
<1>2. \A s \in 0..hi : f[s] = IF s >= newest THEN Nil ELSE IF s \in low THEN <<s>> ELSE f[s + Hour]
  <2> SUFFICES ASSUME NEW s \in 0..hi
               PROVE  f[s] = IF s >= newest THEN Nil ELSE IF s \in low THEN <<s>> ELSE f[s + Hour]
    OBVIOUS
  <2>0. s \in Nat /\ n \in Nat
    BY <1>0, <1>h
  <2>1. s \in low <=> Earlier(times, s + Hour) - Earlier(times, s) < LowTrades
    <3>1. Earlier(times, s + Hour) - Earlier(times, s) = Within(times, s)
      BY <1>1, <2>0, EarlierInWindow
    <3> QED BY <1>w, <2>0, <3>1
  <2>2. f = [start \in 0..hi |->
                  IF start >= times[n] THEN Nil
                  ELSE IF Earlier(times, start + Hour) - Earlier(times, start) < LowTrades THEN <<start>>
                  ELSE f[start + Hour]]
    <3>1. FirstLow(times) = [start \in 0..(LastTime + Hour) |->
                  IF start >= times[n] THEN Nil
                  ELSE IF Earlier(times, start + Hour) - Earlier(times, start) < LowTrades THEN <<start>>
                  ELSE FirstLow(times)[start + Hour]]
      BY FirstLowUnfold, Zenon
    <3> QED BY <1>f, <1>h, <3>1, Zenon
  <2>3. f[s] = IF s >= times[n] THEN Nil
               ELSE IF Earlier(times, s + Hour) - Earlier(times, s) < LowTrades THEN <<s>>
               ELSE f[s + Hour]
    BY <2>2, Zenon
  <2> QED BY <1>l, <2>1, <2>3, Zenon
<1>s. PICK stop : stop = {s \in 0..hi : s >= newest \/ s \in low}
  OBVIOUS
<1>n. PICK next : next = [s \in 0..hi |-> s + Hour]
  OBVIOUS
<1>H. PICK H : H = {s \in 0..hi : f[s] # Nil <=> \E k \in Nat : s + k * Hour < newest /\ s + k * Hour \in low}
  OBVIOUS
<1>k. ASSUME NEW s \in Nat, NEW k \in Nat
      PROVE  /\ s + k * Hour \in Nat /\ s + k * Hour >= s
             /\ (s + Hour) + k * Hour = s + (k + 1) * Hour
  <2>1. k * Hour \in Nat
    BY <1>0
  <2>2. (k + 1) * Hour = k * Hour + Hour
    BY <1>0
  <2> QED BY <1>0, <2>1, <2>2
<1>3. ASSUME NEW s \in 0..hi, s \in stop PROVE s \in H
  <2>0. s \in Nat /\ newest \in Nat /\ s + 0 * Hour = s
    BY <1>0, <1>1, <1>l
  <2>1. CASE s >= newest
    <3>1. f[s] = Nil
      BY <1>2, <2>1
    <3>2. \A k \in Nat : ~ (s + k * Hour < newest)
      <4> SUFFICES ASSUME NEW k \in Nat PROVE ~ (s + k * Hour < newest)
        OBVIOUS
      <4>x. PICK x : x = s + k * Hour
        OBVIOUS
      <4>1. x \in Nat /\ x >= s
        BY <1>k, <2>0, <4>x
      <4>2. ~ (x < newest)
        BY <2>0, <2>1, <4>1
      <4> QED BY <4>x, <4>2
    <3>3. f[s] # Nil <=> \E k \in Nat : s + k * Hour < newest /\ s + k * Hour \in low
      BY <3>1, <3>2, Zenon
    <3> QED BY <1>H, <3>3, Zenon
  <2>2. CASE ~ (s >= newest)
    <3>1. s \in low
      BY <1>s, <1>3, <2>2
    <3>2. f[s] = <<s>>
      BY <1>2, <2>2, <3>1
    <3>3. f[s] # Nil
      BY <3>2 DEF Nil
    <3>4. s + 0 * Hour < newest /\ s + 0 * Hour \in low /\ 0 \in Nat
      <4>1. s < newest
        BY <2>0, <2>2
      <4> QED BY <2>0, <3>1, <4>1
    <3>5. \E k \in Nat : s + k * Hour < newest /\ s + k * Hour \in low
      BY <3>4, Zenon
    <3>6. f[s] # Nil <=> \E k \in Nat : s + k * Hour < newest /\ s + k * Hour \in low
      BY <3>3, <3>5, Zenon
    <3> QED BY <1>H, <3>6, Zenon
  <2> QED BY <2>1, <2>2
<1>4. ASSUME NEW s \in 0..hi, s \notin stop, next[s] \in H PROVE s \in H
  <2>0. s \in Nat /\ newest \in Nat /\ s + 0 * Hour = s
    BY <1>0, <1>1, <1>l
  <2>1. ~ (s >= newest) /\ s \notin low
    BY <1>s, <1>4
  <2>2. f[s] = f[s + Hour]
    BY <1>2, <2>1
  <2>3. s + Hour \in H
    BY <1>n, <1>4
  <2>4. f[s + Hour] # Nil <=> \E k \in Nat : (s + Hour) + k * Hour < newest /\ (s + Hour) + k * Hour \in low
    BY <1>H, <2>3, Zenon
  <2>5. ASSUME NEW k \in Nat, (s + Hour) + k * Hour < newest, (s + Hour) + k * Hour \in low
        PROVE  \E j \in Nat : s + j * Hour < newest /\ s + j * Hour \in low
    <3>1. (s + Hour) + k * Hour = s + (k + 1) * Hour /\ k + 1 \in Nat
      BY <1>k, <2>0
    <3>2. s + (k + 1) * Hour < newest /\ s + (k + 1) * Hour \in low
      BY <2>5, <3>1, Zenon
    <3> QED BY <3>1, <3>2, Zenon
  <2>6. ASSUME NEW k \in Nat, s + k * Hour < newest, s + k * Hour \in low
        PROVE  \E j \in Nat : (s + Hour) + j * Hour < newest /\ (s + Hour) + j * Hour \in low
    <3>1. k # 0
      BY <2>0, <2>1, <2>6
    <3>2. k - 1 \in Nat /\ (k - 1) + 1 = k
      BY <3>1
    <3>3. (s + Hour) + (k - 1) * Hour = s + ((k - 1) + 1) * Hour
      BY <1>k, <2>0, <3>2, Zenon
    <3>4. (s + Hour) + (k - 1) * Hour = s + k * Hour
      BY <3>2, <3>3, Zenon
    <3>5. (s + Hour) + (k - 1) * Hour < newest /\ (s + Hour) + (k - 1) * Hour \in low
      BY <2>6, <3>4, Zenon
    <3> QED BY <3>2, <3>5, Zenon
  <2>7. f[s] # Nil <=> \E k \in Nat : s + k * Hour < newest /\ s + k * Hour \in low
    BY <2>2, <2>4, <2>5, <2>6, Zenon
  <2> QED BY <1>H, <2>7, Zenon
<1>5. times[1] \in H
  <2>1. 0 \in Int /\ hi \in Int
    BY <1>0, <1>h
  <2>2. \A s \in 0..hi : s \notin stop => next[s] \in 0..hi /\ next[s] > s
    BY <1>0, <1>1, <1>h, <1>s, <1>n, <1>l
  <2>3. /\ \A s \in 0..hi : s \in stop => s \in H
        /\ \A s \in 0..hi : s \notin stop /\ next[s] \in H => s \in H
    BY <1>3, <1>4
  <2>4. \A s \in 0..hi : s \in H
    BY <2>1, <2>2, <2>3, DownwardInduction, ZenonT(60)
  <2>5. times[1] \in 0..hi
    BY <1>0, <1>1, <1>h
  <2> QED BY <2>4, <2>5
<1>6. f[times[1]] # Nil <=> \E k \in Nat : times[1] + k * Hour < newest /\ times[1] + k * Hour \in low
  BY <1>H, <1>5, Zenon
<1>7. \A k \in Nat : times[1] + k * Hour \in low <=> Within(times, times[1] + k * Hour) < LowTrades
  <2> SUFFICES ASSUME NEW k \in Nat
               PROVE  times[1] + k * Hour \in low <=> Within(times, times[1] + k * Hour) < LowTrades
    OBVIOUS
  <2>1. times[1] \in Nat
    BY <1>0, <1>1
  <2>2. times[1] + k * Hour \in Nat
    BY <1>k, <2>1, Zenon
  <2> QED BY <1>w, <2>2
<1> QED BY <1>6, <1>7, <1>f, <1>l, Zenon

-----------------------------------------------------------------------------
LEMMA LowVolumeSearches ==
    ASSUME NEW n \in Nat \ {0}, NEW times \in [1..n -> Times], Len(times) = n, times[1] # times[n]
    PROVE  LowVolume(times) <=> FirstLow(times)[times[1]] # Nil
<1>1. n # 0
  OBVIOUS
<1> QED BY <1>1, Zenon DEF LowVolume, FirstLow, Earlier

LEMMA TradesAreJudged ==
    ASSUME NEW trades \in ListsOf([t : Times], MaxRecords), trades # Nil
    PROVE  LET times == {r.t : r \in ToSet(trades)}
               InHour(from) == Cardinality({i \in DOMAIN trades :
                                trades[i].t \in from..(from + Hour - 1)})
               windows == {Min(times) + k * Hour : k \in 0..LastTime}
           IN  /\ GapsExact(TradeFlags(trades).gaps, trades, Hour)
               /\ Cardinality(times) > 1 =>
                   (TradeFlags(trades).low <=>
                        \E from \in windows : from < Max(times) /\ InHour(from) < LowTrades)
<1>0. Hour \in Nat \ {0} /\ LastTime \in Nat /\ LowTrades \in Nat
  BY HistoryConstants
<1>n. PICK n \in Nat : trades \in [1..n -> [t : Times]]
  BY HistoryConstants DEF ListsOf
<1>1. n # 0
  <2> SUFFICES ASSUME n = 0 PROVE FALSE
    OBVIOUS
  <2>1. 1..n = {}
    OBVIOUS
  <2>2. trades = <<>>
    BY <1>n, <2>1
  <2> QED BY <2>2 DEF Nil
<1>2. DOMAIN trades = 1..n /\ \A i \in 1..n : trades[i].t \in Times /\ trades[i].t \in Nat
  BY <1>n DEF Times
<1>o. PICK origin \in [1..n -> 1..n] :
              /\ InTime(trades) = [p \in 1..n |-> trades[origin[p]]]
              /\ \A i \in 1..n : \E p \in 1..n : origin[p] = i
              /\ \A p, q \in 1..n : origin[p] = origin[q] => p = q
              /\ \A p, q \in 1..n : p < q => trades[origin[p]].t <= trades[origin[q]].t
  BY <1>2, RowsInTime
<1>s. PICK ts : ts = [p \in 1..n |-> trades[origin[p]].t]
  OBVIOUS
<1>3. ts \in [1..n -> Times] /\ Len(ts) = n /\ \A p \in 1..n : ts[p] \in Nat
  <2>1. \A p \in 1..n : trades[origin[p]].t \in Times /\ trades[origin[p]].t \in Nat
    <3> SUFFICES ASSUME NEW p \in 1..n PROVE trades[origin[p]].t \in Times /\ trades[origin[p]].t \in Nat
      OBVIOUS
    <3>1. origin[p] \in 1..n
      OBVIOUS
    <3> QED BY <1>2, <3>1, Zenon
  <2>2. ts \in [1..n -> Times]
    BY <1>s, <2>1, Zenon
  <2>3. \A p \in 1..n : ts[p] \in Nat
    BY <1>s, <2>1, Zenon
  <2>4. Len(ts) = n
    BY <2>2
  <2> QED BY <2>2, <2>3, <2>4
<1>4. ASSUME NEW p \in 1..n, NEW q \in 1..n, p < q PROVE ts[p] <= ts[q]
  <2>1. trades[origin[p]].t <= trades[origin[q]].t
    BY <1>o, <1>4, Zenon
  <2>2. ts[p] = trades[origin[p]].t /\ ts[q] = trades[origin[q]].t
    BY <1>s, Zenon
  <2> QED BY <2>1, <2>2, Zenon
<1>5. TradeFlags(trades).low = LowVolume(ts) /\ TradeFlags(trades).gaps = GapsIn(InTime(trades), Hour)
  <2>1. [i \in DOMAIN InTime(trades) |-> InTime(trades)[i].t] = ts
    BY <1>o, <1>s
  <2> QED BY <2>1 DEF TradeFlags
<1>6. GapsExact(TradeFlags(trades).gaps, trades, Hour)
  <2>1. GapsExact(GapsIn(InTime(trades), Hour), trades, Hour)
    BY <1>0, <1>2, GapsAreEmpty
  <2> QED BY <1>5, <2>1, Zenon
<1>t. PICK times : times = {r.t : r \in ToSet(trades)}
  OBVIOUS
<1>7. times = {ts[p] : p \in 1..n}
  <2>1. times = {trades[i].t : i \in 1..n}
    BY <1>t, <1>2 DEF ToSet
  <2>2. \A i \in 1..n : \E p \in 1..n : ts[p] = trades[i].t
    BY <1>o, <1>s
  <2>3. \A p \in 1..n : \E i \in 1..n : ts[p] = trades[i].t
    BY <1>o, <1>s
  <2>4. \A x \in times : x \in {ts[p] : p \in 1..n}
    <3> SUFFICES ASSUME NEW i \in 1..n PROVE trades[i].t \in {ts[p] : p \in 1..n}
      BY <2>1, Zenon
    <3>1. PICK p \in 1..n : ts[p] = trades[i].t
      BY <2>2, Zenon
    <3> QED BY <3>1, Zenon
  <2>5. \A p \in 1..n : ts[p] \in times
    <3> SUFFICES ASSUME NEW p \in 1..n PROVE ts[p] \in times
      OBVIOUS
    <3>1. PICK i \in 1..n : ts[p] = trades[i].t
      BY <2>3, Zenon
    <3> QED BY <2>1, <3>1, Zenon
  <2> QED BY <2>4, <2>5
<1>8. /\ ts[1] \in times /\ ts[n] \in times
      /\ \A x \in times : x \in Nat /\ ts[1] <= x /\ x <= ts[n]
  <2>1. 1 \in 1..n /\ n \in 1..n
    BY <1>1
  <2>2. \A p \in 1..n : ts[p] \in Nat /\ ts[1] <= ts[p] /\ ts[p] <= ts[n]
    <3> SUFFICES ASSUME NEW p \in 1..n PROVE ts[p] \in Nat /\ ts[1] <= ts[p] /\ ts[p] <= ts[n]
      OBVIOUS
    <3>1. (p = 1 \/ 1 < p) /\ (p = n \/ p < n)
      OBVIOUS
    <3>2. ts[p] \in Nat /\ ts[1] \in Nat /\ ts[n] \in Nat
      BY <1>3, <2>1
    <3>3. p = 1 \/ ts[1] <= ts[p]
      BY <1>4, <2>1, <3>1, Zenon
    <3>4. p = n \/ ts[p] <= ts[n]
      BY <1>4, <2>1, <3>1, Zenon
    <3> QED BY <3>2, <3>3, <3>4
  <2> QED BY <1>7, <2>1, <2>2
<1>m. PICK least, most : least = Min(times) /\ most = Max(times)
  OBVIOUS
<1>9. least = ts[1] /\ most = ts[n]
  <2>1. times \in SUBSET Nat /\ times \in SUBSET Int /\ times # {}
    BY <1>8
  <2>2. IsFiniteSet(times)
    <3>1. IsFiniteSet(1..n)
      BY FS_Interval
    <3>2. IsFiniteSet({ts[p] : p \in 1..n})
      BY <3>1, ImageFinite
    <3> QED BY <1>7, <3>2
  <2>3. least \in times /\ \A y \in times : least <= y
    BY <1>m, <2>1, LeastOf
  <2>4. most \in times /\ \A y \in times : most >= y
    BY <1>m, <2>1, <2>2, MaxOfFinite
  <2>5. least <= ts[1] /\ ts[1] <= least /\ most <= ts[n] /\ ts[n] <= most
    BY <1>8, <2>3, <2>4
  <2>6. least \in Nat /\ most \in Nat /\ ts[1] \in Nat /\ ts[n] \in Nat
    BY <1>8, <2>3, <2>4
  <2> QED BY <2>5, <2>6
<1>10. Cardinality(times) > 1 => ts[1] # ts[n]
  <2> SUFFICES ASSUME ts[1] = ts[n] PROVE ~ (Cardinality(times) > 1)
    OBVIOUS
  <2>1. times = {ts[1]}
    BY <1>8
  <2>2. Cardinality(times) = 1
    BY <2>1, FS_Singleton
  <2> QED BY <2>2
<1>c. PICK count : count = [from \in Nat |-> Cardinality({i \in 1..n : trades[i].t \in from..(from + Hour - 1)})]
  OBVIOUS
<1>11. ASSUME NEW from \in Nat PROVE Within(ts, from) = count[from]
  <2>b. PICK B : B = {p \in 1..n : ts[p] \in from..(from + Hour - 1)}
    OBVIOUS
  <2>c. PICK C : C = {i \in 1..n : trades[i].t \in from..(from + Hour - 1)}
    OBVIOUS
  <2>o. PICK image : image = {origin[p] : p \in B}
    OBVIOUS
  <2>1. \A p \in 1..n : p \in B <=> origin[p] \in C
    BY <1>s, <2>b, <2>c
  <2>2. \A i \in 1..n : i \in C => i \in image
    <3> SUFFICES ASSUME NEW i \in 1..n, i \in C PROVE i \in image
      OBVIOUS
    <3>1. PICK p \in 1..n : origin[p] = i
      BY <1>o
    <3>2. p \in B
      BY <2>1, <3>1
    <3> QED BY <2>o, <3>1, <3>2
  <2>3. image = C
    <3>1. C \subseteq 1..n /\ B \subseteq 1..n
      BY <2>b, <2>c
    <3>2. \A i \in image : i \in C
      BY <2>o, <2>1, <3>1
    <3> QED BY <2>2, <3>1, <3>2
  <2>4. IsFiniteSet(B)
    <3>1. IsFiniteSet(1..n)
      <4>1. 1 \in Int /\ n \in Int
        OBVIOUS
      <4> QED BY <4>1, FS_Interval, Zenon
    <3>2. B \subseteq 1..n
      BY <2>b
    <3> QED BY <3>1, <3>2, FS_Subset
  <2>5. \A x, y \in B : origin[x] = origin[y] => x = y
    BY <1>o, <2>b
  <2>6. Cardinality({origin[x] : x \in B}) = Cardinality(B)
    <3>f. PICK f : f = [x \in B |-> origin[x]]
      OBVIOUS
    <3>1. \A x, y \in B : f[x] = f[y] => x = y
      BY <2>5, <3>f
    <3>2. Cardinality({f[x] : x \in B}) = Cardinality(B)
      BY <2>4, <3>1, ImageCounted
    <3>3. {f[x] : x \in B} = {origin[x] : x \in B}
      BY <3>f
    <3> QED BY <3>2, <3>3
  <2> QED BY <2>6, <2>3, <2>o, <2>b, <2>c, <1>c, <1>3, Zenon DEF Within
<1>w. PICK windows : windows = {least + k * Hour : k \in 0..LastTime}
  OBVIOUS
<1>12. ASSUME ts[1] # ts[n]
       PROVE  LowVolume(ts) <=> \E from \in windows : from < most /\ count[from] < LowTrades
  <2>0. ts[1] \in Nat /\ ts[n] \in 0..LastTime
    BY <1>1, <1>3 DEF Times
  <2>1. LowVolume(ts) <=> \E k \in Nat : ts[1] + k * Hour < ts[n] /\ Within(ts, ts[1] + k * Hour) < LowTrades
    <3>1. n \in Nat \ {0}
      BY <1>1
    <3>2. LowVolume(ts) <=> FirstLow(ts)[ts[1]] # Nil
      BY <1>3, <1>12, <3>1, LowVolumeSearches
    <3>3. FirstLow(ts)[ts[1]] # Nil <=>
              \E k \in Nat : ts[1] + k * Hour < ts[n] /\ Within(ts, ts[1] + k * Hour) < LowTrades
      BY <1>3, <3>1, LowFound
    <3> QED BY <3>2, <3>3
  <2>2. ASSUME NEW k \in Nat, ts[1] + k * Hour < ts[n], Within(ts, ts[1] + k * Hour) < LowTrades
        PROVE  \E from \in windows : from < most /\ count[from] < LowTrades
    <3>x. PICK x : x = ts[1] + k * Hour
      OBVIOUS
    <3>y. PICK y : y = k * Hour
      OBVIOUS
    <3>1. y \in Nat /\ y >= k
      <4>1. \A h \in Nat \ {0} : k * h \in Nat /\ k * h >= k
        OBVIOUS
      <4> QED BY <1>0, <3>y, <4>1
    <3>2. x \in Nat /\ x >= k /\ x < ts[n]
      BY <2>0, <2>2, <3>1, <3>x, <3>y
    <3>3. k \in 0..LastTime
      <4>1. LastTime \in Nat
        BY <1>0
      <4> QED BY <2>0, <3>2, <4>1
    <3>4. x \in windows
      BY <1>w, <1>9, <3>3, <3>x
    <3>5. count[x] < LowTrades
      BY <1>11, <2>2, <3>2, <3>x, Zenon
    <3> QED BY <1>9, <3>2, <3>4, <3>5
  <2>3. ASSUME NEW from \in windows, from < most, count[from] < LowTrades
        PROVE  \E k \in Nat : ts[1] + k * Hour < ts[n] /\ Within(ts, ts[1] + k * Hour) < LowTrades
    <3>1. PICK k \in 0..LastTime : from = ts[1] + k * Hour
      BY <1>w, <1>9
    <3>2. k \in Nat /\ k * Hour \in Nat
      BY <1>0
    <3>3. from \in Nat
      BY <2>0, <3>1, <3>2
    <3>4. Within(ts, from) < LowTrades
      BY <1>11, <2>3, <3>3, Zenon
    <3> QED BY <1>9, <2>3, <3>1, <3>2, <3>4, Zenon
  <2> QED BY <2>1, <2>2, <2>3, Zenon
<1>13. ASSUME NEW from \in windows
       PROVE  count[from] = Cardinality({i \in DOMAIN trades : trades[i].t \in from..(from + Hour - 1)})
  <2>1. from \in Nat
    <3>1. PICK k \in 0..LastTime : from = least + k * Hour
      BY <1>w
    <3>2. k * Hour \in Nat /\ least \in Nat
      BY <1>0, <1>8, <1>9
    <3> QED BY <3>1, <3>2
  <2> QED BY <1>2, <1>c, <2>1, Zenon
<1>14. Cardinality(times) > 1 =>
         (TradeFlags(trades).low <=> \E from \in windows : from < most /\
             Cardinality({i \in DOMAIN trades : trades[i].t \in from..(from + Hour - 1)}) < LowTrades)
  BY <1>5, <1>10, <1>12, <1>13, Zenon
<1> QED BY <1>6, <1>14, <1>t, <1>m, <1>w, Zenon

LEMMA PricesAreJudged ==
    ASSUME NEW prices \in ListsOf([t : Times, close : {0, 10, 13}, volume : {0, 1}], 2)
    PROVE  /\ GapsExact(PriceFlags(prices, LastTime).gaps, prices, GapAfter)
           /\ PriceFlags(prices, LastTime).jumps # {} =>
                  \E p, q \in ToSet(prices) : p.close * 6 < q.close * 5 \/ q.close * 5 < p.close * 4
<1>n. PICK n \in Nat : prices \in [1..n -> [t : Times, close : {0, 10, 13}, volume : {0, 1}]]
  <2>s. PICK set : set = [t : Times, close : {0, 10, 13}, volume : {0, 1}]
    OBVIOUS
  <2>1. prices \in ListsOf(set, 2)
    BY <2>s, Zenon
  <2>2. PICK n \in 0..2 : prices \in [1..n -> set]
    BY <2>1 DEF ListsOf
  <2>3. n \in Nat
    OBVIOUS
  <2> QED BY <2>2, <2>3, <2>s, Zenon
<1>2. DOMAIN prices = 1..n /\ \A i \in 1..n : prices[i].t \in Nat /\ prices[i].close \in Nat
  BY <1>n DEF Times
<1>3. GapsExact(GapsIn(InTime(prices), GapAfter), prices, GapAfter)
  <2>1. GapAfter \in Nat
    BY HistoryConstants
  <2>2. \A i \in 1..n : prices[i].t \in Nat
    BY <1>2
  <2> QED BY <1>2, <2>1, <2>2, GapsAreEmpty
<1>4. PriceFlags(prices, LastTime).gaps = GapsIn(InTime(prices), GapAfter)
  BY DEF PriceFlags
<1>o. PICK origin \in [1..n -> 1..n] :
              /\ InTime(prices) = [p \in 1..n |-> prices[origin[p]]]
              /\ \A i \in 1..n : \E p \in 1..n : origin[p] = i
              /\ \A p, q \in 1..n : origin[p] = origin[q] => p = q
              /\ \A p, q \in 1..n : p < q => prices[origin[p]].t <= prices[origin[q]].t
  <2>1. \A i \in 1..n : prices[i].t \in Nat
    BY <1>2
  <2> QED BY <1>2, <2>1, RowsInTime
<1>s. PICK sorted : sorted = InTime(prices)
  OBVIOUS
<1>r. PICK rows : rows = ToSet(prices)
  OBVIOUS
<1>5. Len(sorted) = n /\ \A p \in 1..n : sorted[p] \in rows /\ sorted[p].close \in Nat
  <2>1. rows = {prices[i] : i \in 1..n}
    BY <1>2, <1>r DEF ToSet
  <2>2. ASSUME NEW p \in 1..n PROVE sorted[p] \in rows /\ sorted[p].close \in Nat
    <3>1. PICK i \in 1..n : i = origin[p]
      BY <1>o
    <3>2. sorted[p] = prices[i]
      BY <1>o, <1>s, <3>1, Zenon
    <3>3. prices[i] \in rows
      BY <2>1
    <3>4. prices[i].close \in Nat
      BY <1>2
    <3> QED BY <3>2, <3>3, <3>4, Zenon
  <2>3. Len(sorted) = n
    BY <1>2, <1>o, <1>s
  <2> QED BY <2>2, <2>3, Zenon
<1>6. ASSUME PriceFlags(prices, LastTime).jumps # {}
      PROVE  \E p, q \in rows : p.close * 6 < q.close * 5 \/ q.close * 5 < p.close * 4
  <2>1. PriceFlags(prices, LastTime).jumps =
          {j[2] : j \in {i \in Neighbours(n) :
              sorted[i[1]].close # 0 /\
              5 * (IF sorted[i[2]].close > sorted[i[1]].close THEN sorted[i[2]].close - sorted[i[1]].close
                   ELSE sorted[i[1]].close - sorted[i[2]].close) > sorted[i[1]].close}}
    BY <1>s, <1>5, Zenon DEF PriceFlags
  <2>2. PICK i \in Neighbours(n) :
              5 * (IF sorted[i[2]].close > sorted[i[1]].close THEN sorted[i[2]].close - sorted[i[1]].close
                   ELSE sorted[i[1]].close - sorted[i[2]].close) > sorted[i[1]].close
    BY <1>6, <2>1
  <2>3. i[1] \in 1..n /\ i[2] \in 1..n
    <3>1. PICK x \in 1..(n - 1) : i = <<x, x + 1>>
      BY DEF Neighbours
    <3>2. i[1] = x /\ i[2] = x + 1
      BY <3>1
    <3> QED BY <3>2
  <2>a. PICK a, b : a = sorted[i[1]] /\ b = sorted[i[2]]
    OBVIOUS
  <2>4. a \in rows /\ b \in rows /\ a.close \in Nat /\ b.close \in Nat
    BY <1>5, <2>3, <2>a
  <2>5. 5 * (IF b.close > a.close THEN b.close - a.close ELSE a.close - b.close) > a.close
    BY <2>2, <2>a, Zenon
  <2>6. \A x, y \in Nat : 5 * (IF y > x THEN y - x ELSE x - y) > x => x * 6 < y * 5 \/ y * 5 < x * 4
    OBVIOUS
  <2>7. a.close * 6 < b.close * 5 \/ b.close * 5 < a.close * 4
    BY <2>4, <2>5, <2>6, Zenon
  <2> QED BY <2>4, <2>7, Zenon
<1> QED BY <1>3, <1>4, <1>6, <1>r, Zenon

-----------------------------------------------------------------------------
(* The volume of a side is never less than nothing. *)
LEMMA VolumeOfSide ==
    ASSUME NEW side \in SidesOfBook PROVE Volume(side) \in Nat
<1>1. side \subseteq [price : 1..3, size : {1, 11}]
  BY DEF SidesOfBook
<1>2. IsFiniteSet(side)
  <2>p. PICK pairs : pairs = (1..3) \X {1, 11}
    OBVIOUS
  <2>f. PICK f : f = [x \in pairs |-> [price |-> x[1], size |-> x[2]]]
    OBVIOUS
  <2>1. IsFiniteSet(pairs)
    <3>1. IsFiniteSet(1..3)
      <4>1. 1 \in Int /\ 3 \in Int
        OBVIOUS
      <4> QED BY <4>1, FS_Interval, Zenon
    <3>2. IsFiniteSet({1, 11})
      <4>1. IsFiniteSet(1..11)
        <5>1. 1 \in Int /\ 11 \in Int
          OBVIOUS
        <5> QED BY <5>1, FS_Interval, Zenon
      <4>2. {1, 11} \subseteq 1..11
        OBVIOUS
      <4> QED BY <4>1, <4>2, FS_Subset
    <3> QED BY <2>p, <3>1, <3>2, FS_Product
  <2>2. IsFiniteSet({f[x] : x \in pairs})
    BY <2>1, ImageFinite
  <2>3. \A l \in side : l \in {f[x] : x \in pairs}
    <3> SUFFICES ASSUME NEW l \in side PROVE l \in {f[x] : x \in pairs}
      OBVIOUS
    <3>1. l \in [price : 1..3, size : {1, 11}]
      BY <1>1
    <3>2. <<l.price, l.size>> \in pairs /\ f[<<l.price, l.size>>] = l
      BY <2>p, <2>f, <3>1
    <3> QED BY <3>2
  <2>4. side \subseteq {f[x] : x \in pairs}
    BY <2>3
  <2> QED BY <2>2, <2>4, FS_Subset
<1>3. [l \in side |-> l.size] \in [side -> Nat]
  <2>1. \A l \in side : l.size \in Nat
    BY <1>1
  <2> QED BY <2>1
<1> QED BY <1>2, <1>3, SumNatural DEF Volume

LEMMA BookIsJudged ==
    ASSUME NEW bids \in SidesOfBook, NEW asks \in SidesOfBook,
           NEW flags, flags = BookFlags([bids |-> bids, asks |-> asks])
    PROVE  /\ flags.crossed <=> \E b \in bids, a \in asks : b.price >= a.price
           /\ ~(flags.crossed /\ flags.wide)
           /\ ~flags.gap /\ bids = asks => ~flags.low
<1>1. CASE bids = {} \/ asks = {}
  <2>1. flags = [gap |-> TRUE, crossed |-> FALSE, wide |-> FALSE, low |-> FALSE]
    BY <1>1 DEF BookFlags
  <2>2. flags.crossed = FALSE /\ flags.gap = TRUE
    BY <2>1
  <2> QED BY <1>1, <2>2
<1>2. CASE bids # {} /\ asks # {}
  <2>b. PICK bid : bid = Max({l.price : l \in bids})
    OBVIOUS
  <2>a. PICK ask : ask = Min({l.price : l \in asks})
    OBVIOUS
  <2>v. PICK bought, sold : bought = Volume(bids) /\ sold = Volume(asks)
    OBVIOUS
  <2>1. bought \in Nat /\ sold \in Nat
    BY <2>v, VolumeOfSide
  <2>2. flags = [gap |-> FALSE, crossed |-> ask <= bid,
                 wide |-> 2 * (ask - bid) * 100 > 5 * (ask + bid),
                 low |-> bought * 10 < sold \/ sold * 10 < bought]
    BY <1>2, <2>a, <2>b, <2>v, Zenon DEF BookFlags
  <2>3. /\ flags.crossed = (ask <= bid)
        /\ flags.wide = (2 * (ask - bid) * 100 > 5 * (ask + bid))
        /\ flags.low = (bought * 10 < sold \/ sold * 10 < bought)
    BY <2>2
  <2>4. \A l \in bids \cup asks : l.price \in 1..3
    BY DEF SidesOfBook
  <2>5. (\E l \in bids : l.price = bid) /\ \A l \in bids : l.price <= bid
    <3>s. PICK S : S = {l.price : l \in bids}
      OBVIOUS
    <3>1. S \in SUBSET (1..3) /\ S # {}
      BY <1>2, <2>4, <3>s
    <3>2. bid \in S /\ \A y \in S : bid >= y
      BY <2>b, <3>s, <3>1, MaxOfSet
    <3>3. bid \in 1..3 /\ \A y \in S : y \in 1..3 /\ y <= bid
      BY <3>1, <3>2
    <3> QED BY <3>s, <3>2, <3>3
  <2>6. (\E l \in asks : l.price = ask) /\ \A l \in asks : ask <= l.price
    <3>s. PICK S : S = {l.price : l \in asks}
      OBVIOUS
    <3>1. S \in SUBSET Nat /\ S # {}
      BY <1>2, <2>4, <3>s
    <3>2. ask \in S /\ \A y \in S : ask <= y
      BY <2>a, <3>s, <3>1, LeastOf
    <3> QED BY <3>s, <3>2
  <2>7. bid \in 1..3 /\ ask \in 1..3
    BY <2>4, <2>5, <2>6
  <2>8. ask <= bid <=> \E b \in bids, a \in asks : b.price >= a.price
    <3>1. ASSUME ask <= bid PROVE \E b \in bids, a \in asks : b.price >= a.price
      <4>1. PICK b \in bids : b.price = bid
        BY <2>5
      <4>2. PICK a \in asks : a.price = ask
        BY <2>6
      <4>3. b.price >= a.price
        BY <2>7, <3>1, <4>1, <4>2
      <4> QED BY <4>3
    <3>2. ASSUME NEW b \in bids, NEW a \in asks, b.price >= a.price PROVE ask <= bid
      <4>1. b.price <= bid /\ ask <= a.price /\ b.price \in 1..3 /\ a.price \in 1..3
        BY <2>4, <2>5, <2>6
      <4> QED BY <2>7, <3>2, <4>1
    <3> QED BY <3>1, <3>2
  <2>9. ~ (ask <= bid /\ 2 * (ask - bid) * 100 > 5 * (ask + bid))
    BY <2>7
  <2>10. bids = asks => ~ (bought * 10 < sold \/ sold * 10 < bought)
    <3> SUFFICES ASSUME bought = sold PROVE ~ (bought * 10 < sold \/ sold * 10 < bought)
      BY <2>v
    <3> QED BY <2>1
  <2> QED BY <2>3, <2>8, <2>9, <2>10, Zenon
<1> QED BY <1>1, <1>2

-----------------------------------------------------------------------------
(* The pointer into the other source. *)
Pointer(odds, poly) ==
    CHOOSE pointer : pointer = [i \in 0..Len(odds) |->
            IF i = 0 THEN 1 ELSE Advanced(poly, pointer[i - 1], odds[i])]

LEMMA AdvancedRight ==
    ASSUME NEW m \in Nat, NEW poly \in [1..m -> Nat], Len(poly) = m, NEW from \in 1..(m + 1), NEW time \in Nat
    PROVE  LET p == Advanced(poly, from, time) IN
           /\ p \in from..(m + 1)
           /\ p >= m \/ poly[p] >= time - Hour
           /\ \A q \in from..(m + 1) : q < p => ~ (q >= m \/ poly[q] >= time - Hour)
<1>S. PICK S : S = {q \in from..(m + 1) : q >= m \/ poly[q] >= time - Hour}
  OBVIOUS
<1>1. S \in SUBSET Nat /\ m + 1 \in S
  BY <1>S
<1>p. PICK p : p = Advanced(poly, from, time)
  OBVIOUS
<1>2. p = Min(S)
  BY <1>p, <1>S, Zenon DEF Advanced
<1>3. p \in S /\ \A y \in S : p <= y
  BY <1>1, <1>2, LeastOf
<1>4. p \in from..(m + 1) /\ (p >= m \/ poly[p] >= time - Hour)
  BY <1>S, <1>3
<1>5. \A q \in from..(m + 1) : q < p => ~ (q >= m \/ poly[q] >= time - Hour)
  <2> SUFFICES ASSUME NEW q \in from..(m + 1), q < p, q >= m \/ poly[q] >= time - Hour PROVE FALSE
    OBVIOUS
  <2>1. q \in S
    BY <1>S
  <2>2. p <= q /\ p \in Nat /\ q \in Nat
    BY <1>1, <1>3, <2>1
  <2> QED BY <2>2
<1> QED BY <1>4, <1>5, <1>p, Zenon

LEMMA PointerUnfold ==
    ASSUME NEW odds \in Seq(Nat), NEW poly \in Seq(Nat)
    PROVE  LET p == Pointer(odds, poly) IN
           /\ p[0] = 1
           /\ \A i \in 0..Len(odds) : p[i] \in 1..(Len(poly) + 1)
           /\ \A i \in 1..Len(odds) : p[i] = Advanced(poly, p[i - 1], odds[i])
<1>n. PICK n, m : n = Len(odds) /\ m = Len(poly)
  OBVIOUS
<1>0. n \in Nat /\ odds \in [1..n -> Nat] /\ m \in Nat /\ poly \in [1..m -> Nat]
  BY <1>n
<1>S. PICK S : S = 1..(m + 1)
  OBVIOUS
<1>t. PICK step : step = [i \in 1..n |-> [x \in S |-> Advanced(poly, x, odds[i])]]
  OBVIOUS
<1>1. \A i \in 1..n, x \in S : step[i][x] = Advanced(poly, x, odds[i]) /\ step[i][x] \in S
  <2> SUFFICES ASSUME NEW i \in 1..n, NEW x \in S
               PROVE  step[i][x] = Advanced(poly, x, odds[i]) /\ step[i][x] \in S
    OBVIOUS
  <2>2. step[i][x] = Advanced(poly, x, odds[i])
    BY <1>t
  <2>3. x \in 1..(m + 1) /\ odds[i] \in Nat
    BY <1>0, <1>S
  <2>4. Advanced(poly, x, odds[i]) \in x..(m + 1)
    BY <1>0, <1>n, <2>3, AdvancedRight
  <2>5. Advanced(poly, x, odds[i]) \in 1..(m + 1)
    BY <1>0, <2>3, <2>4
  <2> QED BY <1>S, <2>2, <2>5
<1>2. \E f \in [0..n -> S] : f[0] = 1 /\ \A i \in 1..n : f[i] = step[i][f[i - 1]]
  <2>1. 1 \in S /\ n \in Nat
    BY <1>0, <1>S
  <2>2. step \in [1..n -> [S -> S]]
    <3>1. \A i \in 1..n : step[i] \in [S -> S]
      <4> SUFFICES ASSUME NEW i \in 1..n PROVE step[i] \in [S -> S]
        OBVIOUS
      <4>1. step[i] = [x \in S |-> Advanced(poly, x, odds[i])]
        BY <1>t
      <4>2. \A x \in S : Advanced(poly, x, odds[i]) \in S
        BY <1>1, <4>1
      <4> QED BY <4>1, <4>2
    <3> QED BY <1>t, <3>1
  <2>3. Upwards(n, S, 1, step) # {}
    BY <2>1, <2>2, RecursionUpward, Zenon
  <2> QED BY <2>3 DEF Upwards
<1>3. PICK f \in [0..n -> S] : f[0] = 1 /\ \A i \in 1..n : f[i] = step[i][f[i - 1]]
  BY <1>2
<1>4. \A i \in 0..n : f[i] = IF i = 0 THEN 1 ELSE Advanced(poly, f[i - 1], odds[i])
  <2> SUFFICES ASSUME NEW i \in 0..n, i # 0 PROVE f[i] = Advanced(poly, f[i - 1], odds[i])
    BY <1>3
  <2>1. i \in 1..n /\ i - 1 \in 0..n
    BY <1>0
  <2>2. f[i - 1] \in S
    BY <2>1
  <2> QED BY <1>1, <1>3, <2>1, <2>2, Zenon
<1>5. f = [i \in 0..n |-> f[i]]
  OBVIOUS
<1>6. f = [i \in 0..Len(odds) |-> IF i = 0 THEN 1 ELSE Advanced(poly, f[i - 1], odds[i])]
  BY <1>4, <1>5, <1>n, Zenon
<1>7. Pointer(odds, poly) = [i \in 0..Len(odds) |-> IF i = 0 THEN 1
                                ELSE Advanced(poly, Pointer(odds, poly)[i - 1], odds[i])]
  BY <1>6, Zenon DEF Pointer
<1>p. PICK p : p = Pointer(odds, poly)
  OBVIOUS
<1>8. p = [i \in 0..n |-> IF i = 0 THEN 1 ELSE Advanced(poly, p[i - 1], odds[i])]
  BY <1>7, <1>n, <1>p, Zenon
<1>9. p[0] = 1 /\ \A i \in 1..n : i \in 0..n /\ i - 1 \in 0..n /\ p[i] = Advanced(poly, p[i - 1], odds[i])
  <2>1. 0 \in 0..n
    BY <1>0
  <2>2. p[0] = 1
    BY <1>8, <2>1
  <2>3. \A i \in 1..n : i \in 0..n /\ i - 1 \in 0..n /\ i # 0
    BY <1>0
  <2>4. \A i \in 1..n : p[i] = Advanced(poly, p[i - 1], odds[i])
    BY <1>8, <2>3, Zenon
  <2> QED BY <2>2, <2>3, <2>4
<1>10. \A i \in 0..n : p[i] \in 1..(m + 1)
  <2>H. PICK H : H = {i \in Nat : i <= n => p[i] \in 1..(m + 1)}
    OBVIOUS
  <2>1. 0 \in H
    BY <1>0, <1>9, <2>H
  <2>2. ASSUME NEW i \in Nat, i \in H PROVE i + 1 \in H
    <3> SUFFICES ASSUME i + 1 <= n PROVE p[i + 1] \in 1..(m + 1)
      BY <2>H
    <3>1. p[i] \in 1..(m + 1) /\ i + 1 \in 1..n /\ (i + 1) - 1 = i
      BY <1>0, <2>2, <2>H
    <3>2. p[i + 1] = Advanced(poly, p[i], odds[i + 1])
      BY <1>9, <3>1
    <3>3. odds[i + 1] \in Nat
      BY <1>0, <3>1
    <3>4. Advanced(poly, p[i], odds[i + 1]) \in p[i]..(m + 1)
      BY <1>0, <1>n, <3>1, <3>3, AdvancedRight
    <3> QED BY <1>0, <3>1, <3>2, <3>4
  <2>3. \A i \in Nat : i \in H
    BY <2>1, <2>2, NatInductionOnSets
  <2> QED BY <2>3, <2>H
<1> QED BY <1>9, <1>10, <1>n, <1>p, Zenon

(* The pointer stands on a price, and everything it has passed is more than *)
(* an hour before.                                                          *)
LEMMA PointerPasses ==
    ASSUME NEW odds \in Seq(Nat), NEW poly \in Seq(Nat),
           \A i, j \in 1..Len(odds) : i < j => odds[i] < odds[j]
    PROVE  LET p == Pointer(odds, poly)  m == Len(poly) IN
           \A i \in 0..Len(odds) :
              /\ m > 0 => p[i] <= m
              /\ i > 0 => \A q \in 1..m : q < p[i] => poly[q] < odds[i] - Hour
<1>n. PICK n, m : n = Len(odds) /\ m = Len(poly)
  OBVIOUS
<1>0. n \in Nat /\ odds \in [1..n -> Nat] /\ m \in Nat /\ poly \in [1..m -> Nat]
  BY <1>n
<1>r. \A i, j \in 1..n : i < j => odds[i] < odds[j]
  BY <1>n
<1>h. Hour \in Nat
  BY HistoryConstants
<1>p. PICK p : p = Pointer(odds, poly)
  OBVIOUS
<1>1. /\ p[0] = 1
      /\ \A i \in 0..n : p[i] \in 1..(m + 1)
      /\ \A i \in 1..n : p[i] = Advanced(poly, p[i - 1], odds[i])
  BY <1>n, <1>p, PointerUnfold, Zenon
<1>H. PICK H : H = {i \in Nat : i <= n =>
                      /\ m > 0 => p[i] <= m
                      /\ i > 0 => \A q \in 1..m : q < p[i] => poly[q] < odds[i] - Hour}
  OBVIOUS
<1>2. 0 \in H
  BY <1>0, <1>1, <1>H
<1>3. ASSUME NEW i \in Nat, i \in H PROVE i + 1 \in H
  <2> SUFFICES ASSUME i + 1 <= n
               PROVE  /\ m > 0 => p[i + 1] <= m
                      /\ \A q \in 1..m : q < p[i + 1] => poly[q] < odds[i + 1] - Hour
    BY <1>H
  <2>1. i + 1 \in 1..n /\ (i + 1) - 1 = i /\ i \in 0..n
    BY <1>0
  <2>2. p[i + 1] = Advanced(poly, p[i], odds[i + 1])
    BY <1>1, <2>1
  <2>3. p[i] \in 1..(m + 1) /\ odds[i + 1] \in Nat /\ p[i + 1] \in 1..(m + 1)
    BY <1>0, <1>1, <2>1
  <2>4. /\ p[i + 1] \in p[i]..(m + 1)
        /\ p[i + 1] >= m \/ poly[p[i + 1]] >= odds[i + 1] - Hour
        /\ \A q \in p[i]..(m + 1) : q < p[i + 1] => ~ (q >= m \/ poly[q] >= odds[i + 1] - Hour)
    <3>x. PICK x, time, q : x = p[i] /\ time = odds[i + 1] /\ q = p[i + 1]
      OBVIOUS
    <3>1. x \in 1..(m + 1) /\ time \in Nat
      BY <2>3, <3>x
    <3>2. q = Advanced(poly, x, time)
      BY <2>2, <3>x, Zenon
    <3>3. /\ q \in x..(m + 1)
          /\ q >= m \/ poly[q] >= time - Hour
          /\ \A y \in x..(m + 1) : y < q => ~ (y >= m \/ poly[y] >= time - Hour)
      BY <1>0, <1>n, <3>1, <3>2, AdvancedRight
    <3> QED BY <3>3, <3>x, Zenon
  <2>5. /\ m > 0 => p[i] <= m
        /\ i > 0 => \A q \in 1..m : q < p[i] => poly[q] < odds[i] - Hour
    BY <1>0, <1>3, <1>H
  <2>6. ASSUME m > 0 PROVE p[i + 1] <= m
    <3> SUFFICES ASSUME m < p[i + 1] PROVE FALSE
      BY <1>0, <2>3
    <3>1. m \in p[i]..(m + 1)
      BY <1>0, <2>3, <2>5, <2>6
    <3> QED BY <2>4, <3>1
  <2>7. ASSUME NEW q \in 1..m, q < p[i + 1] PROVE poly[q] < odds[i + 1] - Hour
    <3>0. poly[q] \in Nat
      BY <1>0
    <3>1. CASE q < p[i]
      <4>1. i > 0
        <5>1. i = 0 => p[i] = 1
          BY <1>1
        <5> QED BY <3>1, <5>1
      <4>2. poly[q] < odds[i] - Hour
        BY <2>5, <3>1, <4>1
      <4>3. i \in 1..n /\ i < i + 1
        BY <1>0, <2>1, <4>1
      <4>4. odds[i] < odds[i + 1] /\ odds[i] \in Nat
        BY <1>0, <1>r, <2>1, <4>3
      <4>5. ASSUME NEW x \in Nat, NEW a \in Nat, NEW b \in Nat, x < a - Hour, a < b PROVE x < b - Hour
        BY <1>h, <4>5
      <4> QED BY <2>3, <3>0, <4>2, <4>4, <4>5, Zenon
    <3>2. CASE ~ (q < p[i])
      <4>1. q \in p[i]..(m + 1)
        BY <1>0, <2>3, <3>2, SMTT(30)
      <4>2. ~ (poly[q] >= odds[i + 1] - Hour)
        BY <2>4, <2>7, <4>1
      <4>3. ASSUME NEW x \in Nat, NEW b \in Nat, ~ (x >= b - Hour) PROVE x < b - Hour
        BY <1>h, <4>3
      <4> QED BY <2>3, <3>0, <4>2, <4>3, Zenon
    <3> QED BY <3>1, <3>2
  <2> QED BY <2>6, <2>7
<1>4. \A i \in Nat : i \in H
  BY <1>2, <1>3, NatInductionOnSets
<1>5. \A i \in 0..n : /\ m > 0 => p[i] <= m
                      /\ i > 0 => \A q \in 1..m : q < p[i] => poly[q] < odds[i] - Hour
  BY <1>0, <1>4, <1>H
<1> QED BY <1>5, <1>n, <1>p, Zenon

LEMMA RisingShape ==
    ASSUME NEW most \in Int, NEW s \in Rising(most)
    PROVE  /\ Len(s) \in Nat /\ s \in [1..Len(s) -> Times] /\ s \in [1..Len(s) -> Nat] /\ DOMAIN s = 1..Len(s)
           /\ \A i, j \in 1..Len(s) : i < j => s[i] < s[j]
<1>1. s \in ListsOf(Times, most) /\ \A i, j \in DOMAIN s : i < j => s[i] < s[j]
  BY DEF Rising
<1>2. PICK n \in Nat : s \in [1..n -> Times]
  <2>1. PICK n \in 0..most : s \in [1..n -> Times]
    BY <1>1 DEF ListsOf
  <2> QED BY <2>1
<1>3. Len(s) = n /\ DOMAIN s = 1..n
  BY <1>2
<1>4. s \in [1..n -> Nat]
  BY <1>2 DEF Times
<1> QED BY <1>1, <1>2, <1>3, <1>4

LEMMA PartnersAreRight ==
    ASSUME NEW most \in Int, NEW odds \in Rising(most), NEW poly \in Rising(most),
           NEW found, found = Partners(odds, poly)
    PROVE  \A i \in DOMAIN odds :
                IF found[i] = 0
                THEN (\E j \in DOMAIN poly : poly[j] - odds[i] < Hour /\ odds[i] - poly[j] < Hour)
                         => odds[i] - Hour \in ToSet(poly)
                ELSE poly[found[i]] - odds[i] < Hour /\ odds[i] - poly[found[i]] < Hour
<1>h. Hour \in Nat \ {0}
  BY HistoryConstants
<1>n. PICK n, m : n = Len(odds) /\ m = Len(poly)
  OBVIOUS
<1>1. /\ n \in Nat /\ odds \in [1..n -> Nat] /\ DOMAIN odds = 1..n
      /\ \A i, j \in 1..n : i < j => odds[i] < odds[j]
  BY <1>n, RisingShape
<1>2. /\ m \in Nat /\ poly \in [1..m -> Nat] /\ DOMAIN poly = 1..m
      /\ \A i, j \in 1..m : i < j => poly[i] < poly[j]
  BY <1>n, RisingShape
<1>s. odds \in Seq(Nat) /\ poly \in Seq(Nat)
  <2>1. ASSUME NEW k \in Nat, NEW s \in [1..k -> Nat] PROVE s \in Seq(Nat)
    OBVIOUS
  <2> QED BY <1>1, <1>2, <2>1, Zenon
<1>p. PICK p : p = Pointer(odds, poly)
  OBVIOUS
<1>3. /\ \A i \in 0..n : p[i] \in 1..(m + 1)
      /\ \A i \in 1..n : p[i] = Advanced(poly, p[i - 1], odds[i])
  BY <1>s, <1>n, <1>p, PointerUnfold, Zenon
<1>4. \A i \in 1..n : /\ m > 0 => p[i] <= m
                      /\ \A q \in 1..m : q < p[i] => poly[q] < odds[i] - Hour
  <2>1. \A i \in 0..n : /\ m > 0 => p[i] <= m
                        /\ i > 0 => \A q \in 1..m : q < p[i] => poly[q] < odds[i] - Hour
    BY <1>1, <1>s, <1>n, <1>p, PointerPasses, Zenon
  <2>2. \A i \in 1..n : i \in 0..n /\ i > 0
    BY <1>1
  <2> QED BY <2>1, <2>2, Zenon
<1>5. found = [i \in 1..n |-> IF p[i] <= m /\ poly[p[i]] - odds[i] < Hour /\ odds[i] - poly[p[i]] < Hour
                              THEN p[i] ELSE 0]
  <2>1. found = [i \in DOMAIN odds |->
            IF Pointer(odds, poly)[i] <= Len(poly) /\ poly[Pointer(odds, poly)[i]] - odds[i] < Hour
                 /\ odds[i] - poly[Pointer(odds, poly)[i]] < Hour
            THEN Pointer(odds, poly)[i] ELSE 0]
    BY Zenon DEF Partners, Pointer
  <2> QED BY <1>1, <1>n, <1>p, <2>1, Zenon
<1> SUFFICES ASSUME NEW i \in 1..n
             PROVE  IF found[i] = 0
                    THEN (\E j \in DOMAIN poly : poly[j] - odds[i] < Hour /\ odds[i] - poly[j] < Hour)
                             => odds[i] - Hour \in ToSet(poly)
                    ELSE poly[found[i]] - odds[i] < Hour /\ odds[i] - poly[found[i]] < Hour
  BY <1>1
<1>6. found[i] = IF p[i] <= m /\ poly[p[i]] - odds[i] < Hour /\ odds[i] - poly[p[i]] < Hour THEN p[i] ELSE 0
  BY <1>5
<1>7. i \in 0..n /\ i - 1 \in 0..n /\ odds[i] \in Nat
  BY <1>1
<1>8. p[i] \in 1..(m + 1) /\ p[i - 1] \in 1..(m + 1)
  BY <1>3, <1>7
<1>9. p[i] # 0
  BY <1>2, <1>8
<1>10. CASE found[i] # 0
  BY <1>6, <1>10, Zenon
<1>11. CASE found[i] = 0
  <2> SUFFICES ASSUME NEW j \in 1..m, poly[j] - odds[i] < Hour, odds[i] - poly[j] < Hour
               PROVE  odds[i] - Hour \in ToSet(poly)
    BY <1>2, <1>11
  <2>p. PICK x : x = p[i]
    OBVIOUS
  <2>1. m > 0 /\ x \in 1..m /\ j \in Nat
    BY <1>2, <1>4, <1>8, <2>p
  <2>2. poly[j] \in Nat /\ poly[x] \in Nat
    BY <1>2, <2>1
  <2>3. x <= j
    <3> SUFFICES ASSUME j < x PROVE FALSE
      BY <1>2, <2>1
    <3>1. poly[j] < odds[i] - Hour
      BY <1>4, <2>p
    <3> QED BY <1>h, <1>7, <2>2, <3>1
  <2>4. poly[x] <= poly[j]
    <3>1. x = j \/ x < j
      BY <1>2, <2>1, <2>3
    <3>2. x < j => poly[x] < poly[j]
      BY <1>2, <2>1
    <3> QED BY <2>2, <3>1, <3>2
  <2>5. ~ (poly[x] - odds[i] < Hour /\ odds[i] - poly[x] < Hour)
    <3>1. x <= m
      BY <1>2, <2>1
    <3> QED BY <1>6, <1>9, <1>11, <2>p, <3>1, Zenon
  <2>6. poly[x] <= odds[i] - Hour
    BY <1>h, <1>7, <2>2, <2>4, <2>5
  <2>7. x >= m \/ poly[x] >= odds[i] - Hour
    <3>1. x = Advanced(poly, p[i - 1], odds[i])
      BY <1>3, <2>p
    <3> QED BY <1>2, <1>7, <1>8, <1>n, <3>1, AdvancedRight
  <2>8. x # j
    BY <2>5
  <2>9. ~ (x >= m)
    BY <1>2, <2>1, <2>3, <2>8
  <2>10. poly[x] = odds[i] - Hour
    BY <1>h, <1>7, <2>2, <2>6, <2>7, <2>9
  <2>11. poly[x] \in ToSet(poly)
    BY <1>2, <2>1 DEF ToSet
  <2> QED BY <2>10, <2>11, Zenon
<1> QED BY <1>10, <1>11

-----------------------------------------------------------------------------
(* A snapshot is kept when it is the first of its hour in the first file    *)
(* that has the hour.                                                       *)
LEMMA SamplesAreRight ==
    ASSUME NEW first \in Seq(Times), NEW second \in Seq(Times), NEW kept, kept = Sampled(<<first, second>>)
    PROVE  LET one == ToSet(first)  two == ToSet(second)
               HourOf(t) == t \div Hour
               Earliest(ts) == {t \in ts : \A u \in ts : HourOf(u) = HourOf(t) => t <= u}
               fresh == {t \in two : \A u \in one : HourOf(u) # HourOf(t)}
           IN  /\ {s.t : s \in kept} = Earliest(one) \cup Earliest(fresh)
               /\ \A r, s \in kept : HourOf(r.t) = HourOf(s.t) => r = s
<1>o. PICK one, two : one = ToSet(first) /\ two = ToSet(second)
  OBVIOUS
<1>1. one \subseteq Times /\ two \subseteq Times /\ Times \subseteq Nat
  <2>1. Times \subseteq Nat
    BY HistoryConstants DEF Times
  <2>2. one \subseteq Times
    BY <1>o DEF ToSet
  <2>3. two \subseteq Times
    BY <1>o DEF ToSet
  <2> QED BY <2>1, <2>2, <2>3
<1>h. PICK hour : hour = [t \in Times |-> t \div Hour]
  OBVIOUS
<1>r. PICK read : read = {s \in [file : {1, 2}, t : Times] : s.t \in (IF s.file = 1 THEN one ELSE two)}
  OBVIOUS
<1>2. read = {s \in [file : DOMAIN <<first, second>>, t : Times] : s.t \in ToSet(<<first, second>>[s.file])}
  <2>1. DOMAIN <<first, second>> = {1, 2} /\ <<first, second>>[1] = first /\ <<first, second>>[2] = second
    OBVIOUS
  <2>2. ASSUME NEW s \in [file : {1, 2}, t : Times]
        PROVE  (IF s.file = 1 THEN one ELSE two) = ToSet(<<first, second>>[s.file])
    <3>1. s.file = 1 \/ s.file = 2
      OBVIOUS
    <3>2. s.file = 2 => s.file # 1
      OBVIOUS
    <3> QED BY <1>o, <2>1, <3>1, <3>2, Zenon
  <2> QED BY <1>r, <2>1, <2>2, Zenon
<1>3. ASSUME NEW t \in Times, NEW u \in Times PROVE u \div Hour = t \div Hour <=> hour[u] = hour[t]
  BY <1>h
<1>4. kept = {s \in read : \A r \in read : (r.file < s.file \/ (r.file = s.file /\ r.t < s.t)) => hour[r.t] # hour[s.t]}
  <2>1. kept = {s \in read : \A r \in read :
                   (r.file < s.file \/ (r.file = s.file /\ r.t < s.t)) => r.t \div Hour # s.t \div Hour}
    BY <1>2, Zenon DEF Sampled
  <2>2. \A s \in read : s.t \in Times
    BY <1>r
  <2>3. ASSUME NEW s \in read, NEW r \in read
        PROVE  r.t \div Hour = s.t \div Hour <=> hour[r.t] = hour[s.t]
    BY <1>3, <2>2
  <2>4. ASSUME NEW s \in read
        PROVE  (\A r \in read : (r.file < s.file \/ (r.file = s.file /\ r.t < s.t)) => r.t \div Hour # s.t \div Hour)
               <=> (\A r \in read : (r.file < s.file \/ (r.file = s.file /\ r.t < s.t)) => hour[r.t] # hour[s.t])
    BY <2>3, Zenon
  <2> QED BY <2>1, <2>4, Zenon
<1>5. /\ \A t \in one : [file |-> 1, t |-> t] \in read
      /\ \A t \in two : [file |-> 2, t |-> t] \in read
      /\ \A s \in read : \/ s.file = 1 /\ s.t \in one
                         \/ s.file = 2 /\ s.t \in two
  BY <1>1, <1>r
<1>6. ASSUME NEW s \in read, s.file = 1
      PROVE  s \in kept <=> \A u \in one : hour[u] = hour[s.t] => s.t <= u
  <2>0. s.t \in one /\ s.t \in Nat /\ \A u \in one : u \in Nat
    <3>1. (s.file = 1 /\ s.t \in one) \/ (s.file = 2 /\ s.t \in two)
      BY <1>5, Zenon
    <3>2. s.t \in one
      BY <1>6, <3>1
    <3> QED BY <1>1, <3>2
  <2>1. ASSUME s \in kept, NEW u \in one, hour[u] = hour[s.t] PROVE s.t <= u
    <3>r. PICK r : r = [file |-> 1, t |-> u]
      OBVIOUS
    <3>1. r \in read /\ r.file = 1 /\ r.t = u
      BY <1>5, <3>r
    <3>2. ~ (r.t < s.t)
      BY <1>4, <1>6, <2>1, <3>1, Zenon
    <3> QED BY <2>0, <3>1, <3>2
  <2>2. ASSUME \A u \in one : hour[u] = hour[s.t] => s.t <= u,
               NEW r \in read, r.file < s.file \/ (r.file = s.file /\ r.t < s.t)
        PROVE  hour[r.t] # hour[s.t]
    <3>1. r.file = 1 /\ r.t \in one /\ r.t < s.t
      BY <1>5, <1>6, <2>2
    <3>2. ~ (s.t <= r.t)
      BY <2>0, <3>1
    <3> QED BY <2>2, <3>1, <3>2, Zenon
  <2> QED BY <1>4, <2>1, <2>2, Zenon
<1>7. ASSUME NEW s \in read, s.file = 2
      PROVE  s \in kept <=> /\ \A u \in one : hour[u] # hour[s.t]
                            /\ \A u \in two : hour[u] = hour[s.t] => s.t <= u
  <2>0. s.t \in two /\ s.t \in Nat /\ \A u \in two : u \in Nat
    <3>1. (s.file = 1 /\ s.t \in one) \/ (s.file = 2 /\ s.t \in two)
      BY <1>5, Zenon
    <3>2. s.t \in two
      BY <1>7, <3>1
    <3> QED BY <1>1, <3>2
  <2>1. ASSUME s \in kept, NEW u \in two, hour[u] = hour[s.t] PROVE s.t <= u
    <3>r. PICK r : r = [file |-> 2, t |-> u]
      OBVIOUS
    <3>1. r \in read /\ r.file = 2 /\ r.t = u
      BY <1>5, <3>r
    <3>2. ~ (r.t < s.t)
      BY <1>4, <1>7, <2>1, <3>1, Zenon
    <3> QED BY <2>0, <3>1, <3>2
  <2>2. ASSUME s \in kept, NEW u \in one PROVE hour[u] # hour[s.t]
    <3>r. PICK r : r = [file |-> 1, t |-> u]
      OBVIOUS
    <3>1. r \in read /\ r.file < s.file /\ r.t = u
      BY <1>5, <1>7, <3>r
    <3> QED BY <1>4, <2>2, <3>1, Zenon
  <2>3. ASSUME \A u \in one : hour[u] # hour[s.t], \A u \in two : hour[u] = hour[s.t] => s.t <= u,
               NEW r \in read, r.file < s.file \/ (r.file = s.file /\ r.t < s.t)
        PROVE  hour[r.t] # hour[s.t]
    <3>1. CASE r.file = 1
      <4>1. r.t \in one
        BY <1>5, <3>1
      <4> QED BY <2>3, <4>1, Zenon
    <3>2. CASE r.file = 2
      <4>1. r.t \in two /\ r.t < s.t
        BY <1>5, <1>7, <2>3, <3>2
      <4>2. ~ (s.t <= r.t)
        BY <2>0, <4>1
      <4> QED BY <2>3, <4>1, <4>2, Zenon
    <3> QED BY <1>5, <3>1, <3>2
  <2> QED BY <1>4, <2>1, <2>2, <2>3, Zenon
<1>f. PICK fresh : fresh = {t \in two : \A u \in one : hour[u] # hour[t]}
  OBVIOUS
<1>8. ASSUME NEW r \in kept, NEW s \in kept, hour[r.t] = hour[s.t] PROVE r = s
  <2>0. r \in read /\ s \in read
    BY <1>4
  <2>1. /\ \/ r.file = 1 /\ r.t \in one
           \/ r.file = 2 /\ r.t \in two
        /\ \/ s.file = 1 /\ s.t \in one
           \/ s.file = 2 /\ s.t \in two
        /\ r.t \in Nat /\ s.t \in Nat
    <3>1. \A x \in read : (x.file = 1 /\ x.t \in one) \/ (x.file = 2 /\ x.t \in two)
      BY <1>5, Zenon
    <3>2. \A x \in one \cup two : x \in Nat
      BY <1>1
    <3> QED BY <2>0, <3>1, <3>2
  <2>2. r.file = s.file
    <3>1. ASSUME r.file = 1, s.file = 2 PROVE FALSE
      <4>1. \A u \in one : hour[u] # hour[s.t]
        BY <1>7, <2>0, <3>1, Zenon
      <4>2. r.t \in one
        BY <2>1, <3>1
      <4> QED BY <1>8, <4>1, <4>2
    <3>2. ASSUME r.file = 2, s.file = 1 PROVE FALSE
      <4>1. \A u \in one : hour[u] # hour[r.t]
        BY <1>7, <2>0, <3>2, Zenon
      <4>2. s.t \in one
        BY <2>1, <3>2
      <4> QED BY <1>8, <4>1, <4>2
    <3> QED BY <2>1, <3>1, <3>2
  <2>3. r.t <= s.t /\ s.t <= r.t
    <3>1. CASE r.file = 1
      <4>1. s.file = 1 /\ r.t \in one /\ s.t \in one
        BY <2>1, <2>2, <3>1
      <4> QED BY <1>6, <1>8, <2>0, <3>1, <4>1, Zenon
    <3>2. CASE r.file = 2
      <4>1. s.file = 2 /\ r.t \in two /\ s.t \in two
        BY <2>1, <2>2, <3>2
      <4> QED BY <1>7, <1>8, <2>0, <3>2, <4>1, Zenon
    <3> QED BY <2>1, <3>1, <3>2
  <2>4. r.t = s.t
    BY <2>1, <2>3
  <2>5. r \in [file : {1, 2}, t : Times] /\ s \in [file : {1, 2}, t : Times]
    BY <1>r, <2>0
  <2> QED BY <2>2, <2>4, <2>5
<1>e. PICK firsts, lasts : /\ firsts = {t \in one : \A u \in one : hour[u] = hour[t] => t <= u}
                           /\ lasts = {t \in fresh : \A u \in fresh : hour[u] = hour[t] => t <= u}
  OBVIOUS
<1>9. ASSUME NEW s \in kept PROVE s.t \in firsts \cup lasts
  <2>0. s \in read
    BY <1>4
  <2>1. CASE s.file = 1
    <3>1. s.t \in one
      BY <1>5, <2>0, <2>1
    <3>2. \A u \in one : hour[u] = hour[s.t] => s.t <= u
      BY <1>6, <2>0, <2>1, Zenon
    <3> QED BY <1>e, <3>1, <3>2
  <2>2. CASE s.file = 2
    <3>1. s.t \in two
      BY <1>5, <2>0, <2>2
    <3>2. (\A u \in one : hour[u] # hour[s.t]) /\ \A u \in two : hour[u] = hour[s.t] => s.t <= u
      BY <1>7, <2>0, <2>2, Zenon
    <3>3. s.t \in fresh /\ \A u \in fresh : u \in two
      BY <1>f, <3>1, <3>2
    <3>4. s.t \in lasts
      BY <1>e, <3>2, <3>3, Zenon
    <3> QED BY <3>4
  <2> QED BY <1>5, <2>0, <2>1, <2>2
<1>10. ASSUME NEW t \in firsts PROVE \E s \in kept : s.t = t
  <2>s. PICK s : s = [file |-> 1, t |-> t]
    OBVIOUS
  <2>1. t \in one /\ \A u \in one : hour[u] = hour[t] => t <= u
    BY <1>e
  <2>2. s \in read /\ s.file = 1 /\ s.t = t
    BY <1>5, <2>1, <2>s
  <2>3. s \in kept
    BY <1>6, <2>1, <2>2, Zenon
  <2> QED BY <2>2, <2>3
<1>11. ASSUME NEW t \in lasts PROVE \E s \in kept : s.t = t
  <2>s. PICK s : s = [file |-> 2, t |-> t]
    OBVIOUS
  <2>1. t \in fresh /\ \A u \in fresh : hour[u] = hour[t] => t <= u
    BY <1>e
  <2>2. t \in two /\ \A u \in one : hour[u] # hour[t]
    BY <1>f, <2>1
  <2>3. s \in read /\ s.file = 2 /\ s.t = t
    BY <1>5, <2>2, <2>s
  <2>4. ASSUME NEW u \in two, hour[u] = hour[t] PROVE t <= u
    <3>1. u \in fresh
      BY <1>f, <2>2, <2>4
    <3> QED BY <2>1, <2>4, <3>1, Zenon
  <2>5. s \in kept
    BY <1>7, <2>2, <2>3, <2>4, Zenon
  <2> QED BY <2>3, <2>5
<1>12. {s.t : s \in kept} = firsts \cup lasts
  <2>1. \A x \in {s.t : s \in kept} : x \in firsts \cup lasts
    BY <1>9
  <2>2. \A x \in firsts \cup lasts : x \in {s.t : s \in kept}
    BY <1>10, <1>11
  <2> QED BY <2>1, <2>2
<1>13. ASSUME NEW t \in one \cup two, NEW u \in one \cup two
       PROVE  u \div Hour = t \div Hour <=> hour[u] = hour[t]
  <2>1. t \in Times /\ u \in Times
    BY <1>1
  <2> QED BY <1>3, <2>1, Zenon
<1>14. firsts = {t \in one : \A u \in one : u \div Hour = t \div Hour => t <= u}
  BY <1>13, <1>e
<1>15. fresh = {t \in two : \A u \in one : u \div Hour # t \div Hour}
  BY <1>13, <1>f
<1>16. lasts = {t \in fresh : \A u \in fresh : u \div Hour = t \div Hour => t <= u}
  <2>1. \A t \in fresh : t \in two
    BY <1>f
  <2> QED BY <1>13, <1>e, <2>1
<1>17. \A r, s \in kept : r.t \div Hour = s.t \div Hour => r = s
  <2> SUFFICES ASSUME NEW r \in kept, NEW s \in kept, r.t \div Hour = s.t \div Hour PROVE r = s
    OBVIOUS
  <2>1. r.t \in Times /\ s.t \in Times
    BY <1>4, <1>r
  <2>2. hour[r.t] = hour[s.t]
    BY <1>3, <2>1
  <2> QED BY <1>8, <2>2, Zenon
<1> QED BY <1>12, <1>14, <1>15, <1>16, <1>17, <1>o, Zenon

(* An event is read by one query at most: where the token is the maker's    *)
(* asset it is sold, where it is the taker's it is bought.                  *)
LEMMA FillsAreRight ==
    ASSUME NEW one \in Orders(1), NEW two \in Orders(2), NEW trades, trades = FillsOf(<<one, two>>)
    PROVE  LET events == ToSet(<<one, two>>)
               bought == {e \in events : e.maker = 0 /\ e.taker = 1 /\ e.takerAmount # 0}
               sold == {e \in events : e.maker = 1 /\ e.taker = 0 /\ e.makerAmount # 0}
           IN  /\ {t.id : t \in trades} = {e.id : e \in bought \cup sold}
               /\ \A s, t \in trades : s.id = t.id => s = t
               /\ \A t \in trades : /\ t.trade.tokens # 0
                                     /\ t.trade.side = "buy" <=> \E e \in bought : e.id = t.id
<1>e. PICK events : events = <<one, two>>
  OBVIOUS
<1>1. /\ DOMAIN events = {1, 2} /\ ToSet(events) = {one, two}
      /\ events[1] = one /\ events[2] = two /\ one.id = 1 /\ two.id = 2
      /\ \A i \in {1, 2} : events[i].id = i
  <2>1. DOMAIN events = {1, 2} /\ events[1] = one /\ events[2] = two
    BY <1>e
  <2>2. one.id = 1 /\ two.id = 2
    BY DEF Orders
  <2>3. ToSet(events) = {one, two}
    BY <2>1 DEF ToSet
  <2> QED BY <2>1, <2>2, <2>3
<1>b. PICK buys : buys = {i \in {1, 2} : events[i].maker = 0 /\ events[i].taker = 1 /\ events[i].takerAmount # 0}
  OBVIOUS
<1>s. PICK sells : sells = {i \in {1, 2} : events[i].maker = 1 /\ events[i].taker = 0 /\ events[i].makerAmount # 0}
  OBVIOUS
<1>2. ASSUME NEW i \in {1, 2}
      PROVE  /\ events[i].maker = 1 /\ FillTrade(events[i]) # Nil <=> i \in sells
             /\ events[i].taker = 1 /\ FillTrade(events[i]) # Nil <=> i \in buys
             /\ i \in sells => FillTrade(events[i])[1].side = "sell" /\ FillTrade(events[i])[1].tokens # 0
             /\ i \in buys => FillTrade(events[i])[1].side = "buy" /\ FillTrade(events[i])[1].tokens # 0
             /\ ~ (i \in buys /\ i \in sells)
  <2>v. PICK e : e = events[i]
    OBVIOUS
  <2>1. e.maker \in 0..2 /\ e.taker \in 0..2
    BY <1>1, <2>v DEF Orders
  <2>2. /\ i \in buys <=> e.maker = 0 /\ e.taker = 1 /\ e.takerAmount # 0
        /\ i \in sells <=> e.maker = 1 /\ e.taker = 0 /\ e.makerAmount # 0
    BY <1>b, <1>s, <2>v
  <2>3. /\ e.maker = 0 /\ e.takerAmount # 0 =>
             FillTrade(e) = <<[side |-> "buy", usdc |-> e.makerAmount, tokens |-> e.takerAmount]>>
        /\ e.maker # 0 /\ e.taker = 0 /\ e.makerAmount # 0 =>
             FillTrade(e) = <<[side |-> "sell", usdc |-> e.takerAmount, tokens |-> e.makerAmount]>>
        /\ e.maker = 0 /\ e.takerAmount = 0 => FillTrade(e) = Nil
        /\ e.maker # 0 /\ ~ (e.taker = 0 /\ e.makerAmount # 0) => FillTrade(e) = Nil
    BY DEF FillTrade
  <2>4. /\ i \in sells => /\ FillTrade(e) # Nil /\ FillTrade(e)[1].side = "sell"
                          /\ FillTrade(e)[1].tokens = e.makerAmount
        /\ i \in buys => /\ FillTrade(e) # Nil /\ FillTrade(e)[1].side = "buy"
                         /\ FillTrade(e)[1].tokens = e.takerAmount
    BY <2>2, <2>3 DEF Nil
  <2>5. /\ e.maker = 1 /\ FillTrade(e) # Nil => i \in sells
        /\ e.taker = 1 /\ FillTrade(e) # Nil => i \in buys
    BY <2>2, <2>3
  <2> QED BY <2>2, <2>4, <2>5, <2>v
<1>r. PICK read : read = {r \in [query : 1..2, place : DOMAIN events] :
        (IF r.query = 1 THEN events[r.place].maker ELSE events[r.place].taker) = 1
        /\ FillTrade(events[r.place]) # Nil}
  OBVIOUS
<1>3. ASSUME NEW r \in read
      PROVE  r.place \in {1, 2} /\ ((r.query = 1 /\ r.place \in sells) \/ (r.query = 2 /\ r.place \in buys))
  <2>1. r.place \in {1, 2} /\ r.query \in 1..2
    BY <1>1, <1>r
  <2>2. (IF r.query = 1 THEN events[r.place].maker ELSE events[r.place].taker) = 1
        /\ FillTrade(events[r.place]) # Nil
    BY <1>r, Zenon
  <2>3. r.query = 1 \/ r.query = 2
    BY <2>1
  <2>4. CASE r.query = 1
    BY <1>2, <2>1, <2>2, <2>4, Zenon
  <2>5. CASE r.query = 2
    <3>1. r.query # 1
      BY <2>5
    <3> QED BY <1>2, <2>1, <2>2, <2>5, <3>1, Zenon
  <2> QED BY <2>3, <2>4, <2>5
<1>4. ASSUME NEW i \in {1, 2}
      PROVE  /\ i \in sells => [query |-> 1, place |-> i] \in read
             /\ i \in buys => [query |-> 2, place |-> i] \in read
  <2>1. [query |-> 1, place |-> i] \in [query : 1..2, place : DOMAIN events]
        /\ [query |-> 2, place |-> i] \in [query : 1..2, place : DOMAIN events]
    BY <1>1
  <2>2. i \in sells => events[i].maker = 1 /\ FillTrade(events[i]) # Nil
    BY <1>2
  <2>3. i \in buys => events[i].taker = 1 /\ FillTrade(events[i]) # Nil
    BY <1>2
  <2> QED BY <1>r, <2>1, <2>2, <2>3
<1>5. ASSUME NEW q \in read, NEW r \in read, q.place = r.place PROVE q = r
  <2>1. q.query = r.query
    <3>p. PICK x : x = q.place
      OBVIOUS
    <3>1. /\ x \in {1, 2} /\ ((q.query = 1 /\ x \in sells) \/ (q.query = 2 /\ x \in buys))
          /\ ((r.query = 1 /\ x \in sells) \/ (r.query = 2 /\ x \in buys))
      BY <1>3, <1>5, <3>p, Zenon
    <3>2. ~ (x \in buys /\ x \in sells)
      BY <1>2, <3>1
    <3> QED BY <3>1, <3>2
  <2>2. q \in [query : 1..2, place : DOMAIN events] /\ r \in [query : 1..2, place : DOMAIN events]
    BY <1>r
  <2> QED BY <1>5, <2>1, <2>2
<1>k. PICK kept : kept = {r \in read : \A q \in read :
        (q.query < r.query \/ (q.query = r.query /\ q.place < r.place)) => events[q.place].id # events[r.place].id}
  OBVIOUS
<1>6. kept = read
  <2> SUFFICES ASSUME NEW r \in read, NEW q \in read, events[q.place].id = events[r.place].id
               PROVE  ~ (q.query < r.query \/ (q.query = r.query /\ q.place < r.place))
    BY <1>k
  <2>1. q.place = r.place
    BY <1>1, <1>3
  <2>2. q = r
    BY <1>5, <2>1
  <2>3. r.query \in 1..2 /\ r.place \in {1, 2}
    BY <1>r, <1>3
  <2> QED BY <2>2, <2>3
<1>7. trades = {[query |-> r.query, id |-> events[r.place].id, trade |-> FillTrade(events[r.place])[1]] : r \in read}
  <2>1. trades = {[query |-> r.query, id |-> events[r.place].id, trade |-> FillTrade(events[r.place])[1]] : r \in kept}
    BY <1>e, <1>r, <1>k, ZenonT(60) DEF FillsOf
  <2> QED BY <1>6, <2>1, Zenon
<1>8. ASSUME NEW t \in trades
      PROVE  \E r \in read : t = [query |-> r.query, id |-> r.place, trade |-> FillTrade(events[r.place])[1]]
  <2>1. PICK r \in read : t = [query |-> r.query, id |-> events[r.place].id, trade |-> FillTrade(events[r.place])[1]]
    BY <1>7
  <2>2. events[r.place].id = r.place
    BY <1>1, <1>3
  <2> QED BY <2>1, <2>2
<1>9. ASSUME NEW r \in read PROVE \E t \in trades : t.id = r.place
  <2>1. events[r.place].id = r.place
    BY <1>1, <1>3
  <2>t. PICK t : t = [query |-> r.query, id |-> events[r.place].id, trade |-> FillTrade(events[r.place])[1]]
    OBVIOUS
  <2>2. t \in trades
    BY <1>7, <2>t
  <2> QED BY <2>1, <2>t, <2>2
<1>x. PICK bought, sold : /\ bought = {e \in ToSet(events) : e.maker = 0 /\ e.taker = 1 /\ e.takerAmount # 0}
                          /\ sold = {e \in ToSet(events) : e.maker = 1 /\ e.taker = 0 /\ e.makerAmount # 0}
  OBVIOUS
<1>10. /\ \A i \in {1, 2} : (i \in buys <=> events[i] \in bought) /\ (i \in sells <=> events[i] \in sold)
       /\ \A e \in bought \cup sold : e.id \in {1, 2} /\ e = events[e.id]
  BY <1>1, <1>b, <1>s, <1>x
<1>11. {t.id : t \in trades} = {e.id : e \in bought \cup sold}
  <2>1. ASSUME NEW t \in trades PROVE \E e \in bought \cup sold : e.id = t.id
    <3>1. PICK r \in read : t = [query |-> r.query, id |-> r.place, trade |-> FillTrade(events[r.place])[1]]
      BY <1>8
    <3>2. r.place \in {1, 2} /\ (r.place \in sells \/ r.place \in buys) /\ t.id = r.place
      BY <1>3, <3>1
    <3>3. events[r.place] \in bought \cup sold /\ events[r.place].id = r.place
      BY <1>1, <1>10, <3>2
    <3> QED BY <3>2, <3>3
  <2>2. ASSUME NEW e \in bought \cup sold PROVE \E t \in trades : t.id = e.id
    <3>1. e.id \in {1, 2} /\ (e.id \in buys \/ e.id \in sells)
      BY <1>10
    <3>2. \E r \in read : r.place = e.id
      BY <1>4, <3>1
    <3> QED BY <1>9, <3>2
  <2> QED BY <2>1, <2>2
<1>12. ASSUME NEW a \in trades, NEW c \in trades, a.id = c.id PROVE a = c
  <2>1. PICK q \in read : a = [query |-> q.query, id |-> q.place, trade |-> FillTrade(events[q.place])[1]]
    BY <1>8
  <2>2. PICK r \in read : c = [query |-> r.query, id |-> r.place, trade |-> FillTrade(events[r.place])[1]]
    BY <1>8
  <2>3. q.place = r.place
    BY <1>12, <2>1, <2>2
  <2>4. q = r
    BY <1>5, <2>3
  <2> QED BY <2>1, <2>2, <2>4
<1>13. ASSUME NEW t \in trades
       PROVE  t.trade.tokens # 0 /\ (t.trade.side = "buy" <=> \E e \in bought : e.id = t.id)
  <2>1. PICK r \in read : t = [query |-> r.query, id |-> r.place, trade |-> FillTrade(events[r.place])[1]]
    BY <1>8
  <2>i. PICK i : i = r.place
    OBVIOUS
  <2>2. i \in {1, 2} /\ (i \in sells \/ i \in buys)
    BY <1>3, <2>i
  <2>3. t.id = i /\ t.trade = FillTrade(events[i])[1]
    BY <2>1, <2>i
  <2>4. (\E e \in bought : e.id = i) <=> i \in buys
    BY <1>1, <1>10, <2>2
  <2>5. CASE i \in buys
    <3>1. t.trade.side = "buy" /\ t.trade.tokens # 0
      BY <1>2, <2>2, <2>3, <2>5
    <3> QED BY <2>3, <2>4, <2>5, <3>1
  <2>6. CASE i \notin buys
    <3>1. t.trade.side = "sell" /\ t.trade.tokens # 0
      BY <1>2, <2>2, <2>3, <2>6
    <3>2. t.trade.side # "buy"
      BY <3>1
    <3> QED BY <2>3, <2>4, <2>6, <3>1, <3>2
  <2> QED BY <2>5, <2>6
<1> QED BY <1>11, <1>12, <1>13, <1>x, <1>e, Zenon

-----------------------------------------------------------------------------
(* Every computation ends right.                                            *)

LEMMA Requested == ASSUME Request PROVE RequestEnds' /\ measured'.of = "request"
<1>1. PICK client \in Clients, replies \in [1..Attempts -> HttpAnswers] :
        measured' = [of |-> "request", in |-> <<client, replies>>, out |-> Retried(client, replies)]
  BY DEF Request, Measures
<1> DEFINE out == Retried(client, replies)
<1>2. LET sent == out[2]
          final == {n \in 1..Attempts : Effect(client, replies[n]) # "again"}
      IN  /\ sent = IF final = {} THEN Attempts ELSE Min(final)
          /\ out[1] = "rows" <=> final # {} /\ replies[sent] = "ok"
  BY RequestsRight
<1> HIDE DEF out
<1>3. /\ measured'.of = "request" /\ measured'.in[1] = client /\ measured'.in[2] = replies
      /\ measured'.out = out
  BY <1>1 DEF out
<1> QED BY <1>2, <1>3 DEF RequestEnds

LEMMA FreshnessAsked == ASSUME AskFreshness PROVE FreshnessAgrees' /\ measured'.of = "freshness"
<1>1. PICK present \in Times : \E success \in 0..present, threshold \in 0..3 :
        measured' = [of |-> "freshness", in |-> <<success, present, threshold>>,
                     out |-> [status |-> FreshStatus(success, present, threshold),
                              event |-> StaleEvent(success, present, threshold)]]
  BY DEF AskFreshness, Measures
<1>2. PICK success \in 0..present, threshold \in 0..3 :
        measured' = [of |-> "freshness", in |-> <<success, present, threshold>>,
                     out |-> [status |-> FreshStatus(success, present, threshold),
                              event |-> StaleEvent(success, present, threshold)]]
  BY <1>1
<1> DEFINE shown == FreshStatus(success, present, threshold)
           event == StaleEvent(success, present, threshold)
<1>3. present \in Nat /\ threshold \in Nat
  BY HistoryConstants DEF Times
<1>4. threshold > 0 => /\ shown \in {"stale", "never"} <=> event # "none"
                       /\ shown = "never" => event = "error"
  BY <1>3, FreshnessRight
<1> HIDE DEF shown, event
<1>5. /\ measured'.of = "freshness" /\ measured'.in[3] = threshold
      /\ measured'.out.status = shown /\ measured'.out.event = event
  BY <1>2 DEF shown, event
<1> QED BY <1>4, <1>5 DEF FreshnessAgrees

LEMMA TradesSeen == ASSUME JudgeTrades PROVE TradesJudged' /\ measured'.of = "trades"
<1>1. PICK trades \in ListsOf([t : Times], MaxRecords) :
        measured' = [of |-> "trades", in |-> trades, out |-> TradeFlags(trades)]
  BY DEF JudgeTrades, Measures
<1> DEFINE out == TradeFlags(trades)
<1>2. trades # Nil =>
          LET times == {r.t : r \in ToSet(trades)}
              InHour(from) == Cardinality({i \in DOMAIN trades : trades[i].t \in from..(from + Hour - 1)})
              windows == {Min(times) + k * Hour : k \in 0..LastTime}
          IN  /\ GapsExact(out.gaps, trades, Hour)
              /\ Cardinality(times) > 1 =>
                   (out.low <=> \E from \in windows : from < Max(times) /\ InHour(from) < LowTrades)
  BY TradesAreJudged
<1> HIDE DEF out
<1>3. measured'.of = "trades" /\ measured'.in = trades /\ measured'.out = out
  BY <1>1 DEF out
<1> QED BY <1>2, <1>3, Zenon DEF TradesJudged

LEMMA PricesSeen == ASSUME JudgePrices PROVE PricesJudged' /\ measured'.of = "prices"
<1>1. PICK prices \in ListsOf([t : Times, close : {0, 10, 13}, volume : {0, 1}], 2) :
        measured' = [of |-> "prices", in |-> prices, out |-> PriceFlags(prices, LastTime)]
  BY DEF JudgePrices, Measures
<1> DEFINE out == PriceFlags(prices, LastTime)
<1>2. /\ GapsExact(out.gaps, prices, GapAfter)
      /\ out.jumps # {} => \E p, q \in ToSet(prices) : p.close * 6 < q.close * 5 \/ q.close * 5 < p.close * 4
  BY PricesAreJudged
<1> HIDE DEF out
<1>3. measured'.of = "prices" /\ measured'.in = prices /\ measured'.out = out
  BY <1>1 DEF out
<1> QED BY <1>2, <1>3, Zenon DEF PricesJudged

LEMMA BookSeen == ASSUME JudgeBook PROVE BookJudged' /\ measured'.of = "book"
<1>1. PICK bids \in SidesOfBook, asks \in SidesOfBook :
        measured' = [of |-> "book", in |-> <<bids, asks>>, out |-> BookFlags([bids |-> bids, asks |-> asks])]
  BY DEF JudgeBook, Measures
<1> DEFINE flags == BookFlags([bids |-> bids, asks |-> asks])
<1>2. measured'.of = "book" /\ measured'.in[1] = bids /\ measured'.in[2] = asks /\ measured'.out = flags
  BY <1>1
<1>3. flags = BookFlags([bids |-> bids, asks |-> asks])
  OBVIOUS
<1> HIDE DEF flags
<1>4. /\ flags.crossed <=> \E b \in bids, a \in asks : b.price >= a.price
      /\ ~(flags.crossed /\ flags.wide)
      /\ ~flags.gap /\ bids = asks => ~flags.low
  BY <1>3, BookIsJudged
<1> QED BY <1>2, <1>4, Zenon DEF BookJudged

LEMMA SourcesCompared == ASSUME CompareSources PROVE PartnersRight' /\ measured'.of = "sources"
<1> DEFINE most == MaxRecords - 1
<1>1. PICK odds \in Rising(most), poly \in Rising(most) :
        measured' = [of |-> "sources", in |-> <<odds, poly>>, out |-> Partners(odds, poly)]
  BY DEF CompareSources, Measures
<1>2. most \in Int
  BY HistoryConstants
<1> HIDE DEF most
<1> DEFINE found == Partners(odds, poly)
<1>3. measured'.of = "sources" /\ measured'.in[1] = odds /\ measured'.in[2] = poly /\ measured'.out = found
  BY <1>1
<1>4. found = Partners(odds, poly)
  OBVIOUS
<1> HIDE DEF found
<1>5. \A i \in DOMAIN odds :
          IF found[i] = 0
          THEN (\E j \in DOMAIN poly : poly[j] - odds[i] < Hour /\ odds[i] - poly[j] < Hour)
                   => odds[i] - Hour \in ToSet(poly)
          ELSE poly[found[i]] - odds[i] < Hour /\ odds[i] - poly[found[i]] < Hour
  BY <1>2, <1>4, PartnersAreRight
<1> QED BY <1>3, <1>5, Zenon DEF PartnersRight

LEMMA FilesSampled == ASSUME SampleFiles PROVE SampleRight' /\ measured'.of = "sample"
<1>1. PICK first \in ListsOf(Times, 2), second \in ListsOf(Times, 2) :
        measured' = [of |-> "sample", in |-> <<first, second>>, out |-> Sampled(<<first, second>>)]
  BY DEF SampleFiles, Measures
<1>2. first \in Seq(Times) /\ second \in Seq(Times)
  <2>1. PICK n \in 0..2 : first \in [1..n -> Times]
    BY DEF ListsOf
  <2>2. PICK m \in 0..2 : second \in [1..m -> Times]
    BY DEF ListsOf
  <2>3. n \in Nat /\ m \in Nat
    OBVIOUS
  <2> QED BY <2>1, <2>2, <2>3
<1> DEFINE kept == Sampled(<<first, second>>)
<1>3. measured'.of = "sample" /\ measured'.in[1] = first /\ measured'.in[2] = second /\ measured'.out = kept
  BY <1>1
<1>4. kept = Sampled(<<first, second>>)
  OBVIOUS
<1> HIDE DEF kept
<1>5. LET one == ToSet(first)  two == ToSet(second)
          HourOf(t) == t \div Hour
          Earliest(ts) == {t \in ts : \A u \in ts : HourOf(u) = HourOf(t) => t <= u}
          fresh == {t \in two : \A u \in one : HourOf(u) # HourOf(t)}
      IN  /\ {s.t : s \in kept} = Earliest(one) \cup Earliest(fresh)
          /\ \A r, s \in kept : HourOf(r.t) = HourOf(s.t) => r = s
  BY <1>2, <1>4, SamplesAreRight
<1> QED BY <1>3, <1>5, Zenon DEF SampleRight

LEMMA FillsRead == ASSUME ReadFills PROVE FillsRight' /\ measured'.of = "fills"
<1>1. PICK one \in Orders(1), two \in Orders(2) :
        measured' = [of |-> "fills", in |-> <<one, two>>, out |-> FillsOf(<<one, two>>)]
  BY DEF ReadFills, Measures
<1> DEFINE trades == FillsOf(<<one, two>>)
<1>2. measured'.of = "fills" /\ measured'.in = <<one, two>> /\ measured'.out = trades
  BY <1>1
<1>3. trades = FillsOf(<<one, two>>)
  OBVIOUS
<1> HIDE DEF trades
<1>4. LET events == ToSet(<<one, two>>)
          bought == {e \in events : e.maker = 0 /\ e.taker = 1 /\ e.takerAmount # 0}
          sold == {e \in events : e.maker = 1 /\ e.taker = 0 /\ e.makerAmount # 0}
      IN  /\ {t.id : t \in trades} = {e.id : e \in bought \cup sold}
          /\ \A s, t \in trades : s.id = t.id => s = t
          /\ \A t \in trades : /\ t.trade.tokens # 0
                                /\ t.trade.side = "buy" <=> \E e \in bought : e.id = t.id
  BY <1>3, FillsAreRight, SMTT(30)
<1> QED BY <1>2, <1>4, Zenon DEF FillsRight

(* Requests, freshness, quality, sources, samples and fills are judged      *)
(* right whatever the replies, times and rows, for any number of attempts   *)
(* and any hour (fetchWithRetry, computeFreshStatus, DataQualityService,    *)
(* samplePerUtcHour, ingestTrades).                                         *)
THEOREM HistoryDataAlwaysSound == HistoryDataSpec => []HistoryDataSound
<1>1. HistoryDataInit => HistoryDataSound
  BY DEF HistoryDataInit, NotMeasured, HistoryDataSound, RequestEnds, FreshnessAgrees, TradesJudged,
         PricesJudged, BookJudged, PartnersRight, SampleRight, FillsRight
<1>2. HistoryDataSound /\ [HistoryDataNext]_measured => HistoryDataSound'
  <2> SUFFICES ASSUME HistoryDataSound, [HistoryDataNext]_measured PROVE HistoryDataSound'
    OBVIOUS
  <2>1. /\ measured'.of # "request" => RequestEnds'
        /\ measured'.of # "freshness" => FreshnessAgrees'
        /\ measured'.of # "trades" => TradesJudged'
        /\ measured'.of # "prices" => PricesJudged'
        /\ measured'.of # "book" => BookJudged'
        /\ measured'.of # "sources" => PartnersRight'
        /\ measured'.of # "sample" => SampleRight'
        /\ measured'.of # "fills" => FillsRight'
    BY DEF RequestEnds, FreshnessAgrees, TradesJudged, PricesJudged, BookJudged, PartnersRight,
           SampleRight, FillsRight
  <2>2. CASE Request
    BY <2>1, <2>2, Requested DEF HistoryDataSound
  <2>3. CASE AskFreshness
    BY <2>1, <2>3, FreshnessAsked DEF HistoryDataSound
  <2>4. CASE JudgePrices
    BY <2>1, <2>4, PricesSeen DEF HistoryDataSound
  <2>5. CASE JudgeTrades
    BY <2>1, <2>5, TradesSeen DEF HistoryDataSound
  <2>6. CASE JudgeBook
    BY <2>1, <2>6, BookSeen DEF HistoryDataSound
  <2>7. CASE CompareSources
    BY <2>1, <2>7, SourcesCompared DEF HistoryDataSound
  <2>8. CASE SampleFiles
    BY <2>1, <2>8, FilesSampled DEF HistoryDataSound
  <2>9. CASE ReadFills
    BY <2>1, <2>9, FillsRead DEF HistoryDataSound
  <2>10. CASE UNCHANGED measured
    <3>1. measured' = measured
      BY <2>10
    <3>2. RequestEnds'
      BY <3>1, Zenon DEF HistoryDataSound, RequestEnds
    <3>3. FreshnessAgrees'
      BY <3>1, Zenon DEF HistoryDataSound, FreshnessAgrees
    <3>4. TradesJudged'
      BY <3>1, Zenon DEF HistoryDataSound, TradesJudged
    <3>5. PricesJudged'
      BY <3>1, Zenon DEF HistoryDataSound, PricesJudged
    <3>6. BookJudged'
      BY <3>1, Zenon DEF HistoryDataSound, BookJudged
    <3>7. PartnersRight'
      BY <3>1, Zenon DEF HistoryDataSound, PartnersRight
    <3>8. SampleRight'
      BY <3>1, Zenon DEF HistoryDataSound, SampleRight
    <3>9. FillsRight'
      BY <3>1, Zenon DEF HistoryDataSound, FillsRight
    <3> QED BY <3>2, <3>3, <3>4, <3>5, <3>6, <3>7, <3>8, <3>9 DEF HistoryDataSound
  <2> QED BY <2>2, <2>3, <2>4, <2>5, <2>6, <2>7, <2>8, <2>9, <2>10 DEF HistoryDataNext
<1> QED BY <1>1, <1>2, PTL DEF HistoryDataSpec

-----------------------------------------------------------------------------
(* The services of the past together.                                       *)

LEMMA HistorySteps ==
    [Next]_vars => /\ [IngestionNext]_ingestionVars
                   /\ [RefreshNext]_refreshVars
                   /\ [ValidationNext]_validationVars
                   /\ [HistoryDataNext]_measured
<1> SUFFICES ASSUME [Next]_vars
             PROVE  /\ [IngestionNext]_ingestionVars
                    /\ [RefreshNext]_refreshVars
                    /\ [ValidationNext]_validationVars
                    /\ [HistoryDataNext]_measured
  OBVIOUS
<1>1. CASE UNCHANGED historyVars
  BY <1>1 DEF historyVars
<1>2. CASE IngestionNext /\ UNCHANGED <<refreshVars, validationVars, measured>>
  BY <1>2
<1>3. CASE RefreshNext /\ UNCHANGED <<ingestionVars, validationVars, measured>>
  BY <1>3
<1>4. CASE ValidationNext /\ UNCHANGED <<ingestionVars, refreshVars, measured>>
  BY <1>4
<1>5. CASE HistoryDataNext /\ UNCHANGED <<ingestionVars, refreshVars, validationVars>>
  BY <1>5
<1>6. CASE UNCHANGED vars
  <2>1. UNCHANGED historyVars
    BY <1>6 DEF vars
  <2> QED BY <1>1, <2>1
<1> QED BY <1>1, <1>2, <1>3, <1>4, <1>5, <1>6 DEF Next

(* Whatever services run beside it: what the backtests are fed with is      *)
(* ingested, refreshed, validated and judged right.                         *)
THEOREM HistoryAlwaysSound == Spec => []HistorySound
<1>1. Init => IngestionInit /\ RefreshInit /\ ValidationInit /\ HistoryDataInit
  BY DEF Init
<1>2. [Next]_vars => /\ [IngestionNext]_ingestionVars
                     /\ [RefreshNext]_refreshVars
                     /\ [ValidationNext]_validationVars
                     /\ [HistoryDataNext]_measured
  BY HistorySteps
<1>3. Spec => IngestionSpec /\ RefreshSpec /\ ValidationSpec /\ HistoryDataSpec
  BY <1>1, <1>2, PTL DEF Spec, IngestionSpec, RefreshSpec, ValidationSpec, HistoryDataSpec
<1>4. IngestionSound /\ RefreshSound /\ ValidationsSound /\ HistoryDataSound => HistorySound
  BY DEF HistorySound
<1> QED BY <1>3, <1>4, IngestionAlwaysSound, RefreshAlwaysSound, ValidationsAlwaysSound,
           HistoryDataAlwaysSound, PTL
=============================================================================

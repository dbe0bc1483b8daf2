---------------------------- MODULE TradingCycle ----------------------------
(***************************************************************************)
(* One trading cycle from the timer to the execution queue: the scheduler  *)
(* (core/scheduler.service.ts), the engine (core/trading-engine.service),  *)
(* detection, the pair concentration filter, the risk pre-screen with its  *)
(* cluster limits (risk-manager.service) and the cluster exposures that    *)
(* the correlation tracker recalculates on events.                         *)
(*                                                                         *)
(* Every await of the cycle ends a step, so exits, reconciliation,         *)
(* recalculations, drift halts and the shutdown happen in between.         *)
(*                                                                         *)
(* Abstractions: one mode (live).  A pair offers at most one direction,    *)
(* since venues do not publish crossed books; the edge calculator's        *)
(* verdict (module EdgeCalculation) is the edge a pair shows, 0 when it    *)
(* is filtered.  What the queue does with an opportunity, its lock and its *)
(* reservation is modules EntryExecution and RiskBudget; here it opens a   *)
(* position, exposes a single leg, or opens nothing.  Capital is counted   *)
(* in units, rounded down.                                                 *)
(***************************************************************************)
EXTENDS Integers, Sequences, FiniteSets, SequencesExt

CONSTANTS
  Pair,            \* a sequence of active pairs, each once, in the loader's order
  ClusterOf,       \* the correlation cluster of each pair
  Edges,           \* the net edges a pair may show; 0 for none worth trading
  MaxConcurrent,   \* pairMaxConcurrentPositions (0 disables the check)
  Cooldown,        \* pairCooldownMinutes (0 disables the check)
  Diversity,       \* pairDiversityThreshold (0 disables the check)
  SizeOf,          \* bankroll times maxPositionPct times the pair's confidence
  SoftLimit, HardLimit, AggregateLimit,   \* cluster limits, in units
  ShutdownWait,    \* minutes the shutdown waits for the cycle
  ReturnsAtOnce,   \* executeCycle begins with a bare return
  MaxTime,         \* bound on the clock
  MaxRows          \* bound on the positions opened

ASSUME CycleAssumption ==
  /\ Pair \in Seq(Range(Pair)) /\ IsInjective(Pair)
  /\ \A p \in Range(Pair) : p \in DOMAIN ClusterOf /\ SizeOf[p] \in Nat
  /\ Edges \subseteq Nat /\ 0 \in Edges
  /\ {MaxConcurrent, Cooldown, Diversity, SoftLimit, HardLimit,
      AggregateLimit, ShutdownWait, MaxTime, MaxRows} \subseteq Nat
  /\ SoftLimit <= HardLimit
  /\ ReturnsAtOnce \in BOOLEAN

VARIABLES
  clock,       \* minutes since the start
  engine,      \* flags of the trading engine, and whether its process runs
  cycle,       \* the cycle under way
  rows,        \* open_positions, in order of creation
  exposures,   \* the tracker's clusterExposures: cluster to capital
  recalcs,     \* answers of recalculation queries still to be applied
  failedOpen,  \* history: the filter let a batch through unread
  evaded       \* history: a batch held two of a cluster, or exposures were
               \* lost or applied out of order

cycleVars == <<clock, engine, cycle, rows, exposures, recalcs,
               failedOpen, evaded>>

Pairs    == Range(Pair)
Clusters == {ClusterOf[p] : p \in Pairs}
Stages   == {"idle", "ingest", "kalshi", "polymarket", "filter", "validate",
             "execute"}
Opportunity == [pair : Pairs, edge : Edges \ {0}, size : Nat]
NoCycle  == [stage |-> "idle", todo |-> <<>>, batch |-> <<>>]
NoCapital == [c \in Clusters |-> 0]

\* A plausible bug: the filter's count asks for the exposed statuses only.
ActiveUnflagged == {"OPEN", "SINGLE_LEG_EXPOSED", "EXIT_PARTIAL"}

\* The statuses the filter's count and the recalculation ask for.
Active  == {"OPEN", "SINGLE_LEG_EXPOSED", "EXIT_PARTIAL",
            "RECONCILIATION_REQUIRED"}
Exposed == {"OPEN", "SINGLE_LEG_EXPOSED", "EXIT_PARTIAL"}

CycleInit ==
  /\ clock = 0
  /\ engine = [up |-> TRUE, shuttingDown |-> FALSE, halted |-> FALSE,
               deadline |-> 0]
  /\ cycle = NoCycle
  /\ rows = <<>>
  /\ exposures = NoCapital
  /\ recalcs = <<>>
  /\ failedOpen = FALSE
  /\ evaded = FALSE

----------------------------------------------------------------------------
(* The correlation tracker.                                                *)

RowsOf(statuses, p) == {i \in DOMAIN rows : rows[i].pair = p
                                             /\ rows[i].status \in statuses}

Share(c, position) ==
  IF position.status \in Exposed /\ ClusterOf[position.pair] = c THEN position.size ELSE 0

CapitalIn(c, table) == SumFunction([i \in DOMAIN table |-> Share(c, table[i])])

\* What the query of a recalculation answers when the table is as given.
Recalculation(table) == [c \in Clusters |-> CapitalIn(c, table)]

\* Answers need not come back in the order of the queries.
RecalculationLands(i) ==
  /\ i \in DOMAIN recalcs
  /\ exposures' = recalcs[i]
  /\ recalcs' = RemoveAt(recalcs, i)
  /\ evaded' = (evaded \/ i > 1)
  /\ UNCHANGED <<clock, engine, cycle, rows, failedOpen>>

Aggregate(map) == SumFunction(map)

----------------------------------------------------------------------------
(* The scheduler, the drift halt and the shutdown.                         *)

CycleInProgress == cycle.stage /= "idle"

\* The timer fires; the cycle counts as in flight before its first await.
PollingCycle ==
  /\ engine.up
  /\ ~CycleInProgress
  /\ ~ReturnsAtOnce
  /\ ~engine.shuttingDown
  /\ ~engine.halted
  /\ Len(rows) < MaxRows
  /\ cycle' = [NoCycle EXCEPT !.stage = "ingest"]
  /\ UNCHANGED <<clock, engine, rows, exposures, recalcs, failedOpen, evaded>>

\* A drift of a second or more; nothing in the code calls resume().
TimeHalt ==
  /\ engine.up
  /\ engine' = [engine EXCEPT !.halted = TRUE]
  /\ UNCHANGED <<clock, cycle, rows, exposures, recalcs, failedOpen, evaded>>

InitiateShutdown ==
  /\ engine.up
  /\ ~engine.shuttingDown
  /\ engine' = [engine EXCEPT !.shuttingDown = TRUE,
                              !.deadline = clock + ShutdownWait]
  /\ UNCHANGED <<clock, cycle, rows, exposures, recalcs, failedOpen, evaded>>

\* The process leaves when nothing is in flight or the wait is over.
WaitOver == ~CycleInProgress \/ clock >= engine.deadline

Stopped ==
  /\ engine' = [engine EXCEPT !.up = FALSE]
  /\ cycle' = NoCycle
  /\ exposures' = NoCapital
  /\ recalcs' = <<>>

ShutdownEnds ==
  /\ engine.up
  /\ engine.shuttingDown
  /\ WaitOver
  /\ Stopped
  /\ UNCHANGED <<clock, rows, failedOpen, evaded>>

Crash ==
  /\ engine.up
  /\ Stopped
  /\ UNCHANGED <<clock, rows, failedOpen, evaded>>

\* A new process knows no exposures: the tracker recalculates on events only.
Boot ==
  /\ ~engine.up
  /\ engine' = [up |-> TRUE, shuttingDown |-> FALSE, halted |-> FALSE,
                deadline |-> 0]
  /\ evaded' = (evaded \/ Recalculation(rows) /= NoCapital)
  /\ UNCHANGED <<clock, cycle, rows, exposures, recalcs, failedOpen>>

----------------------------------------------------------------------------
(* Ingestion and detection.                                                *)

\* Pairs with a stale contract or a degraded venue (module PlatformHealth) are
\* skipped; the first fetch of the next fit pair is sent, if there is one.
Detect(todo, batch) ==
  \E skipped \in 0..Len(todo) :
    LET rest == SubSeq(todo, skipped + 1, Len(todo))
    IN  cycle' = [stage |-> IF rest /= <<>> THEN "kalshi"
                            ELSE IF batch = <<>> THEN "idle" ELSE "filter",
                  todo |-> rest, batch |-> batch]

IngestDone ==
  /\ cycle.stage = "ingest"
  /\ Detect(Pair, <<>>)
  /\ UNCHANGED <<clock, engine, rows, exposures, recalcs, failedOpen, evaded>>

IngestFails ==
  /\ cycle.stage = "ingest"
  /\ cycle' = NoCycle
  /\ UNCHANGED <<clock, engine, rows, exposures, recalcs, failedOpen, evaded>>

KalshiAnswers ==
  /\ cycle.stage = "kalshi"
  /\ cycle' = [cycle EXCEPT !.stage = "polymarket"]
  /\ UNCHANGED <<clock, engine, rows, exposures, recalcs, failedOpen, evaded>>

FetchFails ==
  /\ cycle.stage \in {"kalshi", "polymarket"}
  /\ Detect(Tail(cycle.todo), cycle.batch)
  /\ UNCHANGED <<clock, engine, rows, exposures, recalcs, failedOpen, evaded>>

PolymarketAnswers(edge) ==
  /\ cycle.stage = "polymarket"
  /\ LET found == [pair |-> Head(cycle.todo), edge |-> edge, size |-> SizeOf[Head(cycle.todo)]]
     IN  Detect(Tail(cycle.todo), IF edge = 0 THEN cycle.batch
                                  ELSE Append(cycle.batch, found))
  /\ UNCHANGED <<clock, engine, rows, exposures, recalcs, failedOpen, evaded>>

----------------------------------------------------------------------------
(* The pair concentration filter.                                          *)

OpenCount(p) == Cardinality(RowsOf(Active, p))

\* A plausible bug: the cooldown forgets positions that were closed.
CoolingDownOpen(p) ==
  /\ Cooldown > 0
  /\ \E i \in RowsOf(Active, p) : clock - rows[i].createdAt < Cooldown

CoolingDown(p) ==
  /\ Cooldown > 0
  /\ \E i \in DOMAIN rows : rows[i].pair = p /\ clock - rows[i].createdAt < Cooldown

AtMaxConcurrent(p) == MaxConcurrent > 0 /\ OpenCount(p) >= MaxConcurrent

\* At or above the average over the pairs that have positions.
Concentrated(p) ==
  LET open == {q \in DOMAIN ClusterOf : OpenCount(q) > 0}
      all  == SumFunction([q \in open |-> OpenCount(q)])
  IN  Diversity > 0 /\ all >= Diversity
      /\ OpenCount(p) * Cardinality(open) >= all

Passes(o) ==
  ~CoolingDown(o.pair) /\ ~AtMaxConcurrent(o.pair) /\ ~Concentrated(o.pair)

\* The places of a batch in the order in which they are taken: some of them
\* as they come, or all by falling edge, equal ones as they come.
AsTheyCome(places) ==
  {order \in [1..Cardinality(places) -> places] :
     \A m, n \in DOMAIN order : m < n => order[m] < order[n]}

BestFirst(batch) ==
  {order \in [DOMAIN batch -> DOMAIN batch] :
     \A m, n \in DOMAIN order : m < n =>
       LET a == batch[order[m]].edge  b == batch[order[n]].edge
       IN  a > b \/ (a = b /\ order[m] < order[n])}

Taken(batch, order) == [n \in DOMAIN order |-> batch[order[n]]]

\* After the filter, and after each validation.
Validating(todo, batch) ==
  IF todo /= <<>>
  THEN cycle' = [stage |-> "validate", todo |-> todo, batch |-> batch]
  ELSE \E order \in BestFirst(batch) :
         cycle' = [stage |-> IF batch = <<>> THEN "idle" ELSE "execute",
                   todo |-> <<>>, batch |-> Taken(batch, order)]

FilterOpportunities ==
  /\ cycle.stage = "filter"
  /\ LET passing == {i \in DOMAIN cycle.batch : Passes(cycle.batch[i])}
     IN  \E order \in AsTheyCome(passing) : Validating(Taken(cycle.batch, order), <<>>)
  /\ UNCHANGED <<clock, engine, rows, exposures, recalcs, failedOpen, evaded>>

\* The filter is a quality gate: when its queries fail everything passes.
FilterFails ==
  /\ cycle.stage = "filter"
  /\ Validating(cycle.batch, <<>>)
  /\ failedOpen' = TRUE
  /\ UNCHANGED <<clock, engine, rows, exposures, recalcs, evaded>>

----------------------------------------------------------------------------
(* The risk pre-screen.                                                    *)

\* A pair's size, tapered once its cluster is past the soft limit.
Taper(p) ==
  LET known == exposures[ClusterOf[p]]
  IN  IF known >= SoftLimit THEN (SizeOf[p] * (HardLimit - known)) \div HardLimit
      ELSE SizeOf[p]

\* A plausible bug: the exposure is compared without the new position.
WithinClusterNow(p) ==
  /\ Aggregate(exposures) < AggregateLimit
  /\ exposures[ClusterOf[p]] < HardLimit

\* validateClusterLimits, against the exposures the tracker knows now.
WithinCluster(p) ==
  /\ Aggregate(exposures) < AggregateLimit
  /\ exposures[ClusterOf[p]] < HardLimit
  /\ exposures[ClusterOf[p]] + Taper(p) < HardLimit

\* refused: halted, no slot, no capital (module RiskBudget), or no match id.
ValidatePosition(refused) ==
  /\ cycle.stage = "validate"
  /\ LET o == Head(cycle.todo)
         c == ClusterOf[o.pair]
         approved == ~refused /\ WithinCluster(o.pair)
         same == \E i \in DOMAIN cycle.batch : ClusterOf[cycle.batch[i].pair] = c
     IN  /\ Validating(Tail(cycle.todo),
                       IF approved
                       THEN Append(cycle.batch, [o EXCEPT !.size = Taper(o.pair)])
                       ELSE cycle.batch)
         /\ evaded' = (evaded \/ (approved /\ (same \/ recalcs /= <<>>)))
  /\ UNCHANGED <<clock, engine, rows, exposures, recalcs, failedOpen>>

----------------------------------------------------------------------------
(* The execution queue and the positions it opens.                         *)

Executed == cycle' = IF Len(cycle.batch) = 1 THEN NoCycle
                     ELSE [cycle EXCEPT !.stage = "execute", !.batch = Tail(@)]

Opened(status) ==
  Append(rows, [pair |-> Head(cycle.batch).pair, size |-> Head(cycle.batch).size,
                status |-> status, createdAt |-> clock])

\* A position of both legs or of one; committing its budget recalculates.
Execute(status) ==
  /\ cycle.stage = "execute"
  /\ Len(rows) < MaxRows
  /\ rows' = Opened(status)
  /\ recalcs' = Append(recalcs, Recalculation(rows'))
  /\ Executed
  /\ UNCHANGED <<clock, engine, exposures, failedOpen, evaded>>

\* The reservation is refused, or the first leg does not fill.
ExecuteNothing ==
  /\ cycle.stage = "execute"
  /\ Executed
  /\ UNCHANGED <<clock, engine, rows, exposures, recalcs, failedOpen, evaded>>

\* Only an exit that closes the position has the exposures recalculated.
ExitTriggered(i) ==
  /\ engine.up
  /\ i \in DOMAIN rows
  /\ rows[i].status \in {"OPEN", "EXIT_PARTIAL"}
  /\ \E s \in {"CLOSED", "EXIT_PARTIAL", "SINGLE_LEG_EXPOSED"} \ {rows[i].status} :
       /\ rows' = [rows EXCEPT ![i].status = s]
       /\ recalcs' = IF s = "CLOSED" THEN Append(recalcs, Recalculation(rows'))
                     ELSE recalcs
  /\ UNCHANGED <<clock, engine, cycle, exposures, failedOpen, evaded>>

\* An operator retries or closes the leg: no recalculation follows.
SingleLegResolved(i) ==
  /\ engine.up
  /\ i \in DOMAIN rows
  /\ rows[i].status \in {"SINGLE_LEG_EXPOSED", "EXIT_PARTIAL"}
  /\ \E s \in {"OPEN", "CLOSED"} : rows' = [rows EXCEPT ![i].status = s]
  /\ UNCHANGED <<clock, engine, cycle, exposures, recalcs, failedOpen, evaded>>

\* Reconciliation flags a position; an operator acknowledges or closes it.
Reconciled(i) ==
  /\ i \in DOMAIN rows
  /\ \/ /\ rows[i].status \in Exposed
        /\ rows' = [rows EXCEPT ![i].status = "RECONCILIATION_REQUIRED"]
     \/ /\ rows[i].status = "RECONCILIATION_REQUIRED"
        /\ \E s \in {"OPEN", "CLOSED"} : rows' = [rows EXCEPT ![i].status = s]
  /\ evaded' = (evaded \/ rows'[i].status = "OPEN")
  /\ UNCHANGED <<clock, engine, cycle, exposures, recalcs, failedOpen>>

----------------------------------------------------------------------------
(* Time and the next-state relation.                                       *)

Advance ==
  /\ clock < MaxTime
  /\ clock' = clock + 1
  /\ UNCHANGED <<engine, cycle, rows, exposures, recalcs, failedOpen, evaded>>

CycleStep ==
  \/ IngestDone \/ IngestFails
  \/ KalshiAnswers \/ FetchFails \/ \E e \in Edges : PolymarketAnswers(e)
  \/ FilterOpportunities \/ FilterFails
  \/ \E r \in BOOLEAN : ValidatePosition(r)
  \/ \E s \in {"OPEN", "SINGLE_LEG_EXPOSED"} : Execute(s)
  \/ ExecuteNothing

CycleNext ==
  \/ PollingCycle
  \/ CycleStep
  \/ \E i \in DOMAIN recalcs : RecalculationLands(i)
  \/ TimeHalt \/ InitiateShutdown \/ ShutdownEnds \/ Crash \/ Boot
  \/ \E i \in DOMAIN rows : ExitTriggered(i) \/ SingleLegResolved(i) \/ Reconciled(i)
  \/ Advance

CycleSpec == CycleInit /\ [][CycleNext]_cycleVars

----------------------------------------------------------------------------
(* Properties.                                                             *)

CycleTypeOK ==
  /\ clock \in 0..MaxTime
  /\ engine \in [up : BOOLEAN, shuttingDown : BOOLEAN, halted : BOOLEAN,
                 deadline : 0..(MaxTime + ShutdownWait)]
  /\ cycle.stage \in Stages
  /\ cycle.stage \in {"kalshi", "polymarket"} => cycle.todo /= <<>>
  /\ cycle.stage = "execute" => cycle.batch /= <<>>
  /\ \A i \in DOMAIN cycle.batch : cycle.batch[i] \in Opportunity
  /\ Len(rows) <= MaxRows
  /\ \A i \in DOMAIN rows : rows[i].pair \in Pairs /\ rows[i].createdAt \in 0..clock
  /\ exposures \in [Clusters -> Nat]
  /\ {failedOpen, evaded} \subseteq BOOLEAN

\* A pair never has more positions than pairMaxConcurrentPositions, whatever
\* happens to them between the filter's read and the next cycle: flagged
\* positions come back.  Only a filter that could not read lets more through.
PairLimitHeld ==
  (~failedOpen /\ MaxConcurrent > 0) => \A p \in Pairs : OpenCount(p) <= MaxConcurrent

\* Two positions of a pair are at least the cooldown apart, across restarts
\* and whether or not the first is still open.
CooldownRespected ==
  ~failedOpen =>
    \A i, j \in DOMAIN rows :
      i < j /\ rows[i].pair = rows[j].pair =>
        rows[j].createdAt - rows[i].createdAt >= Cooldown

\* What the filter of a batch promises of a pair, over later cycles, flags
\* and restarts.
PairGatesHeld == CycleTypeOK /\ PairLimitHeld /\ CooldownRespected

\* "Maximum exposure per correlation cluster (0-1). Rejects new positions."
\* (settings-metadata.ts:304): the capital in a cluster stays under its limit.
ClusterLimitHeld == \A c \in Clusters : CapitalIn(c, rows) < HardLimit

\* The same as far as the code provides for it: the cluster limit is held
\* unless one batch held two opportunities of the cluster, the exposures were
\* lost with the process, answers landed late or out of order, or a flagged
\* position, which the tracker does not count, came back.
ClusterLimitExplained == evaded \/ ClusterLimitHeld

=============================================================================

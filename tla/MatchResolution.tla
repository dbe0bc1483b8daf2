-------------------------- MODULE MatchResolution --------------------------
(* How approved matches end: the poller asks both venues for the outcome,   *)
(* the knowledge base records it, and the calibration of the thresholds     *)
(* reads what was recorded.                                                 *)
EXTENDS Integers, Sequences, FiniteSets

CONSTANTS
    DueMatches,    \* approved matches whose date has passed, oldest first
    ScoreOf,       \* match -> the confidence it was created with
    PollBatch,
    UpperTier, LowerTier,   \* the auto-approve and the review threshold
    MinimumData,   \* 10 in the code
    MaxPolls       \* bound: polls, calibrations and restarts

CalibrationFloor == 75
CalibrationCeiling == 95
Stride == 5

DueMatch == {DueMatches[i] : i \in DOMAIN DueMatches}

ASSUME ResolutionAssumption ==
    /\ DueMatches \in Seq(DueMatch)
    /\ ScoreOf \in [DueMatch -> 0..100]
    /\ {PollBatch, MinimumData} \subseteq Nat \ {0}
    /\ LowerTier \in 0..100 /\ UpperTier \in LowerTier..100
    /\ MaxPolls \in Nat

VARIABLES
    outcome,    \* match -> what each venue would answer
    record,     \* match -> its columns: unresolved, void or resolved, and the outcomes
    polling,    \* the poller's isRunning
    todo,       \* matches of this poll still to ask about, the oldest first
    kalshi,     \* Kalshi's answer for the oldest of them, or none
    divergences,\* match -> RESOLUTION_DIVERGED events
    latest, saved,  \* the last calibration in memory and in the database
    polls
resolutionVars == <<outcome, record, polling, todo, kalshi, divergences, latest, saved, polls>>

Venues == {"kalshi", "polymarket"}
Settled == {"yes", "no", "invalid"}
Unwritten == [state |-> "unresolved", kalshi |-> "none", polymarket |-> "none"]
NotCalibrated == [total |-> 0, tiers |-> <<0, 0, 0>>, diverged |-> <<0, 0, 0>>,
                  lower |-> 0, raise |-> FALSE]

ResolutionInit ==
    /\ outcome = [m \in DueMatch |-> [v \in Venues |-> "open"]]
    /\ record = [m \in DueMatch |-> Unwritten]
    /\ polling = FALSE /\ todo = {} /\ kalshi = "none"
    /\ divergences = [m \in DueMatch |-> 0]
    /\ latest = NotCalibrated /\ saved = NotCalibrated
    /\ polls = 0

-----------------------------------------------------------------------------
(* A venue settles a market once.                                           *)
SettleMarket(m, v) ==
    /\ outcome[m][v] = "open"
    /\ \E o \in Settled : outcome' = [outcome EXCEPT ![m][v] = o]
    /\ UNCHANGED <<record, polling, todo, kalshi, divergences, latest, saved, polls>>

Unresolved(m) == record[m].state = "unresolved"
Age(m) == CHOOSE i \in DOMAIN DueMatches : DueMatches[i] = m
Oldest(ms) == CHOOSE m \in ms : \A n \in ms : Age(m) <= Age(n)
FirstOf(ms, n) == {m \in ms : Cardinality({o \in ms : Age(o) < Age(m)}) < n}

StartPoll ==
    /\ ~polling /\ polls < MaxPolls
    /\ polling' = TRUE /\ polls' = polls + 1
    /\ todo' = FirstOf({m \in DueMatch : Unresolved(m)}, PollBatch)
    /\ UNCHANGED <<outcome, record, kalshi, divergences, latest, saved>>

VenueAnswers(m, v) == {outcome[m][v], "error"}

AskKalshi ==
    /\ todo # {} /\ kalshi = "none"
    /\ kalshi' \in VenueAnswers(Oldest(todo), "kalshi")
    /\ UNCHANGED <<outcome, record, polling, todo, divergences, latest, saved, polls>>

(* Polymarket is asked after Kalshi, and what was answered is written: a    *)
(* void market resolves the row whatever the other venue says; one open     *)
(* venue or a failed question leaves it for the next poll, and so does a    *)
(* write that fails.                                                        *)
AskPolymarket ==
    /\ todo # {} /\ kalshi # "none"
    /\ LET m == Oldest(todo) IN
       \E answer \in VenueAnswers(m, "polymarket") :
          \/ UNCHANGED <<record, divergences>>
          \/ /\ "error" \notin {kalshi, answer} /\ "invalid" \in {kalshi, answer}
             /\ record' = [record EXCEPT ![m].state = "void"]
             /\ UNCHANGED divergences
          \/ /\ {kalshi, answer} \subseteq {"yes", "no"}
             /\ record' = [record EXCEPT ![m] = [state |-> "resolved", kalshi |-> kalshi, polymarket |-> answer]]
             /\ divergences' = [divergences EXCEPT ![m] = @ + (IF kalshi # answer THEN 1 ELSE 0)]
    /\ todo' = todo \ {Oldest(todo)} /\ kalshi' = "none"
    /\ UNCHANGED <<outcome, polling, latest, saved, polls>>

EndPoll ==
    /\ polling /\ todo = {}
    /\ polling' = FALSE
    /\ UNCHANGED <<outcome, record, todo, kalshi, divergences, latest, saved, polls>>

-----------------------------------------------------------------------------
(* Calibration.                                                             *)

Resolved == {m \in DueMatch : ~Unresolved(m)}
Diverges(m) == record[m].kalshi # record[m].polymarket
CountDiverged(ms) == Cardinality({m \in ms : Diverges(m)})

TierOf(m) == IF ScoreOf[m] >= UpperTier THEN 1 ELSE IF ScoreOf[m] >= LowerTier THEN 2 ELSE 3
Tier(i) == {m \in Resolved : TierOf(m) = i}

(* Tenths of a per cent, rounded as toFixed(1) rounds. *)
DivergenceRate(ms) ==
    IF ms = {} THEN 0 ELSE (2000 * CountDiverged(ms) + Cardinality(ms)) \div (2 * Cardinality(ms))

Above(t) == {m \in Resolved : ScoreOf[m] >= t}
(* The thresholds tried, from the one below the present one down.           *)
Tried == {t \in CalibrationFloor..(UpperTier - Stride) : (UpperTier - t) % Stride = 0}
Viable(t) == DivergenceRate(Above(t)) = 0 /\ Cardinality(Above(t)) >= MinimumData

Lowered ==
    LET viable == {t \in Tried : Viable(t) /\ t <= CalibrationCeiling}
    IN IF viable = {} THEN 0 ELSE CHOOSE t \in viable : \A u \in viable : u <= t

CalibrationNow ==
    IF Cardinality(Resolved) < MinimumData
    THEN [NotCalibrated EXCEPT !.total = Cardinality(Resolved)]
    ELSE [total |-> Cardinality(Resolved),
          tiers |-> [i \in 1..3 |-> Cardinality(Tier(i))],
          diverged |-> [i \in 1..3 |-> CountDiverged(Tier(i))],
          lower |-> Lowered,
          raise |-> DivergenceRate(Tier(1)) > 50]

(* persistCalibrationRun swallows the failure of the insert. *)
Stored(result) == {saved, result}

Calibrate ==
    /\ polls < MaxPolls /\ polls' = polls + 1
    /\ latest' = CalibrationNow
    /\ saved' \in Stored(CalibrationNow)
    /\ UNCHANGED <<outcome, record, polling, todo, kalshi, divergences>>

RestartMatching ==
    /\ polls < MaxPolls /\ polls' = polls + 1
    /\ polling' = FALSE /\ todo' = {} /\ kalshi' = "none"
    /\ latest' = saved
    /\ UNCHANGED <<outcome, record, divergences, saved>>

ResolutionNext ==
    \/ \E m \in DueMatch, v \in Venues : SettleMarket(m, v)
    \/ StartPoll \/ AskKalshi \/ AskPolymarket \/ EndPoll
    \/ Calibrate \/ RestartMatching

ResolutionSpec == ResolutionInit /\ [][ResolutionNext]_resolutionVars

-----------------------------------------------------------------------------
Outcomes == Settled \union {"open"}
Calibration == [total : Nat, tiers : Seq(Nat), diverged : Seq(Nat), lower : 0..100, raise : BOOLEAN]

ResolutionTypeOK ==
    /\ outcome \in [DueMatch -> [Venues -> Outcomes]]
    /\ record \in [DueMatch -> [state : {"unresolved", "void", "resolved"},
                                kalshi : {"none", "yes", "no"}, polymarket : {"none", "yes", "no"}]]
    /\ polling \in BOOLEAN /\ kalshi \in Outcomes \union {"none", "error"}
    /\ todo \subseteq DueMatch /\ divergences \in [DueMatch -> Nat]
    /\ {latest, saved} \subseteq Calibration

(* A row says what the two venues say, although they were asked one after   *)
(* the other; it is void only if a venue voided the market                  *)
(* (runPoll:146-206).                                                       *)
RecordsMatchVenues ==
    \A m \in Resolved :
       IF record[m].state = "void" THEN \E v \in Venues : outcome[m][v] = "invalid"
       ELSE \A v \in Venues : outcome[m][v] = record[m][v]

(* A divergence is announced once, however many polls and restarts see the  *)
(* match (runPoll:134, recordResolution:118).                               *)
DivergedOnce ==
    \A m \in DueMatch : divergences[m] = IF Diverges(m) THEN 1 ELSE 0

(* A threshold recommended for approving without a person lies between 75   *)
(* and the present one, and of the matches that were resolved when it was   *)
(* calculated less than one in 2000, which the rate rounds to nothing, has  *)
(* diverged above it (runCalibration:261-303).                              *)
RecommendationSafe ==
    \A c \in {latest, saved} : c.lower # 0 =>
       LET resolvedSince == Cardinality(Resolved) - c.total IN
       /\ c.lower \in CalibrationFloor..(UpperTier - 1)
       /\ 2000 * (CountDiverged(Above(c.lower)) - resolvedSince) < c.total

(* The three tiers count every resolved match once.                         *)
TiersPartition ==
    \A c \in {latest, saved} :
       c.total >= MinimumData => c.tiers[1] + c.tiers[2] + c.tiers[3] = c.total

ResolutionsSound ==
    ResolutionTypeOK /\ RecordsMatchVenues /\ DivergedOnce /\ RecommendationSafe /\ TiersPartition
=============================================================================

-------------------------- MODULE ContractMatching --------------------------
(* The rows of contract_matches and everybody who writes them: discovery   *)
(* runs that may overlap, the ingestion of external pairs, the operator,   *)
(* the revalidation audit (a process of its own) and the start-up sync of  *)
(* the configured pairs.  Every await is a point where the others move.    *)
EXTENDS Naturals, FiniteSets, FiniteSetsExt

CONSTANTS
    MatchPair,    \* pairs of one Polymarket contract, so that one batch holds them
    MatchScores,  \* the scores the model may answer with
    AutoApprove, MinReview,
    MaxStarts,    \* bound: discoveries and ingestions started
    MaxReviews    \* bound: operator's decisions, audits and restarts

ASSUME MatchingAssumption ==
    /\ MatchScores \subseteq 0..100
    /\ {AutoApprove, MinReview} \subseteq 0..100
    /\ MinReview < AutoApprove          \* both constructors throw otherwise
    /\ {MaxStarts, MaxReviews} \subseteq Nat

VARIABLES
    configured,   \* the pairs of contract-pairs.yaml
    match,        \* pair -> its row, or Missing
    runAt,        \* run -> idle, listing or working
    discovering,  \* CandidateDiscoveryService._isRunning
    candidates,   \* the pairs in the middle of processCandidate or processPair
    approving,    \* approvals between the update of the row and their event, numbered
    rejecting,    \* rejections between the read of the row and its update
    auditing,     \* rows of the audit's list it has yet to judge
    told,         \* pair -> the events emitted for it, "approved" of its last approval
    orphans,      \* pairs whose announcement a restart or a failed read cut off
    doubled,   \* two discoveries have run at once
    starts, reviews
matchVars == <<configured, match, runAt, discovering, candidates, approving, rejecting,
               auditing, told, orphans, doubled, starts, reviews>>

Discovery == {"first", "second"}
Run == Discovery \union {"external"}
Missing == [by |-> "nobody"]
MismatchCap == 50

Exists(p) == match[p] # Missing
Approved(p) == Exists(p) /\ match[p].approved
ingesting == runAt["external"] # "idle"

MatchInit ==
    /\ configured \in SUBSET MatchPair
    /\ match = [p \in MatchPair |-> Missing]
    /\ runAt = [r \in Run |-> "idle"]
    /\ discovering = FALSE
    /\ candidates = {} /\ approving = {} /\ rejecting = {} /\ auditing = {}
    /\ told = [p \in MatchPair |-> {}]
    /\ orphans = {} /\ doubled = FALSE
    /\ starts = 0 /\ reviews = 0

-----------------------------------------------------------------------------
(* The runs.                                                                *)

StartDiscovery(d) ==
    /\ runAt[d] = "idle" /\ ~ingesting /\ starts < MaxStarts
    /\ runAt' = [runAt EXCEPT ![d] = "listing"]
    /\ discovering' = TRUE
    /\ doubled' = (doubled \/ \E e \in Discovery : runAt[e] # "idle")
    /\ starts' = starts + 1
    /\ UNCHANGED <<configured, match, candidates, approving, rejecting, auditing, told, orphans, reviews>>

StartIngestion ==
    /\ ~ingesting /\ ~discovering /\ starts < MaxStarts
    /\ runAt' = [runAt EXCEPT !["external"] = "listing"]
    /\ starts' = starts + 1
    /\ UNCHANGED <<configured, match, discovering, candidates, approving, rejecting, auditing, told,
                   orphans, doubled, reviews>>

(* The catalogues or the providers answer with some of the pairs; a venue  *)
(* or a provider that fails leaves none.                                   *)
List(r) ==
    /\ runAt[r] = "listing"
    /\ \E found \in SUBSET MatchPair :
          candidates' = candidates \union
             {[run |-> r, pair |-> p, at |-> "check", score |-> 0, mismatch |-> FALSE] : p \in found}
    /\ runAt' = [runAt EXCEPT ![r] = "working"]
    /\ UNCHANGED <<configured, match, discovering, approving, rejecting, auditing, told, orphans,
                   doubled, starts, reviews>>

Finish(r) ==
    /\ runAt[r] = "working" /\ \A c \in candidates : c.run # r
    /\ runAt' = [runAt EXCEPT ![r] = "idle"]
    /\ discovering' = (discovering /\ r = "external")
    /\ UNCHANGED <<configured, match, candidates, approving, rejecting, auditing, told, orphans,
                   doubled, starts, reviews>>

-----------------------------------------------------------------------------
(* One candidate.                                                           *)

Drop(c) == candidates' = candidates \ {c}
Move(c, d) == candidates' = (candidates \ {c}) \union {d}

(* A pair that has a row is left alone; an external pair may also lack an  *)
(* identifier or resemble the titles of a row.                             *)
Check(c) ==
    /\ c.at = "check"
    /\ \/ (Exists(c.pair) \/ c.run = "external") /\ Drop(c)
       \/ ~Exists(c.pair) /\ Move(c, [c EXCEPT !.at = "score"])
    /\ UNCHANGED <<match, told>>

(* Two questions to the model.  The direction is asked only by discovery;   *)
(* a mismatch caps the score.                                              *)
Score(c) ==
    /\ c.at = "score"
    /\ \/ Drop(c)
       \/ \E s \in MatchScores, wrong \in IF c.run = "external" THEN {FALSE} ELSE BOOLEAN :
             Move(c, [c EXCEPT !.at = "create", !.mismatch = wrong,
                               !.score = IF wrong THEN Min({s, MismatchCap}) ELSE s])
    /\ UNCHANGED <<match, told>>

AutoApproved(c) == c.score >= AutoApprove /\ ~c.mismatch
BelowReview(c) == c.score < MinReview

NewRow(c, hasToken) ==
    [by |-> IF AutoApproved(c) THEN (IF c.run = "external" THEN "ingestion" ELSE "discovery")
            ELSE IF BelowReview(c) THEN "autoReject" ELSE "none",
     approved |-> AutoApproved(c), score |-> c.score, mismatch |-> c.mismatch, token |-> hasToken]

(* fault: the create became an upsert *)
CreateOverwrites(c) ==
    /\ c.at = "create"
    /\ \E hasToken \in BOOLEAN : match' = [match EXCEPT ![c.pair] = NewRow(c, hasToken)]
    /\ IF BelowReview(c) THEN Drop(c) ELSE Move(c, [c EXCEPT !.at = "classify"])
    /\ UNCHANGED told
(* The unique key of the pair refuses a second row (P2002). *)
Create(c) ==
    /\ c.at = "create"
    /\ IF Exists(c.pair)
       THEN Drop(c) /\ UNCHANGED match
       ELSE /\ \E hasToken \in BOOLEAN : match' = [match EXCEPT ![c.pair] = NewRow(c, hasToken)]
            /\ IF BelowReview(c) THEN Drop(c) ELSE Move(c, [c EXCEPT !.at = "classify"])
    /\ UNCHANGED told

(* The cluster is decided (ClusterAssignment), or its failure is swallowed;*)
(* then the row is announced as it was created.                            *)
Announce(c) ==
    /\ c.at = "classify"
    /\ told' = [told EXCEPT ![c.pair] = @ \union {IF AutoApproved(c) THEN "approved" ELSE "pending"}]
    /\ Drop(c)
    /\ UNCHANGED match

CandidateStep(c) ==
    /\ Check(c) \/ Score(c) \/ Create(c) \/ Announce(c)
    /\ UNCHANGED <<configured, runAt, discovering, approving, rejecting, auditing, orphans, doubled,
                   starts, reviews>>

-----------------------------------------------------------------------------
(* The judges.                                                              *)

Judged(p, yes, who) == [match EXCEPT ![p].approved = yes, ![p].by = who]
Review == reviews < MaxReviews /\ reviews' = reviews + 1
Emit(p, event) == told' = [told EXCEPT ![p] = @ \union {event}]

(* updateMany writes the row; a second read of it comes before the event,   *)
(* and the request fails without one when the read does.                   *)
Approve(p) ==
    /\ Review /\ Exists(p) /\ ~Approved(p)
    /\ match' = Judged(p, TRUE, "operator")
    /\ approving' = approving \union {<<p, reviews>>}
    /\ told' = [told EXCEPT ![p] = @ \ {"approved"}] /\ orphans' = orphans \ {p}
    /\ UNCHANGED <<configured, runAt, discovering, candidates, rejecting, auditing, doubled, starts>>

(* fault: the second read answers, and nothing is emitted *)
ApprovalUntold(a) ==
    /\ a \in approving /\ approving' = approving \ {a}
    /\ UNCHANGED <<configured, match, runAt, discovering, candidates, rejecting, auditing, told,
                   orphans, doubled, starts, reviews>>

AnnounceApproval(a) ==
    /\ a \in approving /\ approving' = approving \ {a}
    /\ Emit(a[1], "approved")
    /\ UNCHANGED <<configured, match, runAt, discovering, candidates, rejecting, auditing, orphans,
                   doubled, starts, reviews>>

ApprovalReadFails(a) ==
    /\ a \in approving /\ approving' = approving \ {a}
    /\ orphans' = orphans \union {a[1]}
    /\ UNCHANGED <<configured, match, runAt, discovering, candidates, rejecting, auditing, told,
                   doubled, starts, reviews>>

(* The guard is read here and the row written in Reject, with no condition.*)
AskToReject(p) ==
    /\ Review /\ Exists(p) /\ ~Approved(p)
    /\ rejecting' = rejecting \union {p}
    /\ UNCHANGED <<configured, match, runAt, discovering, candidates, approving, auditing, told, orphans,
                   doubled, starts>>

Reject(p) ==
    /\ p \in rejecting
    /\ rejecting' = rejecting \ {p}
    /\ match' = Judged(p, FALSE, "rejected")
    /\ Emit(p, "rejected")
    /\ UNCHANGED <<configured, runAt, discovering, candidates, approving, auditing, orphans, doubled,
                   starts, reviews>>

StartAudit ==
    /\ Review /\ auditing = {}
    /\ auditing' = {p \in MatchPair : Approved(p)}
    /\ UNCHANGED <<configured, match, runAt, discovering, candidates, approving, rejecting, told, orphans,
                   doubled, starts>>

(* A mismatch, complementary prices or a low score flag the row; another   *)
(* token of the contract may turn out to be the right one.                 *)
Revalidate(p) ==
    /\ p \in auditing
    /\ auditing' = auditing \ {p}
    /\ match' \in {match, Judged(p, FALSE, "audit"), [match EXCEPT ![p].token = TRUE]}
    /\ UNCHANGED <<configured, runAt, discovering, candidates, approving, rejecting, told, orphans,
                   doubled, starts, reviews>>

(* The row of a configured pair is created or overwritten.                 *)
Synced(p) ==
    IF Approved(p) /\ match[p].token /\ match[p].by = "yaml" THEN match[p]
    ELSE IF Exists(p) THEN [match[p] EXCEPT !.approved = TRUE, !.by = "yaml", !.token = TRUE]
    ELSE [by |-> "yaml", approved |-> TRUE, score |-> 0, mismatch |-> FALSE, token |-> TRUE]

(* A restart loses the runs and the requests; the sync of the configured   *)
(* pairs stops at the first error, which is logged only.                   *)
RestartEngine ==
    /\ Review
    /\ orphans' = orphans \union {a[1] : a \in approving}
                          \union {c.pair : c \in {d \in candidates : d.at = "classify"}}
    /\ runAt' = [r \in Run |-> "idle"]
    /\ discovering' = FALSE /\ doubled' = FALSE
    /\ candidates' = {} /\ approving' = {} /\ rejecting' = {}
    /\ \E done \in SUBSET configured :
          match' = [p \in MatchPair |-> IF p \in done THEN Synced(p) ELSE match[p]]
    /\ UNCHANGED <<configured, auditing, told, starts>>

MatchNext ==
    \/ \E d \in Discovery : StartDiscovery(d)
    \/ StartIngestion
    \/ \E r \in Run : List(r) \/ Finish(r)
    \/ \E c \in candidates : CandidateStep(c)
    \/ \E p \in MatchPair : Approve(p) \/ AskToReject(p) \/ Reject(p) \/ Revalidate(p)
    \/ \E a \in approving : AnnounceApproval(a) \/ ApprovalReadFails(a)
    \/ StartAudit
    \/ RestartEngine

MatchSpec == MatchInit /\ [][MatchNext]_matchVars

(* ContractPairLoaderService.getActivePairs: what the engine may trade.     *)
ActivePairs == configured \union {p \in MatchPair : Approved(p) /\ match[p].token}

-----------------------------------------------------------------------------
Judge == {"none", "autoReject", "discovery", "ingestion", "operator", "rejected", "audit", "yaml"}

MatchTypeOK ==
    /\ configured \subseteq MatchPair
    /\ match \in [MatchPair -> {Missing} \union
           [by : Judge, approved : BOOLEAN, score : 0..100, mismatch : BOOLEAN, token : BOOLEAN]]
    /\ runAt \in [Run -> {"idle", "listing", "working"}]
    /\ {discovering, doubled} \subseteq BOOLEAN
    /\ \A c \in candidates : c.run \in Run /\ c.pair \in MatchPair
    /\ \A a \in approving : a[1] \in MatchPair
    /\ rejecting \union auditing \union orphans \subseteq MatchPair
    /\ told \in [MatchPair -> SUBSET {"approved", "pending", "rejected"}]

(* An ingestion works beside a discovery only after two discoveries have   *)
(* doubled and the first to end took the flag of the other down         *)
(* (runDiscovery:193 and :323, handleCron:81).                             *)
RunsExclusive ==
    ingesting /\ (\E d \in Discovery : runAt[d] # "idle") => doubled /\ ~discovering

(* A pair that discovery found to bet on opposite outcomes, or scored too  *)
(* low, is never traded on discovery's word (processCandidate:389-421).    *)
DirectionRespected ==
    \A p \in ActivePairs \ configured :
       match[p].by = "discovery" => ~match[p].mismatch /\ match[p].score >= AutoApprove

(* Whoever approves a pair tells it: the approval on which the engine may   *)
(* trade a pair, a pipeline's or the operator's, was announced since it was *)
(* written, is about to be, or was cut off by a restart or by the failure   *)
(* of the read between its row and its event (processCandidate:491,        *)
(* approveMatch:153-201).                                                  *)
ApprovalsAnnounced ==
    \A p \in ActivePairs \ configured :
       match[p].by # "yaml" =>
          \/ "approved" \in told[p] \/ p \in orphans
          \/ \E a \in approving : a[1] = p
          \/ \E c \in candidates : c.pair = p /\ c.at = "classify"

(* What a person has rejected stays out of the trading until a person       *)
(* approves it: no run, request or audit that was under way puts it back    *)
(* (processCandidate:356 and the unique key behind create:424).            *)
JudgementsKept ==
    \A p \in ActivePairs \ configured :
       "rejected" \in told[p] => match[p].by = "operator"

ContractsSound ==
    MatchTypeOK /\ RunsExclusive /\ DirectionRespected /\ ApprovalsAnnounced /\ JudgementsKept
=============================================================================

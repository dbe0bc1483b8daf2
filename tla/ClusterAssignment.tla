------------------------- MODULE ClusterAssignment -------------------------
(* Which correlation cluster a match belongs to: the tags the classifier    *)
(* learned, the model's answer when the tags do not decide, the operator's  *)
(* override and the audit that forgets the tags and classifies again.       *)
EXTENDS Naturals, FiniteSets

CONSTANTS
    ClusterMatch,   \* matches
    CategoryOf,     \* match -> [kalshi, polymarket], the raw category or "none"
    RiskCluster,    \* clusters the model may name
    MaxQuestions    \* bound: classifications, overrides and audits

Uncategorized == "uncategorized"
TagVenue == {"kalshi", "polymarket"}
Category == {CategoryOf[m][v] : m \in ClusterMatch, v \in TagVenue} \ {"none"}

ASSUME ClusterAssumption ==
    /\ {Uncategorized, "none"} \cap RiskCluster = {}
    /\ DOMAIN CategoryOf = ClusterMatch
    /\ MaxQuestions \in Nat

VARIABLES
    tags,       \* the rows of cluster_tag_mappings: venue, category, cluster
    clusterOf,  \* match -> its cluster, or none
    asking,     \* classifications under way
    overrides,  \* the audit log: match and new cluster
    answers,    \* match -> clusters the model named for it
    questions
clusterVars == <<tags, clusterOf, asking, overrides, answers, questions>>

ClusterInit ==
    /\ tags = {} /\ asking = {} /\ overrides = {}
    /\ clusterOf = [m \in ClusterMatch |-> "none"]
    /\ answers = [m \in ClusterMatch |-> {}]
    /\ questions = 0

Ask == questions < MaxQuestions /\ questions' = questions + 1
TaggedWith(v, m) == {c \in RiskCluster \union {Uncategorized} : <<v, CategoryOf[m][v], c>> \in tags}
Replace(q, new) == asking' = (asking \ {q}) \union new

-----------------------------------------------------------------------------
(* classifyMatch, called after a row was created or by the audit.           *)

StartClassify(m) ==
    /\ Ask /\ \A q \in asking : q.match # m
    /\ asking' = asking \union {[match |-> m, at |-> "kalshi", seen |-> {}, to |-> "none"]}
    /\ UNCHANGED <<tags, clusterOf, overrides, answers>>

(* Kalshi's tags are read first; the category may get another before        *)
(* Polymarket's are.                                                        *)
ReadKalshiTags(q) ==
    /\ q.at = "kalshi"
    /\ Replace(q, {[q EXCEPT !.at = "polymarket", !.seen = TaggedWith("kalshi", q.match)]})
    /\ UNCHANGED <<tags, clusterOf, overrides, answers, questions>>

(* Both categories must be tagged with one and the same cluster.            *)
FastPath(kalshiTags, polymarketTags) ==
    IF Cardinality(kalshiTags) = 1 /\ kalshiTags = polymarketTags THEN kalshiTags ELSE {}

ReadPolymarketTags(q) ==
    /\ q.at = "polymarket"
    /\ LET decided == FastPath(q.seen, TaggedWith("polymarket", q.match)) IN
       \/ \E c \in decided : Replace(q, {[q EXCEPT !.at = "assign", !.to = c]})
       \/ decided = {} /\ Replace(q, {[q EXCEPT !.at = "model"]})
       \/ Replace(q, {[q EXCEPT !.at = "assign", !.to = Uncategorized]})   \* the query failed
    /\ UNCHANGED <<tags, clusterOf, overrides, answers, questions>>

(* The model names a cluster, which is found or created by its slug (two    *)
(* names may share one, and a lost race finds the winner's), and the tags   *)
(* are learned; a name without a slug is Uncategorized and is learned too.  *)
(* A question that fails or runs out of time leaves Uncategorized alone.    *)
(* callLlm and getOrCreateCluster. *)
NamedCluster == RiskCluster \union {Uncategorized}
NewTags(m, c) == {<<v, CategoryOf[m][v], c>> : v \in {u \in TagVenue : CategoryOf[m][u] # "none"}}
AskModel(q) ==
    /\ q.at = "model"
    /\ \/ \E c \in NamedCluster :
             /\ Replace(q, {[q EXCEPT !.at = "assign", !.to = c]})
             /\ tags' = tags \union NewTags(q.match, c)
             /\ answers' = [answers EXCEPT ![q.match] = @ \union {c}]
       \/ /\ Replace(q, {[q EXCEPT !.at = "assign", !.to = Uncategorized]})
          /\ UNCHANGED <<tags, answers>>
    /\ UNCHANGED <<clusterOf, overrides, questions>>

(* The row takes the cluster whatever it says by now; the write may fail.   *)
Assign(q) ==
    /\ q.at = "assign"
    /\ \/ clusterOf' = [clusterOf EXCEPT ![q.match] = q.to]
       \/ UNCHANGED clusterOf
    /\ Replace(q, {})
    /\ UNCHANGED <<tags, overrides, answers, questions>>

-----------------------------------------------------------------------------
(* reassignCluster: the row is read, written, and then put on the trail.     *)
Override(m, c) ==
    /\ Ask
    /\ clusterOf' = [clusterOf EXCEPT ![m] = c]
    /\ overrides' = overrides \union {[match |-> m, new |-> c]}
    /\ UNCHANGED <<tags, asking, answers>>

(* reclassifyClusters forgets every tag before it classifies again.         *)
PurgeTags ==
    /\ Ask
    /\ tags' = {}
    /\ UNCHANGED <<clusterOf, asking, overrides, answers>>

ClusterNext ==
    \/ \E m \in ClusterMatch : StartClassify(m) \/ \E c \in RiskCluster : Override(m, c)
    \/ \E q \in asking :
          ReadKalshiTags(q) \/ ReadPolymarketTags(q) \/ AskModel(q) \/ Assign(q)
    \/ PurgeTags

ClusterSpec == ClusterInit /\ [][ClusterNext]_clusterVars

-----------------------------------------------------------------------------
SomeCluster == RiskCluster \union {Uncategorized, "none"}

ClusterTypeOK ==
    /\ tags \subseteq TagVenue \X Category \X SomeCluster
    /\ clusterOf \in [ClusterMatch -> SomeCluster]
    /\ \A q \in asking : q.match \in ClusterMatch /\ q.to \in SomeCluster
    /\ answers \in [ClusterMatch -> SUBSET SomeCluster]

(* A match lands in a risk cluster only because the model named it for this *)
(* match, because the model named it for a match of the same Kalshi and for *)
(* one of the same Polymarket category, or because an operator put it       *)
(* there: a broad category known on one venue alone moves nothing           *)
(* (tryFastPath:236-265).                                                   *)
NamedOnVenue(m, v, c) ==
    \E n \in ClusterMatch : CategoryOf[n][v] = CategoryOf[m][v] /\ c \in answers[n]
ClusterExplained ==
    \A m \in ClusterMatch :
       LET c == clusterOf[m] IN c \in RiskCluster =>
          \/ c \in answers[m]
          \/ \A v \in TagVenue : CategoryOf[m][v] # "none" /\ NamedOnVenue(m, v, c)
          \/ \E t \in overrides : t.match = m /\ t.new = c

ClustersSound == ClusterTypeOK /\ ClusterExplained
=============================================================================

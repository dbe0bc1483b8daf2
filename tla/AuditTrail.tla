----------------------------- MODULE AuditTrail -----------------------------
(***************************************************************************)
(* The hash-chained audit log: the serialized queue of appends             *)
(* (AuditLogService.append), the nightly pruning (AuditLogRetention-       *)
(* Service) and the verification of a range of dates (verifyChain).        *)
(*                                                                         *)
(* A hash is a number no other row has (it covers the row's content, its   *)
(* time and the hash before it); a row whose content was changed in the    *)
(* database no longer hashes to it.                                        *)
(***************************************************************************)
EXTENDS Integers, Sequences, Functions

CONSTANTS
    MaxEntries,         \* bound: appends begun
    MaxQueued,          \* bound: appends that wait for their turn
    LastInstant         \* bound: the clock, in the unit of createdAt

ASSUME AuditConstants == {MaxEntries, MaxQueued, LastInstant} \subseteq Nat

VARIABLES
    trail,              \* the rows of audit_logs, in the order of their insertion
    lastHash,           \* lastHash of the service, or Null
    queued,             \* writeQueue: the appends that have not begun
    writing,            \* the row whose create is awaited, or NoRow
    instant,            \* the clock
    made,               \* history: appends begun
    tied,               \* history: two rows have one createdAt
    torn                \* history: a row was stored by a call that then failed

auditVars == <<trail, lastHash, queued, writing, instant, made, tied, torn>>

Genesis == 0
Null == -1
NoRow == [previous |-> Null, hash |-> Null, at |-> 0, intact |-> TRUE]
Row == [previous : Genesis .. MaxEntries, hash : 1 .. MaxEntries, at : 0 .. LastInstant,
        intact : BOOLEAN]

AuditInit ==
    /\ trail = <<>> /\ lastHash = Null /\ queued = 0 /\ writing = NoRow
    /\ instant = 0 /\ made = 0 /\ tied = FALSE /\ torn = FALSE

-----------------------------------------------------------------------------
(* findLast: a row with the latest createdAt.                               *)
LatestHashes(rows) == {row.hash : row \in {r \in rows : \A other \in rows : other.at <= r.at}}
LastStored(rows) == IF rows = {} THEN {Genesis} ELSE LatestHashes(rows)

AppendEntry ==
    /\ queued < MaxQueued /\ made + queued < MaxEntries
    /\ queued' = queued + 1
    /\ UNCHANGED <<trail, lastHash, writing, instant, made, tied, torn>>

(* doAppend, up to the create.                                              *)
BeginAppend ==
    /\ writing = NoRow /\ queued > 0 /\ queued' = queued - 1
    /\ made' = made + 1
    /\ \E previous \in IF lastHash = Null THEN LastStored(Range(trail)) ELSE {lastHash} :
         /\ lastHash' = previous
         /\ writing' = [previous |-> previous, hash |-> made + 1, at |-> instant, intact |-> TRUE]
    /\ tied' = (tied \/ \E i \in DOMAIN trail : trail[i].at = instant)
    /\ UNCHANGED <<trail, instant, torn>>

(* The hash of the last row is not cached, and cannot be read.              *)
LastHashUnreadable ==
    /\ writing = NoRow /\ queued > 0 /\ lastHash = Null
    /\ queued' = queued - 1
    /\ made' = made + 1
    /\ UNCHANGED <<trail, lastHash, writing, instant, tied, torn>>

CreateSucceeds ==
    /\ writing # NoRow /\ writing' = NoRow
    /\ trail' = Append(trail, writing) /\ lastHash' = writing.hash
    /\ UNCHANGED <<queued, instant, made, tied, torn>>

(* fault: the hash is kept before the row is stored *)
AfterFailureAdvanced == writing.hash

AfterFailure == lastHash

(* handleWriteError: the failure is announced, the queue goes on.           *)
CreateFails ==
    /\ writing # NoRow /\ writing' = NoRow
    /\ lastHash' = AfterFailure
    /\ \/ UNCHANGED <<trail, torn>>
       \/ trail' = Append(trail, writing) /\ torn' = TRUE
    /\ UNCHANGED <<queued, instant, made, tied>>

(* handlePruning: the cutoff is some time before now.  Rows are stored in   *)
(* the order of their createdAt, so that the rows before it come first.     *)
Prune(cutoff) ==
    /\ \E gone \in DOMAIN trail :
         /\ \A i \in DOMAIN trail : trail[i].at < cutoff <=> i <= gone
         /\ trail' = SubSeq(trail, gone + 1, Len(trail))
    /\ UNCHANGED <<lastHash, queued, writing, instant, made, tied, torn>>

(* A crash loses the queue; the create under way may have been stored. The *)
(* service reads the last hash when it starts, or leaves it for the first  *)
(* append when it cannot.                                                   *)
AuditRestart ==
    /\ queued' = 0 /\ writing' = NoRow
    /\ trail' \in {trail} \cup (IF writing = NoRow THEN {} ELSE {Append(trail, writing)})
    /\ lastHash' \in {Null} \cup LatestHashes(Range(trail'))
    /\ UNCHANGED <<instant, made, tied, torn>>

TimePasses ==
    /\ instant < LastInstant /\ instant' = instant + 1
    /\ UNCHANGED <<trail, lastHash, queued, writing, made, tied, torn>>

(* External: somebody edits a stored row.                                   *)
Edit(i) ==
    /\ \A j \in DOMAIN trail : trail[j].intact
    /\ trail' = [trail EXCEPT ![i].intact = FALSE]
    /\ UNCHANGED <<lastHash, queued, writing, instant, made, tied, torn>>

AuditNext ==
    \/ AppendEntry \/ BeginAppend \/ LastHashUnreadable \/ CreateSucceeds \/ CreateFails
    \/ \E cutoff \in 1 .. instant : Prune(cutoff)
    \/ AuditRestart \/ TimePasses
    \/ \E i \in DOMAIN trail : Edit(i)

AuditSpec == AuditInit /\ [][AuditNext]_auditVars

-----------------------------------------------------------------------------
(* verifyChain *)

(* The places of a range; the entry before one of them is in the place      *)
(* before it, since rows are stored in the order of their createdAt.        *)
InRange(from, to) == {i \in DOMAIN trail : trail[i].at \in from .. to}
JustBefore(at) == LatestHashes({row \in Range(trail) : row.at < at})

(* The hash the first entry of a range must follow; the first of all rows   *)
(* follows whatever it says it follows (the rest was pruned).               *)
Anchor(first) == IF JustBefore(first.at) = {} THEN {first.previous} ELSE JustBefore(first.at)

VerifyChain(from, to) ==
    LET places == InRange(from, to) IN
    \A i \in places :
        /\ trail[i].previous \in IF i - 1 \in places THEN {trail[i - 1].hash} ELSE Anchor(trail[i])
        /\ trail[i].intact

AuditTypeOK ==
    /\ trail \in Seq(Row) /\ lastHash \in Null .. MaxEntries
    /\ queued \in 0 .. MaxQueued /\ writing \in Row \cup {NoRow}
    /\ instant \in 0 .. LastInstant /\ made \in 0 .. MaxEntries
    /\ {tied, torn} \subseteq BOOLEAN

(* A verification of any range of dates finds fault exactly when a row of   *)
(* the range was edited: no failed write, pruning or restart breaks the     *)
(* chain, as long as no two rows have one createdAt and no failed create    *)
(* stored its row.                                                          *)
VerificationTruthful ==
    ~tied /\ ~torn =>
        \A from, to \in 0 .. LastInstant :
            VerifyChain(from, to)
                <=> \A i \in DOMAIN trail : trail[i].at \in from .. to => trail[i].intact

(* The trail is well formed and its verification tells the truth.           *)
TrailSound == AuditTypeOK /\ VerificationTruthful
=============================================================================

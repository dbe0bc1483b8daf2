---------------------------- MODULE RateLimiter ----------------------------
(***************************************************************************)
(* The token bucket in front of a venue's API (common/utils/rate-limiter), *)
(* with several callers.  The read and the write bucket run the same code  *)
(* on their own tokens, so the model has one.  Time passes in the time one *)
(* token takes to be refilled; a bucket that was looked at less than a     *)
(* token ago is a bucket looked at now.                                    *)
(***************************************************************************)
EXTENDS Integers

CONSTANTS
    Caller,             \* concurrent callers of acquireRead (acquireWrite)
    Burst,              \* maxReadTokens
    MaxElapsed,         \* bound: the time that passes
    MaxIssued           \* bound: the requests let through

ASSUME LimiterConstants == {Burst, MaxElapsed, MaxIssued} \subseteq Nat /\ Burst > 0

VARIABLES
    tokens,             \* readTokens
    unrefilled,         \* time since lastRefill
    acquiring,          \* by caller: where it is in acquireRead
    elapsed, issued,    \* history: the time, the requests let through
    window,             \* history: what they were when some window of time began
    overlapped          \* history: a call began while another was under way

limiterVars == <<tokens, unrefilled, acquiring, elapsed, issued, window, overlapped>>

LimiterInit ==
    /\ tokens = Burst /\ unrefilled = 0
    /\ acquiring = [c \in Caller |-> "idle"]
    /\ elapsed = 0 /\ issued = 0 /\ window = [elapsed |-> 0, issued |-> 0]
    /\ overlapped = FALSE

(* fault: the bucket has no brim *)
RefilledOver == tokens + unrefilled

Refilled == IF tokens + unrefilled < Burst THEN tokens + unrefilled ELSE Burst

(* acquireRead, up to its await: the tokens are looked at once.             *)
Acquire(c) ==
    /\ acquiring[c] = "idle" /\ issued < MaxIssued
    /\ tokens' = Refilled /\ unrefilled' = 0
    /\ acquiring' = [acquiring EXCEPT ![c] = IF Refilled < 1 THEN "waiting" ELSE "passed"]
    /\ overlapped' = (overlapped \/ \E other \in Caller : acquiring[other] # "idle")
    /\ UNCHANGED <<elapsed, issued, window>>

(* The rest of the call takes a token whether there is one or not.          *)
TakeToken(c) ==
    /\ acquiring[c] \in {"passed", "due"}
    /\ IF acquiring[c] = "due" THEN tokens' = Refilled - 1 /\ unrefilled' = 0
                               ELSE tokens' = tokens - 1 /\ UNCHANGED unrefilled
    /\ acquiring' = [acquiring EXCEPT ![c] = "idle"]
    /\ issued' = issued + 1
    /\ UNCHANGED <<elapsed, window, overlapped>>

(* The wait is the time of one token.  It is over when that time has passed,*)
(* however late the caller then comes; one that need not wait goes on in the*)
(* same turn of the event loop, after others that are ready, before time    *)
(* passes.                                                                  *)
LimiterTick ==
    /\ \A c \in Caller : acquiring[c] # "passed"
    /\ elapsed < MaxElapsed /\ elapsed' = elapsed + 1
    /\ unrefilled' = unrefilled + 1
    /\ acquiring' = [c \in Caller |-> IF acquiring[c] = "waiting" THEN "due" ELSE acquiring[c]]
    /\ UNCHANGED <<tokens, issued, window, overlapped>>

(* History: the window of time the venue looks at may begin at any moment.  *)
WindowBegins ==
    /\ window' = [elapsed |-> elapsed, issued |-> issued]
    /\ UNCHANGED <<tokens, unrefilled, acquiring, elapsed, issued, overlapped>>

LimiterNext ==
    \/ \E c \in Caller : Acquire(c) \/ TakeToken(c)
    \/ LimiterTick \/ WindowBegins

LimiterSpec == LimiterInit /\ [][LimiterNext]_limiterVars

-----------------------------------------------------------------------------
LimiterTypeOK ==
    /\ tokens \in Int /\ tokens <= Burst /\ unrefilled \in 0 .. MaxElapsed
    /\ acquiring \in [Caller -> {"idle", "passed", "waiting", "due"}]
    /\ elapsed \in 0 .. MaxElapsed /\ issued \in Nat
    /\ window \in [elapsed : 0 .. MaxElapsed, issued : Nat] /\ overlapped \in BOOLEAN

(* What the bucket promises a venue: in no window of time do more requests  *)
(* pass than the burst and what that time refills.                          *)
WithinLimit == issued - window.issued <= Burst + (elapsed - window.elapsed)

(* The promise is kept as long as no two calls overlap.                     *)
SequentialWithinLimit == ~overlapped => WithinLimit

(* The bucket counts, and its limit is kept by calls that do not overlap.   *)
LimiterSound == LimiterTypeOK /\ SequentialWithinLimit
=============================================================================

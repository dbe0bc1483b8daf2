--------------------------- MODULE ExecutionLock ---------------------------
(***************************************************************************)
(* ExecutionLockService: the one mutual-exclusion lock of the engine.  The *)
(* execution queue holds it around an opportunity, an operator's close     *)
(* around a position.                                                      *)
(*                                                                         *)
(* The lock is a promise (held iff it is not null), the function that      *)
(* resolves it, and a timer.  It keeps no record of its holder: release    *)
(* frees whatever hold there is, whoever calls it, and the timer calls     *)
(* release as well.  Waiters await the promise of the hold they found.     *)
(* When it resolves they run in the order in which they began to wait,     *)
(* before any other callback of the event loop: the first takes the lock,  *)
(* the others find a new promise and wait on, in the same order.  So a     *)
(* release and the entry of the first waiter are one step.                 *)
(***************************************************************************)
EXTENDS Naturals, Sequences, FiniteSets, SequencesExt

CONSTANTS
    Caller,   \* the flows that use the lock
    NoCaller  \* the lock is free

ASSUME NoCallerIsNone == NoCaller \notin Caller

VARIABLES
    holder,   \* history: whose acquire made the current lockPromise; NoCaller when it is null
    timer,    \* lockTimeout # null
    waiting,  \* callers that await a lockPromise, oldest first
    inside,   \* history: callers whose acquire has returned and that have not called release
    slipped   \* history: the timer has ended a hold since inside was last empty

lock == <<holder, timer>>
vars == <<lock, waiting, inside, slipped>>

Init ==
    /\ holder = NoCaller /\ timer = FALSE
    /\ waiting = <<>>
    /\ inside = {} /\ slipped = FALSE

Waits(c) == c \in ToSet(waiting)

-----------------------------------------------------------------------------
(* A definition marked "fault" is a plausible mistake in the definition    *)
(* below it; nothing uses it, and putting it in that place must break a    *)
(* property.                                                               *)

GrantUntimed(c) == holder' = c /\ timer' = FALSE   \* fault: no timer is set

(* The end of acquire: a new promise and its timer. *)
Grant(c) == holder' = c /\ timer' = TRUE

Unlocked == holder' = NoCaller /\ timer' = FALSE

Free == IF holder = NoCaller THEN UNCHANGED lock ELSE Unlocked

AcquireUnchecked(c) ==            \* fault: no loop around the await, a held lock is taken over
    /\ c \notin inside /\ ~Waits(c)
    /\ Grant(c)
    /\ inside' = inside \cup {c}
    /\ UNCHANGED <<waiting, slipped>>

Acquire(c) ==
    /\ c \notin inside /\ ~Waits(c)
    /\ IF holder = NoCaller
       THEN Grant(c) /\ inside' = inside \cup {c} /\ UNCHANGED waiting
       ELSE waiting' = Append(waiting, c) /\ UNCHANGED <<lock, inside>>
    /\ UNCHANGED slipped

HandOverLost(staying) ==          \* fault: lockPromise is cleared but never resolved
    /\ Free
    /\ inside' = staying
    /\ UNCHANGED waiting

(* release: with a hold to end, its waiters run; without one, nothing. *)
HandOver(staying) ==
    IF holder # NoCaller /\ waiting # <<>>
    THEN Grant(Head(waiting)) /\ waiting' = Tail(waiting) /\ inside' = staying \cup {Head(waiting)}
    ELSE Free /\ inside' = staying /\ UNCHANGED waiting

ReleaseSkipped(c) ==              \* fault: an error path leaves without release
    /\ c \in inside
    /\ inside' = inside \ {c}
    /\ UNCHANGED <<lock, waiting, slipped>>

(* The caller's finally block. *)
Release(c) ==
    /\ c \in inside
    /\ HandOver(inside \ {c})
    /\ slipped' = (slipped /\ inside' # {})

TimerFires ==
    /\ timer
    /\ HandOver(inside)
    /\ slipped' = TRUE

Next == TimerFires \/ \E c \in Caller : Acquire(c) \/ Release(c)

(* Timers fire; nothing makes a caller come back from what it awaits. *)
Spec == Init /\ [][Next]_vars /\ WF_vars(TimerFires)

-----------------------------------------------------------------------------
(* Properties. *)

(* A caller is in one place, and the timer runs exactly while the lock is  *)
(* held.                                                                   *)
TypeOK ==
    /\ holder \in Caller \cup {NoCaller}
    /\ timer = (holder # NoCaller)
    /\ waiting \in Seq(Caller)
    /\ inside \subseteq Caller
    /\ slipped \in BOOLEAN
    /\ inside \cap ToSet(waiting) = {}

(* The lock is never held for a caller that has left, though release does  *)
(* not look at who calls it and the timer may end a hold at any moment.    *)
NoOrphanedHold == holder # NoCaller => holder \in inside

(* Nobody waits for a free lock: no release, not the timer's and not a     *)
(* late one, loses a wake-up.                                              *)
NobodyWaitsForFreeLock == waiting # <<>> => holder # NoCaller

(* As long as the timer has ended no hold since the lock was last idle, at *)
(* most one caller is inside.                                              *)
ExclusiveUntilTimeout == ~slipped => \A c, d \in inside : c = d

(* Whoever waits gets in, even when those before it never come back.       *)
EveryWaiterEnters == \A c \in Caller : Waits(c) ~> c \in inside

(* The lock can never wedge the engine: each hold has its holder, each      *)
(* waiter a hold to wait for.                                              *)
LockSound == TypeOK /\ NoOrphanedHold /\ NobodyWaitsForFreeLock

(* The promise, the timer and the queue implement exclusive access: a      *)
(* release always lets the next caller in, and two are inside together     *)
(* only after one was overtaken.                                           *)
Access == INSTANCE ExclusiveAccess WITH asking <- ToSet(waiting)
ImplementsAccess == Access!Spec
=============================================================================

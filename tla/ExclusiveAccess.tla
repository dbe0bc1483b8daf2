-------------------------- MODULE ExclusiveAccess --------------------------
(* What the execution lock promises, without its promise, its timer, its   *)
(* holder and the order of its queue: callers ask, enter and leave.        *)
(* Whoever leaves lets one in if anyone asks.  A caller that stays too     *)
(* long is overtaken; until everyone has left the lock excludes nobody.    *)
CONSTANT Caller

VARIABLES
    asking,     \* the callers that wait to enter
    inside,     \* the callers that are in
    slipped     \* somebody has been overtaken since inside was last empty

accessVars == <<asking, inside, slipped>>

Init == asking = {} /\ inside = {} /\ slipped = FALSE

(* One of the callers that ask, if there is one. *)
NextIn == IF asking = {} THEN {{}} ELSE {{c} : c \in asking}

Admit(next, staying) ==
    /\ next = {} \/ staying = {} \/ slipped'
    /\ asking' = asking \ next /\ inside' = staying \cup next

Ask(c) ==
    /\ c \notin asking \cup inside /\ inside # {}
    /\ asking' = asking \cup {c}
    /\ UNCHANGED <<inside, slipped>>

Enter(c) ==
    /\ c \notin asking \cup inside
    /\ inside = {} \/ slipped
    /\ inside' = inside \cup {c}
    /\ UNCHANGED <<asking, slipped>>

Leave(c) ==
    /\ c \in inside
    /\ \E next \in NextIn :
        /\ slipped' = (slipped /\ (inside \ {c}) \cup next # {})
        /\ Admit(next, inside \ {c})

Overtake ==
    /\ inside # {}
    /\ slipped' = TRUE
    /\ \E next \in NextIn : Admit(next, inside)

Next == Overtake \/ \E c \in Caller : Ask(c) \/ Enter(c) \/ Leave(c)

Spec == Init /\ [][Next]_accessVars
=============================================================================

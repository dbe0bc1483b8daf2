----------------------------- MODULE MCProgress -----------------------------
(* One run for three services that share nothing and promise that          *)
(* something happens in the end: the execution lock, the delivery of       *)
(* alerts, the health of a venue.  The state says which of them moves; the *)
(* others rest in their initial states.                                    *)
EXTENDS ExecutionLock, AlertDelivery, PlatformHealth

CONSTANTS k, b1, b2

OneVenue == <<k>>
TwoBooks == [p \in {k} |-> {b1, b2}]
NoVenue == {}

VARIABLE service

progressVars == <<service, vars, alertVars, healthVars>>

ProgressInit ==
    /\ service \in {"lock", "alerts", "health"}
    /\ Init /\ AlertInit /\ HealthInit
    /\ service # "alerts" => bufferMax = 1

OfLock(A) == service = "lock" /\ A /\ UNCHANGED <<service, alertVars, healthVars>>
OfAlerts(A) == service = "alerts" /\ A /\ UNCHANGED <<service, vars, healthVars>>
OfHealth(A) == service = "health" /\ A /\ UNCHANGED <<service, vars, alertVars>>

ProgressNext == OfLock(Next) \/ OfAlerts(AlertNext) \/ OfHealth(HealthNext)

(* The fairness of the three, for the one that moves. *)
ProgressFairness ==
    /\ WF_progressVars(OfLock(TimerFires))
    /\ WF_progressVars(OfAlerts(Drain)) /\ WF_progressVars(OfAlerts(BreakEnds))
    /\ \A c \in SendCall : WF_progressVars(OfAlerts(Answer(c)))
    /\ \A s \in {"warning", "info"} : SF_progressVars(OfAlerts(FlushBatch(s)))
    /\ WF_progressVars(OfHealth(CycleStep)) /\ WF_progressVars(OfHealth(CronFires))
    /\ WF_progressVars(OfHealth(HalfMinutePasses))
    /\ \A c \in Checker : WF_progressVars(OfHealth(CheckStep(c)))

ProgressSpec == ProgressInit /\ [][ProgressNext]_progressVars /\ ProgressFairness
=============================================================================

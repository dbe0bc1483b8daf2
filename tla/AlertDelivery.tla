--------------------------- MODULE AlertDelivery ---------------------------
(***************************************************************************)
(* What becomes of an event that concerns an operator: the consumer that   *)
(* classifies it (EventConsumerService), the batches of the alert service  *)
(* (TelegramAlertService), and the circuit breaker with its priority       *)
(* buffer and its drain (TelegramCircuitBreakerService).                   *)
(*                                                                         *)
(* An alert is its severity, and whether it is the one alert that is       *)
(* watched.  A batch is consolidated into one message, so a batch is the   *)
(* alert it will send.  The circuit counts failures up to its limit only.  *)
(***************************************************************************)
EXTENDS Integers, Sequences, SequencesExt

CONSTANTS
    AlertRetries,       \* maxRetries: failures in a row that open the circuit
    BufferSizes,        \* the values bufferMaxSize may be given
    SendCall            \* bound: calls of enqueueAndSend that wait for an answer

ASSUME AlertConstants ==
    /\ AlertRetries \in Nat \ {0}
    /\ BufferSizes \subseteq Nat \ {0} /\ BufferSizes # {}

VARIABLES
    batch,          \* batchBuffer: by event name, the alert its timer will send, or NoAlert
    sending,        \* by call of enqueueAndSend, the alert whose answer it waits for
    failures,       \* consecutiveFailures
    breaking,       \* circuitOpenUntil is in the future
    buffer, bufferMax,
    drain,          \* draining, and the alert being sent
    telegramUp,     \* external: the API answers
    watch           \* history: the watched alert is "raised", or not raised or gone: "no"

alertVars == <<batch, sending, failures, breaking, buffer, bufferMax, drain,
               telegramUp, watch>>

-----------------------------------------------------------------------------
(* SEVERITY_PRIORITY, and the classes of events that reach an operator.     *)
Priority == [critical |-> 3, warning |-> 2, info |-> 1]
AlertKind == [severity : {"critical", "warning", "info"}, watched : BOOLEAN]
NoAlert == [severity |-> "none", watched |-> FALSE]
Plain(s) == [severity |-> s, watched |-> FALSE]

Draining == drain.at # "idle"
Resting == [at |-> "idle", alert |-> NoAlert]

AlertInit ==
    /\ batch = [s \in {"warning", "info"} |-> NoAlert]
    /\ sending = [c \in SendCall |-> NoAlert]
    /\ failures = 0 /\ breaking = FALSE
    /\ buffer = <<>> /\ bufferMax \in BufferSizes
    /\ drain = Resting /\ telegramUp = TRUE
    /\ watch = "no"

-----------------------------------------------------------------------------
(* bufferMessage: a full buffer gives up the oldest of its least severe     *)
(* alerts, whatever the severity of the one that comes.  The buffer keeps   *)
(* the alerts of one severity in the order of their timestamps.             *)
(* fault: one alert too many *)
FullLate(b) == Len(b) > bufferMax

Full(b) == Len(b) >= bufferMax
Least(b) == CHOOSE i \in DOMAIN b :
                /\ \A j \in DOMAIN b : Priority[b[i].severity] <= Priority[b[j].severity]
                /\ \A j \in 1 .. i - 1 : Priority[b[j].severity] > Priority[b[i].severity]
Buffered(b, alert) == IF Full(b) THEN Append(RemoveAt(b, Least(b)), alert) ELSE Append(b, alert)
Evicts(b) == Full(b) /\ b[Least(b)].watched

Bury(alert) ==
    /\ buffer' = Buffered(buffer, alert)
    /\ watch' = IF Evicts(buffer) THEN "no" ELSE watch

Raise(alert) == IF alert.watched THEN "raised" ELSE watch

(* getCircuitState                                                          *)
CircuitOpen == failures >= AlertRetries /\ breaking

(* enqueueAndSend, up to its await.                                         *)
EnqueueAndSend(alert) ==
    IF CircuitOpen
      THEN /\ buffer' = Buffered(buffer, alert)
           /\ watch' = IF Evicts(buffer) THEN "no" ELSE Raise(alert)
           /\ UNCHANGED sending
      ELSE /\ \E c \in SendCall : sending[c] = NoAlert /\ sending' = [sending EXCEPT ![c] = alert]
           /\ watch' = Raise(alert)
           /\ UNCHANGED buffer

(* triggerBufferDrain; the drain itself begins in a later turn.             *)
TriggerDrain ==
    drain' = IF Draining \/ buffer = <<>> THEN drain ELSE [Resting EXCEPT !.at = "scheduled"]

Delivered(alert) == IF alert.watched THEN "no" ELSE watch

(* The answer to a call: the API has the message, or the call fails; a call *)
(* that times out may have been delivered, and is kept to be sent again.    *)
SendSucceeds(c) ==
    /\ sending[c] # NoAlert /\ telegramUp
    /\ sending' = [sending EXCEPT ![c] = NoAlert]
    /\ failures' = 0 /\ watch' = Delivered(sending[c])
    /\ TriggerDrain
    /\ UNCHANGED <<batch, breaking, buffer, bufferMax, telegramUp>>

SendFails(c) ==
    /\ sending[c] # NoAlert /\ ~telegramUp
    /\ sending' = [sending EXCEPT ![c] = NoAlert]
    /\ failures' = IF failures < AlertRetries THEN failures + 1 ELSE failures
    /\ breaking' = (breaking \/ failures + 1 >= AlertRetries)
    /\ Bury(sending[c])
    /\ UNCHANGED <<batch, bufferMax, drain, telegramUp>>

BreakEnds ==
    /\ breaking /\ breaking' = FALSE
    /\ UNCHANGED <<batch, sending, failures, buffer, bufferMax, drain, telegramUp, watch>>

-----------------------------------------------------------------------------
(* drainBuffer *)

OfSeverity(b, s) == SelectSeq(b, LAMBDA alert : alert.severity = s)
BySeverity(b) == OfSeverity(b, "critical") \o OfSeverity(b, "warning") \o OfSeverity(b, "info")

(* The loop takes the first alert of the buffer, which it sorted when it    *)
(* began, or ends.                                                          *)
TakeFirst(b) ==
    /\ buffer' = IF b = <<>> THEN b ELSE Tail(b)
    /\ drain' = IF b = <<>> THEN Resting ELSE [at |-> "sending", alert |-> Head(b)]

DrainNext ==
    /\ drain.at \in {"scheduled", "pause"}
    /\ TakeFirst(IF drain.at = "scheduled" THEN BySeverity(buffer) ELSE buffer)
    /\ UNCHANGED <<batch, sending, failures, breaking, bufferMax, telegramUp, watch>>

DrainSends ==
    /\ drain.at = "sending" /\ telegramUp
    /\ drain' = IF buffer = <<>> THEN Resting ELSE [Resting EXCEPT !.at = "pause"]
    /\ watch' = Delivered(drain.alert)
    /\ UNCHANGED <<batch, sending, failures, breaking, buffer, bufferMax, telegramUp>>

(* The drain gives up when the third attempt at a message has failed; its   *)
(* finally clears the flag.                                                 *)
(* fault: the flag stays up *)
AfterDrainStuck == [Resting EXCEPT !.at = "stuck"]

AfterDrain == Resting

DrainGivesUp ==
    /\ drain.at = "sending" /\ ~telegramUp
    /\ buffer' = <<drain.alert>> \o buffer
    /\ drain' = AfterDrain
    /\ UNCHANGED <<batch, sending, failures, breaking, bufferMax, telegramUp, watch>>

-----------------------------------------------------------------------------
(* TelegramAlertService.addToBatch and flushBatch (onModuleDestroy flushes  *)
(* what is left in the same way).                                           *)
AddToBatch(alert) ==
    /\ batch' = [batch EXCEPT ![alert.severity].severity = alert.severity,
                              ![alert.severity].watched = @ \/ alert.watched]
    /\ watch' = Raise(alert)

FlushBatch(s) ==
    /\ batch[s] # NoAlert
    /\ batch' = [batch EXCEPT ![s] = NoAlert]
    /\ EnqueueAndSend(batch[s])
    /\ UNCHANGED <<failures, breaking, bufferMax, drain, telegramUp>>

(* EventConsumerService.handleEvent: critical alerts bypass the batches.    *)
CriticalEvent(isWatched) ==
    /\ isWatched => watch = "no"
    /\ EnqueueAndSend([severity |-> "critical", watched |-> isWatched])
    /\ UNCHANGED <<batch, failures, breaking, bufferMax, drain, telegramUp>>

WarningEvent(isWatched) ==
    /\ isWatched => watch = "no"
    /\ AddToBatch([severity |-> "warning", watched |-> isWatched])
    /\ UNCHANGED <<sending, failures, breaking, buffer, bufferMax, drain, telegramUp>>

(* Opportunities, fills, closes and recoveries; in paper mode an opportunity*)
(* announced before its pair's position closed is not announced again, which*)
(* only makes the alerts fewer.                                             *)
InfoEvent ==
    /\ AddToBatch(Plain("info"))
    /\ UNCHANGED <<sending, failures, breaking, buffer, bufferMax, drain, telegramUp>>

(* reloadConfig *)
ReloadBufferSize ==
    /\ bufferMax' \in BufferSizes
    /\ UNCHANGED <<batch, sending, failures, breaking, buffer, drain, telegramUp, watch>>

(* Everything above is memory.                                              *)
AlertCrash ==
    /\ batch' = [s \in DOMAIN batch |-> NoAlert]
    /\ sending' = [c \in SendCall |-> NoAlert]
    /\ failures' = 0 /\ breaking' = FALSE /\ buffer' = <<>> /\ drain' = Resting
    /\ watch' = "no"
    /\ UNCHANGED <<bufferMax, telegramUp>>

TelegramTurns ==
    /\ telegramUp' = ~telegramUp
    /\ UNCHANGED <<batch, sending, failures, breaking, buffer, bufferMax, drain, watch>>

-----------------------------------------------------------------------------
SomeEvent ==
    \/ \E isWatched \in BOOLEAN : CriticalEvent(isWatched) \/ WarningEvent(isWatched)
    \/ InfoEvent
Drain == DrainNext \/ DrainSends \/ DrainGivesUp
Answer(c) == SendSucceeds(c) \/ SendFails(c)

AlertNext ==
    \/ SomeEvent \/ Drain \/ BreakEnds
    \/ \E c \in SendCall : Answer(c)
    \/ \E s \in DOMAIN batch : FlushBatch(s)
    \/ ReloadBufferSize \/ AlertCrash \/ TelegramTurns

(* Timers fire, calls are answered or time out, and the drain goes on.  The *)
(* flush of a batch waits for one of the bounded calls, the code's does not.*)
AlertFairness ==
    /\ WF_alertVars(Drain) /\ WF_alertVars(BreakEnds)
    /\ \A c \in SendCall : WF_alertVars(Answer(c))
    /\ \A s \in {"warning", "info"} : SF_alertVars(FlushBatch(s))

AlertSpec == AlertInit /\ [][AlertNext]_alertVars /\ AlertFairness

-----------------------------------------------------------------------------
AlertTypeOK ==
    /\ batch \in [{"warning", "info"} -> AlertKind \cup {NoAlert}]
    /\ sending \in [SendCall -> AlertKind \cup {NoAlert}]
    /\ failures \in 0 .. AlertRetries /\ breaking \in BOOLEAN
    /\ buffer \in Seq(AlertKind) /\ bufferMax \in BufferSizes
    /\ drain \in [at : {"idle", "scheduled", "sending", "pause"},
                  alert : AlertKind \cup {NoAlert}]
    /\ telegramUp \in BOOLEAN
    /\ watch \in {"no", "raised"}

(* The buffer never holds more than one alert beyond the largest size it    *)
(* was given, the one that a drain took out and puts back after others came *)
(* counted: failed drains do not pile up.                                   *)
BufferBounded ==
    Len(buffer) + (IF drain.at = "sending" THEN 1 ELSE 0)
        <= (CHOOSE n \in BufferSizes : \A k \in BufferSizes : k <= n) + 1

(* Only a successful call starts a drain, so what rests in the buffer when  *)
(* no call is under way and no drain goes on waits for a further alert,     *)
(* however long the API has been back.                                      *)
Stranded ==
    /\ \E i \in DOMAIN buffer : buffer[i].watched
    /\ ~Draining /\ \A c \in SendCall : sending[c] = NoAlert

FurtherAlert ==
    \/ \E isWatched \in BOOLEAN : CriticalEvent(isWatched)
    \/ \E s \in DOMAIN batch : FlushBatch(s)

(* Once the API answers for good, an alert that was raised is delivered,    *)
(* given up to a full buffer or lost with the process, or else left in the  *)
(* buffer; and it does not stay there while further alerts are sent: no     *)
(* failed drain, open circuit or batch keeps it for ever.                   *)
RaisedAlertLeaves ==
    /\ <>[]telegramUp => (watch = "raised" ~> (watch # "raised" \/ Stranded))
    /\ <>[]telegramUp /\ []<><<FurtherAlert>>_alertVars => (watch = "raised" ~> watch # "raised")

(* Alerts neither pile up nor, while further ones are sent, stay for ever.  *)
AlertsLeave == [](AlertTypeOK /\ BufferBounded) /\ RaisedAlertLeaves
=============================================================================

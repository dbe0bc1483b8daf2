------------------------------ MODULE Services ------------------------------
(* The services around trading in one specification: they share nothing, so *)
(* the state says which of them moves, and the others rest in their initial *)
(* states.                                                                  *)
EXTENDS AuditTrail, RateLimiter, BacktestRuns, BacktestSimulation, BacktestReports,
        ContractMatching, MatchResolution, ClusterAssignment, CandidateScoring,
        HistoricalIngestion, IncrementalRefresh, MatchValidation, HistoricalData

VARIABLE service

matchingVars == <<matchVars, resolutionVars, clusterVars, judged>>
historyVars == <<ingestionVars, refreshVars, validationVars, measured>>
vars == <<service, auditVars, limiterVars, runVars, simVars, answer, matchingVars,
          historyVars>>

Init ==
    /\ service \in {"audit", "limiter", "runs", "simulation", "reports",
                   "matching", "resolution", "clusters", "scoring",
                   "ingestion", "refresh", "validation", "history data"}
    /\ AuditInit /\ LimiterInit /\ RunsInit /\ SimInit /\ ReportsInit
    /\ MatchInit /\ ResolutionInit /\ ClusterInit /\ ScoringInit
    /\ IngestionInit /\ RefreshInit /\ ValidationInit /\ HistoryDataInit
    /\ service # "matching" => configured = {}

Next ==
    /\ UNCHANGED service
    /\ \/ /\ service = "audit" /\ AuditNext
          /\ UNCHANGED <<limiterVars, runVars, simVars, answer, matchingVars, historyVars>>
       \/ /\ service = "limiter" /\ LimiterNext
          /\ UNCHANGED <<auditVars, runVars, simVars, answer, matchingVars, historyVars>>
       \/ /\ service = "runs" /\ RunsNext
          /\ UNCHANGED <<auditVars, limiterVars, simVars, answer, matchingVars, historyVars>>
       \/ /\ service = "simulation" /\ SimNext
          /\ UNCHANGED <<auditVars, limiterVars, runVars, answer, matchingVars, historyVars>>
       \/ /\ service = "reports" /\ ReportsNext
          /\ UNCHANGED <<auditVars, limiterVars, runVars, simVars, matchingVars, historyVars>>
       \/ /\ service \in {"matching", "resolution", "clusters", "scoring"}
          /\ UNCHANGED <<auditVars, limiterVars, runVars, simVars, answer, historyVars>>
          /\ \/ service = "matching" /\ MatchNext /\ UNCHANGED <<resolutionVars, clusterVars, judged>>
             \/ service = "resolution" /\ ResolutionNext /\ UNCHANGED <<matchVars, clusterVars, judged>>
             \/ service = "clusters" /\ ClusterNext /\ UNCHANGED <<matchVars, resolutionVars, judged>>
             \/ service = "scoring" /\ ScoringNext
                /\ UNCHANGED <<matchVars, resolutionVars, clusterVars>>
       \/ /\ service \in {"ingestion", "refresh", "validation", "history data"}
          /\ UNCHANGED <<auditVars, limiterVars, runVars, simVars, answer, matchingVars>>
          /\ \/ /\ service = "ingestion" /\ IngestionNext
                /\ UNCHANGED <<refreshVars, validationVars, measured>>
             \/ /\ service = "refresh" /\ RefreshNext
                /\ UNCHANGED <<ingestionVars, validationVars, measured>>
             \/ /\ service = "validation" /\ ValidationNext
                /\ UNCHANGED <<ingestionVars, refreshVars, measured>>
             \/ /\ service = "history data" /\ HistoryDataNext
                /\ UNCHANGED <<ingestionVars, refreshVars, validationVars>>

Spec == Init /\ [][Next]_vars

(* The rows of the contract matches, whoever writes them, and the           *)
(* judgements that lead to them.                                            *)
MatchingSound == ContractsSound /\ ResolutionsSound /\ ClustersSound /\ ScoringSound

(* What the backtests are fed with: a pair said to be ingested has the rows *)
(* of its range, the refresh leaves no hole before the row the next one     *)
(* starts from, every pair of a source is in the report of a validation,    *)
(* and the rows are judged, compared and sampled right.                     *)
HistorySound == IngestionSound /\ RefreshSound /\ ValidationsSound /\ HistoryDataSound
=============================================================================

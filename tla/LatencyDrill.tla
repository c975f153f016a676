---------------------------- MODULE LatencyDrill ----------------------------
(***************************************************************************)
(* The PH11 latency drills (scripts/ph11_latency_drill_runner.py): each    *)
(* generates the evidence of a scenario and hands it to the PH10 analyzer. *)
(* A drill against a real stack does not collect exactly the sample: a     *)
(* collector may be down, and a second dependency may be slow at the same  *)
(* time.  Every step is one analyzed evidence file that differs from the   *)
(* one before it in one signal.                                            *)
(***************************************************************************)
EXTENDS LatencyAttribution, Functions

CONSTANTS
  MaxChanges,   \* bound on the differences from the sample
  Disturbances  \* pairs <<signal, value>>: what else the stack may show

(* the signals of the observed part that a rule looks at *)
Signals ==
  {"k6_p95_ms", "k6_p99_ms", "nginx_request_p95_ms", "nginx_upstream_p95_ms",
   "fastapi_handler_p95_ms", "postgres_phase_p95_ms", "redis_phase_p95_ms",
   "outbound_http_p95_ms", "blackbox_probe_p95_ms", "error_rate",
   "db_pool_wait_p95_ms", "db_lock_wait_p95_ms", "redis_unavailable"}

ASSUME LatencyAssumptions ==
  /\ MaxChanges \in Nat /\ Disturbances \subseteq Signals \X Int
  /\ None \notin Int /\ NotCollected \notin [COUNTERS -> Int]
  /\ \A S \in SUBSET Signals : NotCollected \notin [S -> Int]

VARIABLES evidence, report, scenario, changes

vars == <<evidence, report, scenario, changes>>

-----------------------------------------------------------------------------
baseline == [k6_p95_ms |-> 180, k6_p99_ms |-> 420, server_handler_p95_ms |-> 120]

Timing(p95, p99, request, upstream, handler, postgres, redis, error_rate) ==
  [k6_p95_ms |-> p95, k6_p99_ms |-> p99, nginx_request_p95_ms |-> request,
   nginx_upstream_p95_ms |-> upstream, fastapi_handler_p95_ms |-> handler,
   postgres_phase_p95_ms |-> postgres, redis_phase_p95_ms |-> redis,
   outbound_http_p95_ms |-> 0, blackbox_probe_p95_ms |-> 0,
   error_rate |-> error_rate]

With(mapping, field, value) ==
  [f \in DOMAIN mapping \cup {field} |-> IF f = field THEN value ELSE mapping[f]]

ObservedByScenario ==
  [baseline |-> Timing(190, 430, 180, 160, 130, 70, 20, 0),
   db_pool_pressure |->
     With(Timing(700, 1500, 680, 640, 600, 210, 20, 1), "db_pool_wait_p95_ms", 260),
   db_lock_contention |->
     With(Timing(760, 1800, 730, 700, 650, 260, 20, 1), "db_lock_wait_p95_ms", 300),
   redis_degraded |-> Timing(650, 1400, 630, 600, 560, 120, 260, 1),
   redis_unavailable |->
     With(Timing(540, 1100, 520, 500, 460, 170, 0, 2), "redis_unavailable", 1),
   external_endpoint_slow |->
     With(With(Timing(900, 1900, 860, 830, 800, 100, 30, 2), "outbound_http_p95_ms", 520),
          "blackbox_probe_p95_ms", 900),
   app_http_client_path_issue |->
     With(With(Timing(780, 1600, 730, 700, 680, 90, 30, 1), "outbound_http_p95_ms", 500),
          "blackbox_probe_p95_ms", 180),
   nginx_edge_latency |-> Timing(900, 1600, 850, 180, 140, 70, 20, 0)]

(* The sample of the PH10 demo.                                            *)
SampleEvidence ==
  [baseline |-> baseline,
   observed |-> Timing(620, 1800, 600, 570, 540, 390, 30, 1),
   consistency |-> [c \in COUNTERS |-> 0],
   route_group |-> TRUE,
   partner_alias |-> FALSE]

SCENARIOS == DOMAIN ObservedByScenario \cup {"insufficient_evidence"}

GeneratePh10Input(s) ==
  LET complete == s # "insufficient_evidence" IN
  [baseline |-> baseline,
   observed |-> IF complete THEN ObservedByScenario[s] ELSE NotCollected,
   consistency |-> IF complete THEN [c \in COUNTERS |-> 0] ELSE NotCollected,
   route_group |-> complete,
   partner_alias |-> FALSE]

(* The catalog: the scenario of each drill with the classification it      *)
(* expects, LAT-001 to LAT-006.                                            *)
DrillCatalog ==
  {<<"baseline", "baseline_normal_latency">>,
   <<"db_pool_pressure", "internal_postgres_pool_pressure">>,
   <<"db_lock_contention", "internal_postgres_lock_contention">>,
   <<"redis_degraded", "redis_degraded_latency">>,
   <<"external_endpoint_slow", "external_endpoint_slow">>,
   <<"nginx_edge_latency", "edge_or_client_network_latency">>}

ValidateDrill(drill, actual) ==
  /\ drill[2] \in CLASSIFICATIONS
  /\ actual = drill[2]
  /\ actual = AnalyzeEvidence(GeneratePh10Input(drill[1])).classification

-----------------------------------------------------------------------------
Init ==
  /\ \/ scenario \in SCENARIOS /\ evidence = GeneratePh10Input(scenario)
     \/ scenario = "db_phase_dominant" /\ evidence = SampleEvidence
  /\ report = AnalyzeEvidence(evidence)
  /\ changes = 0

Analyze(e) ==
  /\ changes < MaxChanges
  /\ changes' = changes + 1
  /\ evidence' = e
  /\ report' = AnalyzeEvidence(e)
  /\ UNCHANGED scenario

Without(mapping, field) == Restrict(mapping, DOMAIN mapping \ {field})

(* A collector does not answer: its signal is not in the evidence.         *)
LoseSignal ==
  /\ evidence.observed # NotCollected
  /\ \E f \in DOMAIN evidence.observed :
       Analyze([evidence EXCEPT !.observed = Without(@, f)])

LoseCounter ==
  /\ evidence.consistency # NotCollected
  /\ \E c \in DOMAIN evidence.consistency :
       Analyze([evidence EXCEPT !.consistency = Without(@, c)])

LosePart ==
  \/ evidence.observed # NotCollected /\ Analyze([evidence EXCEPT !.observed = NotCollected])
  \/ evidence.consistency # NotCollected /\ Analyze([evidence EXCEPT !.consistency = NotCollected])

(* A signal shows another value than in the sample.                        *)
Disturb ==
  /\ evidence.observed # NotCollected
  /\ \E d \in Disturbances :
       /\ Num(evidence.observed, d[1]) # d[2]
       /\ Analyze([evidence EXCEPT !.observed = With(@, d[1], d[2])])

Violate ==
  /\ evidence.consistency # NotCollected
  /\ \E c \in DOMAIN evidence.consistency :
       /\ evidence.consistency[c] = 0
       /\ Analyze([evidence EXCEPT !.consistency[c] = 1])

Attribute ==
  ~evidence.partner_alias /\ Analyze([evidence EXCEPT !.partner_alias = TRUE])

Next == LoseSignal \/ LoseCounter \/ LosePart \/ Disturb \/ Violate \/ Attribute

Spec == Init /\ [][Next]_vars

-----------------------------------------------------------------------------
(* The evidence passes the gates before the dependency rules.              *)
Measured ==
  /\ evidence.observed # NotCollected /\ evidence.consistency # NotCollected
  /\ K6Fields \cup {"fastapi_handler_p95_ms"} \subseteq DOMAIN evidence.observed

(* The thresholds of docs/41: a phase is dominant from this share on.      *)
DominantShare ==
  [postgres_phase_p95_ms |-> 60, redis_phase_p95_ms |-> 40, outbound_http_p95_ms |-> 70]

Dominant(phase) ==
  /\ phase \in DOMAIN evidence.observed
  /\ evidence.observed[phase] * 100 >=
       DominantShare[phase] * evidence.observed["fastapi_handler_p95_ms"]

(* The timings a classification rests on: those of the gates; for a        *)
(* PostgreSQL one the phase timing that docs/52, section 6, requires; for  *)
(* normal latency the server timings the report speaks of.                 *)
Support(classification) ==
  K6Fields \cup {"fastapi_handler_p95_ms", "error_rate"} \cup
  CASE classification = "edge_or_client_network_latency" ->
         {"nginx_request_p95_ms", "nginx_upstream_p95_ms"}
    [] classification \in {"external_endpoint_slow", "app_http_client_path_issue"} ->
         {"outbound_http_p95_ms", "blackbox_probe_p95_ms"}
    [] classification = "internal_postgres_pool_pressure" ->
         {"db_pool_wait_p95_ms", "postgres_phase_p95_ms"}
    [] classification = "internal_postgres_lock_contention" ->
         {"db_lock_wait_p95_ms", "postgres_phase_p95_ms"}
    [] classification = "internal_postgres_latency" -> {"postgres_phase_p95_ms"}
    [] classification = "redis_unavailable_fallback" -> {"redis_unavailable"}
    [] classification = "redis_degraded_latency" -> {"redis_phase_p95_ms"}
    [] classification = "external_dependency_latency" -> {"outbound_http_p95_ms"}
    [] classification = "baseline_normal_latency" ->
         {"nginx_request_p95_ms", "nginx_upstream_p95_ms", "postgres_phase_p95_ms",
          "redis_phase_p95_ms"}
    [] OTHER -> {}

-----------------------------------------------------------------------------
(* Every drill of the catalog gets the classification it expects from the  *)
(* analyzer, and both validators accept the result: _validate_drill,       *)
(* _validate_actual_matches_ph10_analyzer and PH10's validate_report.      *)
DrillMatchesCatalog ==
  changes = 0 =>
    /\ ValidateReportPayload(report)
    /\ \A d \in DrillCatalog :
         d[1] = scenario => ValidateDrill(d, report.classification)

(* A dominant phase is never overlooked: when the handler is slow and the  *)
(* traffic is not normal, a phase at or over its threshold makes           *)
(* analyze_evidence name a dependency (or the edge), whatever else was     *)
(* lost or is slow at the same time; it does not fall through to a scope   *)
(* candidate, to the application or to insufficient evidence.              *)
DominantPhaseIsNamed ==
  ( /\ Measured
    /\ HandlerHigh(evidence)
    /\ report.classification \notin {"baseline_normal_latency", "TypeError"}
    /\ \E phase \in DOMAIN DominantShare : Dominant(phase) )
  => report.classification \notin
       {"insufficient_evidence", "internal_application_latency",
        "partner_specific_latency", "route_specific_latency_candidate"}

(* The evidence of the step is that of the state before with less in it.   *)
LosesEvidence == LoseSignal \/ LoseCounter \/ LosePart

(* Evidence that goes missing never makes a run look normal: a counter or  *)
(* a timing that was not collected is not read as zero.                    *)
LossIsNotNormal ==
  [][(LosesEvidence /\ report.classification # "baseline_normal_latency") =>
       report'.classification # "baseline_normal_latency"]_vars

(* A verdict does not depend on what it does not rest on: losing a signal  *)
(* that supports neither the verdict nor the gates leaves the verdict, so  *)
(* no rule of the cascade fires because a signal is absent.                *)
VerdictSurvivesLoss ==
  [][\A f \in {"nginx_request_p95_ms", "nginx_upstream_p95_ms", "postgres_phase_p95_ms",
                "db_pool_wait_p95_ms", "db_lock_wait_p95_ms", "redis_phase_p95_ms",
                "redis_unavailable", "outbound_http_p95_ms", "blackbox_probe_p95_ms"} :
       ( /\ evidence.observed # NotCollected
         /\ evidence' = [evidence EXCEPT !.observed = Without(@, f)]
         /\ f \notin Support(report.classification) )
       => report'.classification = report.classification]_vars

=============================================================================

------------------------- MODULE LatencyAttribution -------------------------
(***************************************************************************)
(* The PH10 latency attribution rules (scripts/ph10_latency_attribution.py)*)
(* as operators on one evidence file.                                      *)
(*                                                                         *)
(* An evidence file is a record; its "observed" and "consistency" parts    *)
(* are functions from the collected fields, so a signal that was not       *)
(* collected is a name outside the domain.  Timings are whole              *)
(* milliseconds and the error rate is in hundredths, so that every         *)
(* comparison with a fraction of the handler time is exact.                *)
(***************************************************************************)
EXTENDS Integers, FiniteSets

CONSTANTS None,        \* a number the evidence does not hold
          NotCollected \* a part of the evidence file that is missing

CLASSIFICATIONS ==
  {"baseline_normal_latency", "internal_application_latency",
   "internal_postgres_latency", "internal_postgres_pool_pressure",
   "internal_postgres_lock_contention", "redis_degraded_latency",
   "redis_unavailable_fallback", "external_dependency_latency",
   "external_endpoint_slow", "app_http_client_path_issue",
   "edge_or_client_network_latency", "partner_specific_latency",
   "route_specific_latency_candidate", "insufficient_evidence"}

COUNTERS == {"duplicate_ledger_count", "duplicate_external_event_count",
             "reconciliation_failure_count", "invalid_state_transition_count"}

Num(mapping, key) == IF key \in DOMAIN mapping THEN mapping[key] ELSE None

Larger(a, b) == IF a > b THEN a ELSE b

-----------------------------------------------------------------------------
(* mutant: counters that were not collected are read as zero.              *)
ConsistencyDefaultsToZero(consistency) ==
  IF consistency = NotCollected THEN "UNKNOWN"
  ELSE IF \E c \in COUNTERS \cap DOMAIN consistency : consistency[c] > 0
         THEN "VIOLATION_DETECTED"
         ELSE "CLEAN"

ConsistencyStatusFrom(consistency) ==
  IF consistency = NotCollected THEN "UNKNOWN"
  ELSE IF \E c \in COUNTERS \cap DOMAIN consistency : consistency[c] > 0
         THEN "VIOLATION_DETECTED"
  ELSE IF \A c \in COUNTERS : c \in DOMAIN consistency /\ consistency[c] = 0
         THEN "CLEAN"
  ELSE "UNKNOWN"

-----------------------------------------------------------------------------
(* Python truthiness of an optional number.                                *)
Truthy(n) == n # None /\ n # 0

(* mutant: the bound itself is not a dominant share.                       *)
ShareAbove(phase, handler, percent) ==
  Truthy(phase) /\ 100 * phase > percent * handler

(* The phase takes at least percent of the handler time.                   *)
Share(phase, handler, percent) ==
  Truthy(phase) /\ 100 * phase >= percent * handler

NormalK6(e) ==
  LET o == e.observed
      b == e.baseline
  IN  /\ o["k6_p95_ms"] < 2 * b["k6_p95_ms"]
      /\ o["k6_p99_ms"] < 2 * b["k6_p99_ms"]
      /\ o["k6_p95_ms"] <= 300

HandlerHigh(e) ==
  LET handler == e.observed["fastapi_handler_p95_ms"]
  IN  handler > 2 * e.baseline["server_handler_p95_ms"] \/ handler > 300

(* mutant: an upstream time that was not collected passes for a normal one.*)
EdgeWithoutUpstream(e) ==
  LET o == e.observed
      request == Num(o, "nginx_request_p95_ms")
      upstream == Num(o, "nginx_upstream_p95_ms")
      near == Larger(2 * e.baseline["server_handler_p95_ms"], 250)
  IN  /\ request # None /\ request > Larger(2 * e.baseline["k6_p95_ms"], 500)
      /\ upstream = None \/ upstream <= near
      /\ o["fastapi_handler_p95_ms"] <= near

EdgeIsSlow(e) ==
  LET o == e.observed
      request == Num(o, "nginx_request_p95_ms")
      upstream == Num(o, "nginx_upstream_p95_ms")
      near == Larger(2 * e.baseline["server_handler_p95_ms"], 250)
  IN  /\ request # None /\ request > Larger(2 * e.baseline["k6_p95_ms"], 500)
      /\ upstream # None /\ upstream <= near
      /\ o["fastapi_handler_p95_ms"] <= near

(* mutant: any PostgreSQL time at all clears Redis.                        *)
RedisDominatesAlone(o, handler) ==
  /\ Share(Num(o, "redis_phase_p95_ms"), handler, 40)
  /\ ~Truthy(Num(o, "postgres_phase_p95_ms"))

RedisDominates(o, handler) ==
  /\ Share(Num(o, "redis_phase_p95_ms"), handler, 40)
  /\ ~Share(Num(o, "postgres_phase_p95_ms"), handler, 60)

(* The rules after the evidence gates, in the order of the code: the first *)
(* whose condition holds classifies the evidence.                          *)
DependencyRule(e) ==
  LET o == e.observed
      handler == o["fastapi_handler_p95_ms"]
      base_p95 == e.baseline["k6_p95_ms"]
      postgres == Num(o, "postgres_phase_p95_ms")
      outbound == Num(o, "outbound_http_p95_ms")
      blackbox == Num(o, "blackbox_probe_p95_ms")
      slow == o["k6_p95_ms"] > 2 * base_p95
      high == HandlerHigh(e)
  IN
  IF EdgeIsSlow(e) THEN "edge_or_client_network_latency"
  ELSE IF /\ Truthy(blackbox) /\ blackbox > Larger(2 * base_p95, 500)
          /\ Share(outbound, handler, 50)
  THEN "external_endpoint_slow"
  ELSE IF /\ Share(outbound, handler, 70)
          /\ Truthy(blackbox) /\ blackbox <= Larger(base_p95, 250)
  THEN "app_http_client_path_issue"
  ELSE IF high /\ Share(Num(o, "db_pool_wait_p95_ms"), handler, 35)
  THEN "internal_postgres_pool_pressure"
  ELSE IF high /\ Share(Num(o, "db_lock_wait_p95_ms"), handler, 35)
  THEN "internal_postgres_lock_contention"
  ELSE IF high /\ Share(postgres, handler, 60) THEN "internal_postgres_latency"
  ELSE IF "redis_unavailable" \in DOMAIN o THEN "redis_unavailable_fallback"
  ELSE IF high /\ RedisDominates(o, handler) THEN "redis_degraded_latency"
  ELSE IF high /\ Share(outbound, handler, 70) THEN "external_dependency_latency"
  ELSE IF e.partner_alias /\ slow THEN "partner_specific_latency"
  ELSE IF e.route_group /\ slow /\ ~high THEN "route_specific_latency_candidate"
  ELSE IF high THEN "internal_application_latency"
  ELSE "insufficient_evidence"

-----------------------------------------------------------------------------
K6Fields == {"k6_p95_ms", "k6_p99_ms"}

Report(e, classification) ==
  [classification |-> classification,
   consistency |-> e.consistency,
   consistency_status |-> ConsistencyStatusFrom(e.consistency)]

(* What the comparison of a missing error rate with a number raises; the   *)
(* command line does not catch it, so no report is written.                *)
TypeError == [classification |-> "TypeError"]

AnalyzeEvidence(e) ==
  IF e.observed = NotCollected \/ e.consistency = NotCollected
    THEN Report(e, "insufficient_evidence")
  ELSE IF ~(K6Fields \subseteq DOMAIN e.observed)
    THEN Report(e, "insufficient_evidence")
  ELSE IF NormalK6(e) /\ "error_rate" \notin DOMAIN e.observed THEN TypeError
  ELSE IF /\ NormalK6(e) /\ e.observed["error_rate"] <= 1
          /\ ConsistencyStatusFrom(e.consistency) = "CLEAN"
    THEN Report(e, "baseline_normal_latency")
  ELSE IF "fastapi_handler_p95_ms" \notin DOMAIN e.observed
    THEN Report(e, "insufficient_evidence")
  ELSE Report(e, DependencyRule(e))

ValidateReportPayload(r) ==
  /\ r.classification \in CLASSIFICATIONS
  /\ r.consistency_status \in {"CLEAN", "VIOLATION_DETECTED", "UNKNOWN"}
  /\ ~ /\ ConsistencyStatusFrom(r.consistency) = "VIOLATION_DETECTED"
       /\ r.consistency_status = "CLEAN"
=============================================================================

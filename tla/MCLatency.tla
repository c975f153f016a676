------------------------------ MODULE MCLatency ------------------------------
(***************************************************************************)
(* The latency drills for TLC.  The disturbances put every phase exactly   *)
(* at its threshold for a handler time of 600 ms, and every gate on either *)
(* side of its bound.                                                      *)
(***************************************************************************)
EXTENDS LatencyDrill

MCDisturbances ==
  {<<"k6_p95_ms", 190>>, <<"k6_p95_ms", 361>>, <<"error_rate", 5>>,
   <<"fastapi_handler_p95_ms", 245>>, <<"fastapi_handler_p95_ms", 600>>,
   <<"nginx_request_p95_ms", 600>>, <<"nginx_upstream_p95_ms", 600>>,
   <<"postgres_phase_p95_ms", 360>>, <<"redis_phase_p95_ms", 240>>,
   <<"outbound_http_p95_ms", 420>>, <<"blackbox_probe_p95_ms", 600>>,
   <<"blackbox_probe_p95_ms", 200>>, <<"db_pool_wait_p95_ms", 210>>}
=============================================================================

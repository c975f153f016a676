------------------------- MODULE LatencyDrillProofs -------------------------
(***************************************************************************)
(* What the PH10 rules make of evidence that is incomplete or shows two    *)
(* slow dependencies, for every evidence that losses and disturbances of   *)
(* any value lead to.                                                      *)
(*                                                                         *)
(* The rules are a cascade.  A signal that is lost can only switch guards  *)
(* off, except for the guard of the Redis rule, which asks that PostgreSQL *)
(* is not dominant; the PostgreSQL rule comes before it.                   *)
(***************************************************************************)
EXTENDS LatencyDrill, TLAPS

-----------------------------------------------------------------------------
(* The inductive invariant *)

EvidenceParts == {"baseline", "observed", "consistency", "route_group", "partner_alias"}

ObservedOK(o) ==
  o \in [DOMAIN o -> Int] /\ DOMAIN o \subseteq Signals

EvidenceOK(e) ==
  /\ DOMAIN e = EvidenceParts
  /\ e.baseline = baseline
  /\ e.observed # NotCollected => ObservedOK(e.observed)
  /\ e.partner_alias \in BOOLEAN /\ e.route_group \in BOOLEAN

Sampled ==
  \/ scenario \in SCENARIOS /\ evidence = GeneratePh10Input(scenario)
  \/ scenario = "db_phase_dominant" /\ evidence = SampleEvidence

LatencyInv ==
  /\ EvidenceOK(evidence)
  /\ report = AnalyzeEvidence(evidence)
  /\ changes \in Nat
  /\ changes = 0 => Sampled

-----------------------------------------------------------------------------
(* What the scripts write is evidence *)

(* One more signal with a value *)
LEMMA WithIsObserved ==
  ASSUME NEW o, ObservedOK(o), NEW f \in Signals, NEW v \in Int
  PROVE  /\ ObservedOK(With(o, f, v))
         /\ DOMAIN With(o, f, v) = DOMAIN o \cup {f} /\ With(o, f, v)[f] = v
         /\ \A g \in DOMAIN o : g # f => With(o, f, v)[g] = o[g]
BY Zenon DEF ObservedOK, With

(* One signal less *)
LEMMA WithoutIsObserved ==
  ASSUME NEW o, ObservedOK(o), NEW f
  PROVE  /\ ObservedOK(Without(o, f))
         /\ DOMAIN Without(o, f) = DOMAIN o \ {f}
         /\ \A g \in DOMAIN o : g # f => Without(o, f)[g] = o[g]
BY Zenon DEF ObservedOK, Without, Restrict

(* A mapping from signals is no missing part *)
LEMMA ObservedIsCollected ==
  ASSUME NEW o, ObservedOK(o) PROVE o # NotCollected
BY Zenon, LatencyAssumptions DEF ObservedOK

(* Another observed part *)
LEMMA ObservedReplaced ==
  ASSUME NEW e, EvidenceOK(e), NEW o, NEW n, n = [e EXCEPT !.observed = o]
  PROVE  /\ n.observed = o /\ n.consistency = e.consistency /\ n.baseline = e.baseline
         /\ n.partner_alias = e.partner_alias /\ n.route_group = e.route_group
         /\ (o = NotCollected \/ ObservedOK(o)) => EvidenceOK(n)
BY Zenon DEF EvidenceOK, EvidenceParts

(* Other counters *)
LEMMA ConsistencyReplaced ==
  ASSUME NEW e, EvidenceOK(e), NEW c, NEW n, n = [e EXCEPT !.consistency = c]
  PROVE  /\ n.observed = e.observed /\ n.consistency = c /\ n.baseline = e.baseline
         /\ EvidenceOK(n)
BY Zenon DEF EvidenceOK, EvidenceParts

(* The observed part of every scenario *)
LEMMA ScenariosAreObserved ==
  ASSUME NEW s \in DOMAIN ObservedByScenario PROVE ObservedOK(ObservedByScenario[s])
<1>1. DOMAIN ObservedByScenario =
        {"baseline", "db_pool_pressure", "db_lock_contention", "redis_degraded",
         "redis_unavailable", "external_endpoint_slow", "app_http_client_path_issue",
         "nginx_edge_latency"}
  BY Zenon DEF ObservedByScenario
<1>2. ObservedOK(ObservedByScenario["baseline"])
  BY DEF ObservedByScenario, Timing, With, ObservedOK, Signals
<1>3. ObservedOK(ObservedByScenario["db_pool_pressure"])
  BY DEF ObservedByScenario, Timing, With, ObservedOK, Signals
<1>4. ObservedOK(ObservedByScenario["db_lock_contention"])
  BY DEF ObservedByScenario, Timing, With, ObservedOK, Signals
<1>5. ObservedOK(ObservedByScenario["redis_degraded"])
  BY DEF ObservedByScenario, Timing, With, ObservedOK, Signals
<1>6. ObservedOK(ObservedByScenario["redis_unavailable"])
  BY DEF ObservedByScenario, Timing, With, ObservedOK, Signals
<1>7. ObservedOK(ObservedByScenario["external_endpoint_slow"])
  BY DEF ObservedByScenario, Timing, With, ObservedOK, Signals
<1>8. ObservedOK(ObservedByScenario["app_http_client_path_issue"])
  BY DEF ObservedByScenario, Timing, With, ObservedOK, Signals
<1>9. ObservedOK(ObservedByScenario["nginx_edge_latency"])
  BY DEF ObservedByScenario, Timing, With, ObservedOK, Signals
<1> QED
  BY Zenon, <1>1, <1>2, <1>3, <1>4, <1>5, <1>6, <1>7, <1>8, <1>9

(* The drills start with evidence *)
LEMMA LatencyInit ==
  ASSUME Init PROVE LatencyInv
<1>1. Sampled /\ report = AnalyzeEvidence(evidence) /\ changes = 0
  BY Zenon DEF Init, Sampled
<1>2. EvidenceOK(evidence)
  <2>1. CASE scenario \in SCENARIOS /\ evidence = GeneratePh10Input(scenario)
    <3>1. /\ DOMAIN evidence = EvidenceParts /\ evidence.baseline = baseline
          /\ evidence.partner_alias \in BOOLEAN /\ evidence.route_group \in BOOLEAN
          /\ evidence.observed = IF scenario # "insufficient_evidence"
                                 THEN ObservedByScenario[scenario] ELSE NotCollected
      BY Zenon, <2>1 DEF GeneratePh10Input, EvidenceParts
    <3>2. scenario # "insufficient_evidence" => ObservedOK(ObservedByScenario[scenario])
      BY Zenon, <2>1, ScenariosAreObserved DEF SCENARIOS
    <3> QED
      BY Zenon, <3>1, <3>2 DEF EvidenceOK
  <2>2. CASE evidence = SampleEvidence
    <3>1. ObservedOK(SampleEvidence.observed)
      BY DEF SampleEvidence, Timing, ObservedOK, Signals
    <3>2. /\ DOMAIN evidence = EvidenceParts /\ evidence.baseline = baseline
          /\ evidence.partner_alias \in BOOLEAN /\ evidence.route_group \in BOOLEAN
      BY Zenon, <2>2 DEF SampleEvidence, EvidenceParts
    <3> QED
      BY Zenon, <2>2, <3>1, <3>2 DEF EvidenceOK
  <2> QED
    BY Zenon, <1>1, <2>1, <2>2 DEF Sampled
<1> QED
  BY Zenon, <1>1, <1>2 DEF LatencyInv

(* Every analysis is of evidence *)
LEMMA AnalyzeInv ==
  ASSUME LatencyInv, NEW e, Analyze(e), EvidenceOK(e) PROVE LatencyInv'
<1>1. /\ changes' \in Nat /\ changes' # 0
  BY DEF LatencyInv, Analyze
<1>2. evidence' = e /\ report' = AnalyzeEvidence(e)
  BY Zenon DEF Analyze
<1>3. EvidenceOK(evidence') /\ report' = AnalyzeEvidence(evidence')
  BY Zenon, <1>2
<1> QED
  BY Zenon, <1>1, <1>3 DEF LatencyInv

(* Every step analyses evidence *)
LEMMA LatencyNext ==
  ASSUME LatencyInv, [Next]_vars PROVE LatencyInv'
<1>1. EvidenceOK(evidence)
  BY Zenon DEF LatencyInv
<1>2. CASE LoseSignal
  <2>1. PICK f \in DOMAIN evidence.observed :
           Analyze([evidence EXCEPT !.observed = Without(evidence.observed, f)])
    BY Zenon, <1>2 DEF LoseSignal
  <2>2. ObservedOK(Without(evidence.observed, f))
    BY Zenon, <1>1, <1>2, WithoutIsObserved DEF LoseSignal, EvidenceOK
  <2>3. EvidenceOK([evidence EXCEPT !.observed = Without(evidence.observed, f)])
    BY Zenon, <1>1, <2>2, ObservedReplaced
  <2> QED
    BY Zenon, <2>1, <2>3, AnalyzeInv
<1>3. CASE LoseCounter
  <2>1. PICK c : Analyze([evidence EXCEPT !.consistency = c])
    BY Zenon, <1>3 DEF LoseCounter
  <2>2. EvidenceOK([evidence EXCEPT !.consistency = c])
    BY Zenon, <1>1, ConsistencyReplaced
  <2> QED
    BY Zenon, <2>1, <2>2, AnalyzeInv
<1>4. CASE LosePart
  <2>1. EvidenceOK([evidence EXCEPT !.observed = NotCollected])
    BY Zenon, <1>1, ObservedReplaced
  <2>2. EvidenceOK([evidence EXCEPT !.consistency = NotCollected])
    BY Zenon, <1>1, ConsistencyReplaced
  <2> QED
    BY Zenon, <1>4, <2>1, <2>2, AnalyzeInv DEF LosePart
<1>5. CASE Disturb
  <2>1. PICK d \in Disturbances :
           Analyze([evidence EXCEPT !.observed = With(evidence.observed, d[1], d[2])])
    BY Zenon, <1>5 DEF Disturb
  <2>2. d[1] \in Signals /\ d[2] \in Int
    <3>1. d \in Signals \X Int
      BY Zenon, LatencyAssumptions
    <3> QED
      BY Zenon, <3>1
  <2>3. ObservedOK(With(evidence.observed, d[1], d[2]))
    BY Zenon, <1>1, <1>5, <2>2, WithIsObserved DEF Disturb, EvidenceOK
  <2>4. EvidenceOK([evidence EXCEPT !.observed = With(evidence.observed, d[1], d[2])])
    BY Zenon, <1>1, <2>3, ObservedReplaced
  <2> QED
    BY Zenon, <2>1, <2>4, AnalyzeInv
<1>6. CASE Violate
  <2>1. PICK c : Analyze([evidence EXCEPT !.consistency = c])
    BY Zenon, <1>6 DEF Violate
  <2>2. EvidenceOK([evidence EXCEPT !.consistency = c])
    BY Zenon, <1>1, ConsistencyReplaced
  <2> QED
    BY Zenon, <2>1, <2>2, AnalyzeInv
<1>7. CASE Attribute
  <2>1. EvidenceOK([evidence EXCEPT !.partner_alias = TRUE])
    BY Zenon, <1>1 DEF EvidenceOK, EvidenceParts
  <2> QED
    BY Zenon, <1>7, <2>1, AnalyzeInv DEF Attribute
<1>8. CASE UNCHANGED vars
  BY Zenon, <1>8 DEF vars, LatencyInv, Sampled
<1> QED
  BY Zenon, <1>2, <1>3, <1>4, <1>5, <1>6, <1>7, <1>8 DEF Next

(* The report is that of the evidence, and the evidence of a drill is the  *)
(* scenario's until something is lost or disturbed.                        *)
THEOREM LatencyInvariant == Spec => []LatencyInv
<1>1. Init => LatencyInv
  BY Zenon, LatencyInit
<1>2. LatencyInv /\ [Next]_vars => LatencyInv'
  BY Zenon, LatencyNext
<1> QED
  BY <1>1, <1>2, PTL DEF Spec

-----------------------------------------------------------------------------
(* A dominant phase *)

(* The share of a phase that is dominant, when the handler is slow *)
LEMMA DominantIsShare ==
  ASSUME NEW o, ObservedOK(o), NEW phase \in DOMAIN o, NEW percent \in Int, percent > 0,
         NEW handler \in Int, handler > 0, o[phase] * 100 >= percent * handler
  PROVE  Share(Num(o, phase), handler, percent)
<1>1. Num(o, phase) = o[phase] /\ o[phase] \in Int
  BY Zenon DEF Num, ObservedOK
<1>2. percent * handler > 0
  OBVIOUS
<1>3. o[phase] # 0
  BY <1>1, <1>2
<1>4. o[phase] # None
  BY Zenon, <1>1, LatencyAssumptions
<1>5. 100 * o[phase] >= percent * handler
  BY <1>1
<1> QED
  BY Zenon, <1>1, <1>3, <1>4, <1>5 DEF Share, Truthy

(* What the dependency rules name when a phase is dominant *)
LEMMA DominantRule ==
  ASSUME NEW e, HandlerHigh(e),
         \/ Share(Num(e.observed, "postgres_phase_p95_ms"), e.observed["fastapi_handler_p95_ms"], 60)
         \/ Share(Num(e.observed, "redis_phase_p95_ms"), e.observed["fastapi_handler_p95_ms"], 40)
         \/ Share(Num(e.observed, "outbound_http_p95_ms"), e.observed["fastapi_handler_p95_ms"], 70)
  PROVE  DependencyRule(e) \notin
           {"insufficient_evidence", "internal_application_latency",
            "partner_specific_latency", "route_specific_latency_candidate"}
BY Zenon DEF DependencyRule, RedisDominates

(* The report of evidence that passes the gates is that of the rules *)
LEMMA MeasuredReport ==
  ASSUME NEW e, e.observed # NotCollected, e.consistency # NotCollected,
         K6Fields \subseteq DOMAIN e.observed, "fastapi_handler_p95_ms" \in DOMAIN e.observed,
         AnalyzeEvidence(e).classification \notin {"baseline_normal_latency", "TypeError"}
  PROVE  AnalyzeEvidence(e).classification = DependencyRule(e)
BY Zenon DEF AnalyzeEvidence, Report, TypeError

(* analyze_evidence: a phase that is at or over its threshold while the     *)
(* handler is slow makes the report name a dependency or the edge.          *)
THEOREM DominantPhaseIsNamedAlways == Spec => []DominantPhaseIsNamed
<1>1. ASSUME LatencyInv PROVE DominantPhaseIsNamed
  <2> SUFFICES ASSUME Measured, HandlerHigh(evidence),
                      report.classification \notin {"baseline_normal_latency", "TypeError"},
                      NEW phase \in DOMAIN DominantShare, Dominant(phase)
               PROVE  report.classification \notin
                        {"insufficient_evidence", "internal_application_latency",
                         "partner_specific_latency", "route_specific_latency_candidate"}
    BY Zenon DEF DominantPhaseIsNamed
  <2> DEFINE o == evidence.observed
             handler == o["fastapi_handler_p95_ms"]
  <2>1. /\ ObservedOK(o) /\ evidence.baseline = baseline
        /\ "fastapi_handler_p95_ms" \in DOMAIN o /\ handler \in Int
    BY Zenon, <1>1 DEF LatencyInv, EvidenceOK, Measured, ObservedOK
  <2>2. handler > 0
    BY <2>1 DEF HandlerHigh, baseline
  <2>3. report.classification = DependencyRule(evidence)
    BY Zenon, <1>1, MeasuredReport DEF LatencyInv, Measured
  <2>4. \/ Share(Num(o, "postgres_phase_p95_ms"), handler, 60)
        \/ Share(Num(o, "redis_phase_p95_ms"), handler, 40)
        \/ Share(Num(o, "outbound_http_p95_ms"), handler, 70)
    <3> HIDE DEF o, handler
    <3>1. ASSUME NEW p \in Int, p > 0, phase \in DOMAIN o, o[phase] * 100 >= p * handler
          PROVE  Share(Num(o, phase), handler, p)
      BY Zenon, <2>1, <2>2, <3>1, DominantIsShare
    <3>2. phase \in DOMAIN o /\ o[phase] * 100 >= DominantShare[phase] * handler
      BY Zenon DEF Dominant, o, handler
    <3>3. CASE phase = "postgres_phase_p95_ms"
      BY <3>1, <3>2, <3>3 DEF DominantShare
    <3>4. CASE phase = "redis_phase_p95_ms"
      BY <3>1, <3>2, <3>4 DEF DominantShare
    <3>5. CASE phase = "outbound_http_p95_ms"
      BY <3>1, <3>2, <3>5 DEF DominantShare
    <3> QED
      BY Zenon, <3>3, <3>4, <3>5 DEF DominantShare
  <2> QED
    BY Zenon, <2>3, <2>4, DominantRule
<1> QED
  BY <1>1, LatencyInvariant, PTL

-----------------------------------------------------------------------------
(* Evidence that is lost *)

(* Evidence of normal traffic *)
Normal(e) ==
  /\ e.observed # NotCollected /\ e.consistency # NotCollected
  /\ K6Fields \cup {"error_rate"} \subseteq DOMAIN e.observed
  /\ NormalK6(e) /\ e.observed["error_rate"] <= 1
  /\ ConsistencyStatusFrom(e.consistency) = "CLEAN"

(* No dependency rule reports normal traffic *)
LEMMA NormalReport ==
  ASSUME NEW e
  PROVE  AnalyzeEvidence(e).classification = "baseline_normal_latency" <=> Normal(e)
<1>1. DependencyRule(e) # "baseline_normal_latency"
  BY Zenon DEF DependencyRule
<1>2. \A c : Report(e, c).classification = c
  BY Zenon DEF Report
<1>3. TypeError.classification # "baseline_normal_latency"
  BY Zenon DEF TypeError
<1>4. "insufficient_evidence" # "baseline_normal_latency"
  OBVIOUS
<1>5. K6Fields \cup {"error_rate"} \subseteq DOMAIN e.observed
        <=> K6Fields \subseteq DOMAIN e.observed /\ "error_rate" \in DOMAIN e.observed
  OBVIOUS
<1> QED
  BY Zenon, <1>1, <1>2, <1>3, <1>4, <1>5 DEF AnalyzeEvidence, Normal

(* A counter that was not collected is not zero *)
LEMMA CounterLoss ==
  ASSUME NEW counters, NEW c \in DOMAIN counters,
         ConsistencyStatusFrom(Without(counters, c)) = "CLEAN", counters # NotCollected
  PROVE  ConsistencyStatusFrom(counters) = "CLEAN"
<1>1. \A d \in COUNTERS : d \in DOMAIN Without(counters, c) /\ Without(counters, c)[d] = 0
  BY Zenon DEF ConsistencyStatusFrom
<1>2. \A d \in COUNTERS : d \in DOMAIN counters /\ counters[d] = 0
  BY Zenon, <1>1 DEF Without, Restrict
<1> QED
  BY Zenon, <1>2 DEF ConsistencyStatusFrom

(* analyze_evidence: a run that did not look normal does not look normal    *)
(* after a signal, a counter or a part of its evidence was lost.            *)
THEOREM LossIsNotNormalAlways == Spec => LossIsNotNormal
<1>1. ASSUME LatencyInv, LatencyInv', LosesEvidence,
             report.classification # "baseline_normal_latency"
      PROVE  report'.classification # "baseline_normal_latency"
  <2> SUFFICES ASSUME report'.classification = "baseline_normal_latency" PROVE FALSE
    OBVIOUS
  <2>1. EvidenceOK(evidence) /\ ~Normal(evidence)
    BY Zenon, <1>1, NormalReport DEF LatencyInv
  <2>2. PICK n : n = evidence' /\ Normal(n)
    BY Zenon, <1>1, NormalReport DEF LatencyInv
  <2>3. CASE LoseSignal
    <3>1. PICK f \in DOMAIN evidence.observed :
             n = [evidence EXCEPT !.observed = Without(evidence.observed, f)]
      BY Zenon, <2>2, <2>3 DEF LoseSignal, Analyze
    <3>2. evidence.observed # NotCollected /\ ObservedOK(evidence.observed)
      BY Zenon, <2>1, <2>3 DEF LoseSignal, EvidenceOK
    <3>3. /\ n.observed = Without(evidence.observed, f)
          /\ n.consistency = evidence.consistency /\ n.baseline = evidence.baseline
      BY <2>1, <3>1, ObservedReplaced
    <3>4. /\ DOMAIN n.observed \subseteq DOMAIN evidence.observed
          /\ \A g \in DOMAIN n.observed : n.observed[g] = evidence.observed[g]
      <4>1. /\ DOMAIN Without(evidence.observed, f) = DOMAIN evidence.observed \ {f}
            /\ \A g \in DOMAIN evidence.observed :
                 g # f => Without(evidence.observed, f)[g] = evidence.observed[g]
        BY Zenon, <3>2, WithoutIsObserved
      <4> QED
        BY Zenon, <3>3, <4>1
    <3>5. Normal(evidence)
      BY <2>2, <3>2, <3>3, <3>4 DEF Normal, NormalK6, K6Fields
    <3> QED
      BY Zenon, <2>1, <3>5
  <2>4. CASE LoseCounter
    <3>1. PICK c \in DOMAIN evidence.consistency :
             n = [evidence EXCEPT !.consistency = Without(evidence.consistency, c)]
      BY Zenon, <2>2, <2>4 DEF LoseCounter, Analyze
    <3>2. evidence.consistency # NotCollected
      BY Zenon, <2>4 DEF LoseCounter
    <3>3. /\ n.observed = evidence.observed /\ n.baseline = evidence.baseline
          /\ n.consistency = Without(evidence.consistency, c)
      BY <2>1, <3>1, ConsistencyReplaced
    <3>4. ConsistencyStatusFrom(evidence.consistency) = "CLEAN"
      BY Zenon, <2>2, <3>2, <3>3, CounterLoss DEF Normal
    <3> QED
      BY Zenon, <2>1, <2>2, <3>2, <3>3, <3>4 DEF Normal, NormalK6
  <2>5. CASE LosePart
    <3>1. \/ n = [evidence EXCEPT !.observed = NotCollected]
          \/ n = [evidence EXCEPT !.consistency = NotCollected]
      BY Zenon, <2>2, <2>5 DEF LosePart, Analyze
    <3>2. n.observed = NotCollected \/ n.consistency = NotCollected
      BY <2>1, <3>1, ObservedReplaced, ConsistencyReplaced
    <3> QED
      BY Zenon, <2>2, <3>2 DEF Normal
  <2> QED
    BY Zenon, <1>1, <2>3, <2>4, <2>5 DEF LosesEvidence
<1> QED
  BY <1>1, LatencyInvariant, PTL DEF LossIsNotNormal

-----------------------------------------------------------------------------
(* The cascade *)

Handler(e) == e.observed["fastapi_handler_p95_ms"]
Timed(e, signal) == Num(e.observed, signal)

(* the guards of the dependency rules *)
EndpointSlow(e) ==
  /\ Truthy(Timed(e, "blackbox_probe_p95_ms"))
  /\ Timed(e, "blackbox_probe_p95_ms") > Larger(2 * e.baseline["k6_p95_ms"], 500)
  /\ Share(Timed(e, "outbound_http_p95_ms"), Handler(e), 50)
ClientPath(e) ==
  /\ Share(Timed(e, "outbound_http_p95_ms"), Handler(e), 70)
  /\ Truthy(Timed(e, "blackbox_probe_p95_ms"))
  /\ Timed(e, "blackbox_probe_p95_ms") <= Larger(e.baseline["k6_p95_ms"], 250)
SlowWith(e, signal, percent) == HandlerHigh(e) /\ Share(Timed(e, signal), Handler(e), percent)
RedisGone(e) == "redis_unavailable" \in DOMAIN e.observed
RedisSlow(e) == HandlerHigh(e) /\ RedisDominates(e.observed, Handler(e))

(* the rules that look at the scope only *)
ScopeRule(e) ==
  LET slow == e.observed["k6_p95_ms"] > 2 * e.baseline["k6_p95_ms"] IN
  IF e.partner_alias /\ slow THEN "partner_specific_latency"
  ELSE IF e.route_group /\ slow /\ ~HandlerHigh(e) THEN "route_specific_latency_candidate"
  ELSE IF HandlerHigh(e) THEN "internal_application_latency"
  ELSE "insufficient_evidence"

Cascade(edge, endpoint, path, pool, lock, postgres, gone, redis, outbound, scope) ==
  IF edge THEN "edge_or_client_network_latency"
  ELSE IF endpoint THEN "external_endpoint_slow"
  ELSE IF path THEN "app_http_client_path_issue"
  ELSE IF pool THEN "internal_postgres_pool_pressure"
  ELSE IF lock THEN "internal_postgres_lock_contention"
  ELSE IF postgres THEN "internal_postgres_latency"
  ELSE IF gone THEN "redis_unavailable_fallback"
  ELSE IF redis THEN "redis_degraded_latency"
  ELSE IF outbound THEN "external_dependency_latency"
  ELSE scope

CascadeOf(e) ==
  Cascade(EdgeIsSlow(e), EndpointSlow(e), ClientPath(e), SlowWith(e, "db_pool_wait_p95_ms", 35),
          SlowWith(e, "db_lock_wait_p95_ms", 35), SlowWith(e, "postgres_phase_p95_ms", 60),
          RedisGone(e), RedisSlow(e), SlowWith(e, "outbound_http_p95_ms", 70), ScopeRule(e))

(* The rules of analyze_evidence as guards and names *)
LEMMA RuleIsCascade ==
  ASSUME NEW e PROVE DependencyRule(e) = CascadeOf(e)
BY DEF DependencyRule, CascadeOf, Cascade, EndpointSlow, ClientPath, SlowWith, RedisGone,
       RedisSlow, ScopeRule, Timed, Handler

(* A number that is missing is no share *)
LEMMA NoneIsNothing ==
  /\ ~Truthy(None) /\ \A h, p : ~Share(None, h, p)
BY Zenon DEF Truthy, Share

(* The signals that may go missing without a gate noticing *)
Optional ==
  {"nginx_request_p95_ms", "nginx_upstream_p95_ms", "postgres_phase_p95_ms",
   "db_pool_wait_p95_ms", "db_lock_wait_p95_ms", "redis_phase_p95_ms",
   "redis_unavailable", "outbound_http_p95_ms", "blackbox_probe_p95_ms"}

(* n is e without the signal f *)
Lost(e, n, f) ==
  /\ EvidenceOK(e) /\ EvidenceOK(n)
  /\ e.observed # NotCollected /\ n.observed # NotCollected
  /\ n.baseline = e.baseline /\ n.consistency = e.consistency
  /\ n.partner_alias = e.partner_alias /\ n.route_group = e.route_group
  /\ DOMAIN n.observed = DOMAIN e.observed \ {f}
  /\ \A g \in DOMAIN e.observed : g # f => n.observed[g] = e.observed[g]

(* What a loss leaves *)
LEMMA LossFacts ==
  ASSUME NEW e, NEW n, NEW f, Lost(e, n, f)
  PROVE  /\ Timed(n, f) = None
         /\ \A g : g # f => Timed(n, g) = Timed(e, g)
         /\ \A g : g # f => (g \in DOMAIN n.observed <=> g \in DOMAIN e.observed)
         /\ \A g \in DOMAIN e.observed : g # f => n.observed[g] = e.observed[g]
BY Zenon DEF Lost, Timed, Num

(* The gates do not notice the loss of an optional signal *)
LEMMA GatesStay ==
  ASSUME NEW e, NEW n, NEW f \in Optional, Lost(e, n, f),
         K6Fields \cup {"fastapi_handler_p95_ms"} \subseteq DOMAIN e.observed
  PROVE  /\ Handler(n) = Handler(e) /\ n.observed["k6_p95_ms"] = e.observed["k6_p95_ms"]
         /\ (HandlerHigh(n) <=> HandlerHigh(e)) /\ ScopeRule(n) = ScopeRule(e)
<1>1. f \notin {"k6_p95_ms", "k6_p99_ms", "fastapi_handler_p95_ms"}
  BY Zenon DEF Optional
<1>2. /\ "k6_p95_ms" \in DOMAIN e.observed /\ "fastapi_handler_p95_ms" \in DOMAIN e.observed
  BY Zenon DEF K6Fields
<1>3. /\ n.observed["fastapi_handler_p95_ms"] = e.observed["fastapi_handler_p95_ms"]
      /\ n.observed["k6_p95_ms"] = e.observed["k6_p95_ms"]
  BY Zenon, <1>1, <1>2 DEF Lost
<1>4. HandlerHigh(n) <=> HandlerHigh(e)
  BY Zenon, <1>3 DEF HandlerHigh, Lost
<1> QED
  BY Zenon, <1>3, <1>4 DEF ScopeRule, Handler, Lost

(* The guards after a loss: a guard that looks at the lost signal is off *)
LEMMA GuardsAfterLoss ==
  ASSUME NEW e, NEW n, NEW f \in Optional, Lost(e, n, f),
         K6Fields \cup {"fastapi_handler_p95_ms"} \subseteq DOMAIN e.observed
  PROVE  /\ IF f \in {"nginx_request_p95_ms", "nginx_upstream_p95_ms"}
            THEN ~EdgeIsSlow(n) ELSE EdgeIsSlow(n) <=> EdgeIsSlow(e)
         /\ IF f \in {"outbound_http_p95_ms", "blackbox_probe_p95_ms"}
            THEN ~EndpointSlow(n) /\ ~ClientPath(n)
            ELSE (EndpointSlow(n) <=> EndpointSlow(e)) /\ (ClientPath(n) <=> ClientPath(e))
         /\ \A g, p : IF g = f THEN ~SlowWith(n, g, p) ELSE SlowWith(n, g, p) <=> SlowWith(e, g, p)
         /\ IF f = "redis_unavailable" THEN ~RedisGone(n) ELSE RedisGone(n) <=> RedisGone(e)
         /\ f = "redis_phase_p95_ms" => ~RedisSlow(n)
         /\ f # "redis_phase_p95_ms" /\ ~SlowWith(e, "postgres_phase_p95_ms", 60) =>
              (RedisSlow(n) <=> RedisSlow(e))
         /\ f \notin {"redis_phase_p95_ms", "postgres_phase_p95_ms"} =>
              (RedisSlow(n) <=> RedisSlow(e))
<1>1. /\ Timed(n, f) = None /\ \A g : g # f => Timed(n, g) = Timed(e, g)
      /\ \A g : g # f => (g \in DOMAIN n.observed <=> g \in DOMAIN e.observed)
  BY LossFacts
<1>2. /\ Handler(n) = Handler(e) /\ (HandlerHigh(n) <=> HandlerHigh(e))
      /\ n.baseline = e.baseline /\ f \notin DOMAIN n.observed
  BY Zenon, GatesStay DEF Lost
<1>3. IF f \in {"nginx_request_p95_ms", "nginx_upstream_p95_ms"}
      THEN ~EdgeIsSlow(n) ELSE EdgeIsSlow(n) <=> EdgeIsSlow(e)
  BY <1>1, <1>2 DEF EdgeIsSlow, Timed, Handler
<1>4. IF f \in {"outbound_http_p95_ms", "blackbox_probe_p95_ms"}
      THEN ~EndpointSlow(n) /\ ~ClientPath(n)
      ELSE (EndpointSlow(n) <=> EndpointSlow(e)) /\ (ClientPath(n) <=> ClientPath(e))
  BY <1>1, <1>2, NoneIsNothing DEF EndpointSlow, ClientPath
<1>5. ASSUME NEW g, NEW p
      PROVE  IF g = f THEN ~SlowWith(n, g, p) ELSE SlowWith(n, g, p) <=> SlowWith(e, g, p)
  BY <1>1, <1>2, NoneIsNothing DEF SlowWith
<1>6. IF f = "redis_unavailable" THEN ~RedisGone(n) ELSE RedisGone(n) <=> RedisGone(e)
  BY Zenon, <1>1, <1>2 DEF RedisGone
<1>7. f = "redis_phase_p95_ms" => ~RedisSlow(n)
  BY Zenon, <1>1, NoneIsNothing DEF RedisSlow, RedisDominates, Timed
<1>8. \A x \in {e, n} :
        RedisSlow(x) <=> /\ HandlerHigh(x)
                         /\ Share(Timed(x, "redis_phase_p95_ms"), Handler(x), 40)
                         /\ ~Share(Timed(x, "postgres_phase_p95_ms"), Handler(x), 60)
  BY Zenon DEF RedisSlow, RedisDominates, Timed
<1>9. f \notin {"redis_phase_p95_ms", "postgres_phase_p95_ms"} => (RedisSlow(n) <=> RedisSlow(e))
  BY Zenon, <1>1, <1>2, <1>8
<1>10. ASSUME f = "postgres_phase_p95_ms", ~SlowWith(e, "postgres_phase_p95_ms", 60)
       PROVE  RedisSlow(n) <=> RedisSlow(e)
  <2>1. Timed(n, "redis_phase_p95_ms") = Timed(e, "redis_phase_p95_ms")
    BY Zenon, <1>1, <1>10
  <2> QED
    BY Zenon, <1>1, <1>2, <1>8, <1>10, <2>1, NoneIsNothing DEF SlowWith
<1> QED
  BY Zenon, <1>3, <1>4, <1>5, <1>6, <1>7, <1>9, <1>10

(* The signals a verdict rests on are among its support *)
LEMMA SupportFacts ==
  ASSUME NEW class, NEW f \in Optional, f \notin Support(class)
  PROVE  /\ f \in {"nginx_request_p95_ms", "nginx_upstream_p95_ms"} =>
              class # "edge_or_client_network_latency"
         /\ f \in {"outbound_http_p95_ms", "blackbox_probe_p95_ms"} =>
              class \notin {"external_endpoint_slow", "app_http_client_path_issue"}
         /\ f = "db_pool_wait_p95_ms" => class # "internal_postgres_pool_pressure"
         /\ f = "db_lock_wait_p95_ms" => class # "internal_postgres_lock_contention"
         /\ f = "postgres_phase_p95_ms" => class # "internal_postgres_latency"
         /\ f = "redis_unavailable" => class # "redis_unavailable_fallback"
         /\ f = "redis_phase_p95_ms" => class # "redis_degraded_latency"
         /\ f = "outbound_http_p95_ms" => class # "external_dependency_latency"
<1>1. class = "edge_or_client_network_latency" =>
        {"nginx_request_p95_ms", "nginx_upstream_p95_ms"} \subseteq Support(class)
  BY Zenon DEF Support
<1>2. class \in {"external_endpoint_slow", "app_http_client_path_issue"} =>
        {"outbound_http_p95_ms", "blackbox_probe_p95_ms"} \subseteq Support(class)
  BY Zenon DEF Support
<1>3. /\ class = "internal_postgres_pool_pressure" => "db_pool_wait_p95_ms" \in Support(class)
      /\ class = "internal_postgres_lock_contention" => "db_lock_wait_p95_ms" \in Support(class)
  BY Zenon DEF Support
<1>4. /\ class = "internal_postgres_latency" => "postgres_phase_p95_ms" \in Support(class)
      /\ class = "redis_unavailable_fallback" => "redis_unavailable" \in Support(class)
  BY Zenon DEF Support
<1>5. /\ class = "redis_degraded_latency" => "redis_phase_p95_ms" \in Support(class)
      /\ class = "external_dependency_latency" => "outbound_http_p95_ms" \in Support(class)
  BY Zenon DEF Support
<1> QED
  BY Zenon, <1>1, <1>2, <1>3, <1>4, <1>5

(* The scope rules name none of the dependencies *)
LEMMA ScopeNames ==
  ASSUME NEW e
  PROVE  ScopeRule(e) \in {"partner_specific_latency", "route_specific_latency_candidate",
                           "internal_application_latency", "insufficient_evidence"}
BY Zenon DEF ScopeRule

(* The verdict of the rules does not rest on what does not support it *)
LEMMA RuleSurvivesLoss ==
  ASSUME NEW e, NEW n, NEW f \in Optional, Lost(e, n, f),
         K6Fields \cup {"fastapi_handler_p95_ms"} \subseteq DOMAIN e.observed,
         f \notin Support(DependencyRule(e))
  PROVE  DependencyRule(n) = DependencyRule(e)
<1> DEFINE g1 == EdgeIsSlow(e)  h1 == EdgeIsSlow(n)
           g2 == EndpointSlow(e)  h2 == EndpointSlow(n)
           g3 == ClientPath(e)  h3 == ClientPath(n)
           g4 == SlowWith(e, "db_pool_wait_p95_ms", 35)
           h4 == SlowWith(n, "db_pool_wait_p95_ms", 35)
           g5 == SlowWith(e, "db_lock_wait_p95_ms", 35)
           h5 == SlowWith(n, "db_lock_wait_p95_ms", 35)
           g6 == SlowWith(e, "postgres_phase_p95_ms", 60)
           h6 == SlowWith(n, "postgres_phase_p95_ms", 60)
           g7 == RedisGone(e)  h7 == RedisGone(n)
           g8 == RedisSlow(e)  h8 == RedisSlow(n)
           g9 == SlowWith(e, "outbound_http_p95_ms", 70)
           h9 == SlowWith(n, "outbound_http_p95_ms", 70)
           class == Cascade(g1, g2, g3, g4, g5, g6, g7, g8, g9, ScopeRule(e))
<1>1. ScopeRule(n) = ScopeRule(e)
  BY Zenon, GatesStay
<1>2. DependencyRule(e) = class
  BY Zenon, RuleIsCascade DEF CascadeOf
<1>3. DependencyRule(n) = Cascade(h1, h2, h3, h4, h5, h6, h7, h8, h9, ScopeRule(e))
  BY Zenon, <1>1, RuleIsCascade DEF CascadeOf
<1>4. /\ IF f \in {"nginx_request_p95_ms", "nginx_upstream_p95_ms"} THEN ~h1 ELSE h1 <=> g1
      /\ IF f \in {"outbound_http_p95_ms", "blackbox_probe_p95_ms"}
         THEN ~h2 /\ ~h3 ELSE (h2 <=> g2) /\ (h3 <=> g3)
      /\ IF f = "redis_unavailable" THEN ~h7 ELSE h7 <=> g7
      /\ f = "redis_phase_p95_ms" => ~h8
      /\ f # "redis_phase_p95_ms" /\ ~g6 => (h8 <=> g8)
      /\ f \notin {"redis_phase_p95_ms", "postgres_phase_p95_ms"} => (h8 <=> g8)
  BY Zenon, GuardsAfterLoss
<1>5. /\ IF f = "db_pool_wait_p95_ms" THEN ~h4 ELSE h4 <=> g4
      /\ IF f = "db_lock_wait_p95_ms" THEN ~h5 ELSE h5 <=> g5
      /\ IF f = "postgres_phase_p95_ms" THEN ~h6 ELSE h6 <=> g6
      /\ IF f = "outbound_http_p95_ms" THEN ~h9 ELSE h9 <=> g9
  <2>1. ASSUME NEW g, NEW p
        PROVE  IF g = f THEN ~SlowWith(n, g, p) ELSE SlowWith(n, g, p) <=> SlowWith(e, g, p)
    BY Zenon, GuardsAfterLoss
  <2> QED
    BY Zenon, <2>1
<1>6. f \notin Support(class)
  BY Zenon, <1>2
<1> HIDE DEF g1, g2, g3, g4, g5, g6, g7, g8, g9, h1, h2, h3, h4, h5, h6, h7, h8, h9
<1>7. /\ f \in {"nginx_request_p95_ms", "nginx_upstream_p95_ms"} =>
           class # "edge_or_client_network_latency"
      /\ f \in {"outbound_http_p95_ms", "blackbox_probe_p95_ms"} =>
           class \notin {"external_endpoint_slow", "app_http_client_path_issue"}
      /\ f = "db_pool_wait_p95_ms" => class # "internal_postgres_pool_pressure"
      /\ f = "db_lock_wait_p95_ms" => class # "internal_postgres_lock_contention"
      /\ f = "postgres_phase_p95_ms" => class # "internal_postgres_latency"
      /\ f = "redis_unavailable" => class # "redis_unavailable_fallback"
      /\ f = "redis_phase_p95_ms" => class # "redis_degraded_latency"
      /\ f = "outbound_http_p95_ms" => class # "external_dependency_latency"
  BY Zenon, <1>6, SupportFacts
<1>8. class = Cascade(h1, h2, h3, h4, h5, h6, h7, h8, h9, ScopeRule(e))
  BY Zenon, <1>4, <1>5, <1>7 DEF Cascade, Optional
<1> QED
  BY Zenon, <1>2, <1>3, <1>8

(* The gates and the rules together *)
LEMMA ReportSurvivesLoss ==
  ASSUME NEW e, NEW n, NEW f \in Optional, Lost(e, n, f),
         f \notin Support(AnalyzeEvidence(e).classification)
  PROVE  AnalyzeEvidence(n).classification = AnalyzeEvidence(e).classification
<1>1. \A x, c : Report(x, c).classification = c
  BY Zenon DEF Report
<1>2. /\ f \notin {"k6_p95_ms", "k6_p99_ms", "fastapi_handler_p95_ms", "error_rate"}
  BY Zenon DEF Optional
<1>3. \A g \in {"k6_p95_ms", "k6_p99_ms", "fastapi_handler_p95_ms", "error_rate"} :
        /\ g \in DOMAIN n.observed <=> g \in DOMAIN e.observed
        /\ g \in DOMAIN e.observed => n.observed[g] = e.observed[g]
  BY Zenon, <1>2 DEF Lost
<1>4. K6Fields \subseteq DOMAIN n.observed <=> K6Fields \subseteq DOMAIN e.observed
  BY Zenon, <1>3 DEF K6Fields
<1>5. /\ e.observed # NotCollected /\ n.observed # NotCollected
      /\ n.consistency = e.consistency /\ n.baseline = e.baseline
  BY Zenon DEF Lost
<1>6. CASE e.consistency = NotCollected \/ ~(K6Fields \subseteq DOMAIN e.observed)
  BY Zenon, <1>1, <1>4, <1>5, <1>6 DEF AnalyzeEvidence
<1>7. CASE /\ e.consistency # NotCollected /\ K6Fields \subseteq DOMAIN e.observed
  <2>1. NormalK6(n) <=> NormalK6(e)
    <3>1. /\ n.observed["k6_p95_ms"] = e.observed["k6_p95_ms"]
          /\ n.observed["k6_p99_ms"] = e.observed["k6_p99_ms"]
      BY Zenon, <1>3, <1>7 DEF K6Fields
    <3> QED
      BY Zenon, <1>5, <3>1 DEF NormalK6
  <2>2. /\ "error_rate" \in DOMAIN n.observed <=> "error_rate" \in DOMAIN e.observed
        /\ "error_rate" \in DOMAIN e.observed =>
             n.observed["error_rate"] = e.observed["error_rate"]
        /\ "fastapi_handler_p95_ms" \in DOMAIN n.observed
             <=> "fastapi_handler_p95_ms" \in DOMAIN e.observed
    BY Zenon, <1>3
  <2>3. CASE "fastapi_handler_p95_ms" \notin DOMAIN e.observed
    BY <1>1, <1>4, <1>5, <1>7, <2>1, <2>2, <2>3 DEF AnalyzeEvidence
  <2>4. CASE "fastapi_handler_p95_ms" \in DOMAIN e.observed
    <3>1. CASE \/ NormalK6(e) /\ "error_rate" \notin DOMAIN e.observed
               \/ /\ NormalK6(e) /\ e.observed["error_rate"] <= 1
                  /\ ConsistencyStatusFrom(e.consistency) = "CLEAN"
      BY Zenon, <1>1, <1>4, <1>5, <1>7, <2>1, <2>2, <3>1 DEF AnalyzeEvidence
    <3>2. CASE ~ \/ NormalK6(e) /\ "error_rate" \notin DOMAIN e.observed
                 \/ /\ NormalK6(e) /\ e.observed["error_rate"] <= 1
                    /\ ConsistencyStatusFrom(e.consistency) = "CLEAN"
      <4>1. AnalyzeEvidence(e).classification = DependencyRule(e)
        BY Zenon, <1>1, <1>5, <1>7, <2>4, <3>2 DEF AnalyzeEvidence
      <4>2. AnalyzeEvidence(n).classification = DependencyRule(n)
        BY Zenon, <1>1, <1>4, <1>5, <1>7, <2>1, <2>2, <2>4, <3>2 DEF AnalyzeEvidence
      <4>3. K6Fields \cup {"fastapi_handler_p95_ms"} \subseteq DOMAIN e.observed
        BY Zenon, <1>7, <2>4
      <4> QED
        BY Zenon, <4>1, <4>2, <4>3, RuleSurvivesLoss
    <3> QED
      BY Zenon, <3>1, <3>2
  <2> QED
    BY Zenon, <2>3, <2>4
<1> QED
  BY Zenon, <1>6, <1>7

(* analyze_evidence: losing a signal that supports neither the verdict nor  *)
(* the gates leaves the verdict, whatever else is slow or missing.          *)
THEOREM VerdictSurvivesLossAlways == Spec => VerdictSurvivesLoss
<1>1. ASSUME LatencyInv, LatencyInv',
             NEW f \in {"nginx_request_p95_ms", "nginx_upstream_p95_ms", "postgres_phase_p95_ms",
                        "db_pool_wait_p95_ms", "db_lock_wait_p95_ms", "redis_phase_p95_ms",
                        "redis_unavailable", "outbound_http_p95_ms", "blackbox_probe_p95_ms"},
             evidence.observed # NotCollected,
             evidence' = [evidence EXCEPT !.observed = Without(@, f)],
             f \notin Support(report.classification)
      PROVE  report'.classification = report.classification
  <2>1. f \in Optional
    BY Zenon, <1>1 DEF Optional
  <2>2. PICK n : n = evidence'
    OBVIOUS
  <2>3. EvidenceOK(evidence) /\ ObservedOK(evidence.observed) /\ EvidenceOK(n)
    BY Zenon, <1>1, <2>2 DEF LatencyInv, EvidenceOK
  <2>4. n = [evidence EXCEPT !.observed = Without(evidence.observed, f)]
    BY Zenon, <1>1, <2>2
  <2>5. /\ n.observed = Without(evidence.observed, f)
        /\ n.consistency = evidence.consistency /\ n.baseline = evidence.baseline
        /\ n.partner_alias = evidence.partner_alias /\ n.route_group = evidence.route_group
    BY <2>3, <2>4, ObservedReplaced
  <2>6. /\ ObservedOK(n.observed)
        /\ DOMAIN n.observed = DOMAIN evidence.observed \ {f}
        /\ \A g \in DOMAIN evidence.observed : g # f => n.observed[g] = evidence.observed[g]
    <3>1. PICK o : o = evidence.observed
      OBVIOUS
    <3>2. /\ ObservedOK(Without(o, f)) /\ DOMAIN Without(o, f) = DOMAIN o \ {f}
          /\ \A g \in DOMAIN o : g # f => Without(o, f)[g] = o[g]
      BY Zenon, <2>3, <3>1, WithoutIsObserved
    <3> QED
      BY Zenon, <2>5, <3>1, <3>2
  <2>7. n.observed # NotCollected
    BY Zenon, <2>6, ObservedIsCollected
  <2>8. Lost(evidence, n, f)
    BY Zenon, <1>1, <2>3, <2>5, <2>6, <2>7 DEF Lost
  <2>9. report = AnalyzeEvidence(evidence) /\ report' = AnalyzeEvidence(n)
    BY Zenon, <1>1, <2>2 DEF LatencyInv
  <2> QED
    BY Zenon, <1>1, <2>1, <2>8, <2>9, ReportSurvivesLoss
<1>2. LatencyInv /\ LatencyInv' =>
        [\A f \in {"nginx_request_p95_ms", "nginx_upstream_p95_ms", "postgres_phase_p95_ms",
                  "db_pool_wait_p95_ms", "db_lock_wait_p95_ms", "redis_phase_p95_ms",
                  "redis_unavailable", "outbound_http_p95_ms", "blackbox_probe_p95_ms"} :
           ( /\ evidence.observed # NotCollected
             /\ evidence' = [evidence EXCEPT !.observed = Without(@, f)]
             /\ f \notin Support(report.classification) )
           => report'.classification = report.classification]_vars
  BY Zenon, <1>1
<1> QED
  BY <1>2, LatencyInvariant, PTL DEF VerdictSurvivesLoss


-----------------------------------------------------------------------------
(* The catalog *)

(* A report is valid unless the error rate is missing *)
LEMMA ReportIsValid ==
  ASSUME NEW e, e.observed = NotCollected \/ "error_rate" \in DOMAIN e.observed
  PROVE  ValidateReportPayload(AnalyzeEvidence(e))
<1>1. DependencyRule(e) \in CLASSIFICATIONS
  BY Zenon DEF DependencyRule, CLASSIFICATIONS
<1>2. \A c \in CLASSIFICATIONS : ValidateReportPayload(Report(e, c))
  BY Zenon DEF ValidateReportPayload, Report, ConsistencyStatusFrom
<1>3. "insufficient_evidence" \in CLASSIFICATIONS /\ "baseline_normal_latency" \in CLASSIFICATIONS
  BY Zenon DEF CLASSIFICATIONS
<1> QED
  BY Zenon, <1>1, <1>2, <1>3 DEF AnalyzeEvidence

(* What the analyzer is given, in numbers *)
Shows(e, p95, p99, request, upstream, handler, postgres, redis, error_rate, outbound, blackbox) ==
  LET o == e.observed IN
  /\ o["k6_p95_ms"] = p95 /\ o["k6_p99_ms"] = p99
  /\ o["nginx_request_p95_ms"] = request /\ o["nginx_upstream_p95_ms"] = upstream
  /\ o["fastapi_handler_p95_ms"] = handler /\ o["postgres_phase_p95_ms"] = postgres
  /\ o["redis_phase_p95_ms"] = redis /\ o["outbound_http_p95_ms"] = outbound
  /\ o["blackbox_probe_p95_ms"] = blackbox /\ o["error_rate"] = error_rate

AlwaysTimed ==
  {"k6_p95_ms", "k6_p99_ms", "nginx_request_p95_ms", "nginx_upstream_p95_ms",
   "fastapi_handler_p95_ms", "postgres_phase_p95_ms", "redis_phase_p95_ms",
   "outbound_http_p95_ms", "blackbox_probe_p95_ms", "error_rate"}

(* The evidence of a scenario is complete *)
LEMMA ScenarioEvidence ==
  ASSUME NEW s \in DOMAIN ObservedByScenario, NEW e, e = GeneratePh10Input(s)
  PROVE  /\ e.observed = ObservedByScenario[s] /\ ObservedOK(e.observed)
         /\ e.observed # NotCollected /\ e.consistency # NotCollected
         /\ ConsistencyStatusFrom(e.consistency) = "CLEAN"
         /\ e.baseline["k6_p95_ms"] = 180 /\ e.baseline["k6_p99_ms"] = 420
         /\ e.baseline["server_handler_p95_ms"] = 120
         /\ AlwaysTimed \subseteq DOMAIN e.observed
<1>1. s # "insufficient_evidence"
  BY Zenon DEF ObservedByScenario
<1>2. /\ e.observed = ObservedByScenario[s] /\ e.consistency = [c \in COUNTERS |-> 0]
      /\ e.baseline = baseline
  BY Zenon, <1>1 DEF GeneratePh10Input
<1>3. ObservedOK(e.observed)
  BY Zenon, <1>2, ScenariosAreObserved
<1>4. e.consistency # NotCollected
  BY <1>2, LatencyAssumptions
<1>5. ConsistencyStatusFrom(e.consistency) = "CLEAN"
  BY <1>2, <1>4 DEF ConsistencyStatusFrom
<1>6. AlwaysTimed \subseteq DOMAIN ObservedByScenario[s]
  BY DEF ObservedByScenario, Timing, With, AlwaysTimed
<1>7. e.observed # NotCollected
  BY Zenon, <1>3, ObservedIsCollected
<1> QED
  BY <1>2, <1>3, <1>4, <1>5, <1>6, <1>7 DEF baseline

(* The guards in numbers *)
LEMMA SlowHandler ==
  ASSUME NEW e, e.baseline["server_handler_p95_ms"] = 120, Handler(e) \in Int, Handler(e) > 300
  PROVE  HandlerHigh(e) /\ ~EdgeIsSlow(e)
BY DEF HandlerHigh, EdgeIsSlow, Handler, Larger

LEMMA NoOutbound ==
  ASSUME NEW e, Timed(e, "outbound_http_p95_ms") = 0
  PROVE  ~EndpointSlow(e) /\ ~ClientPath(e)
<1>1. \A h, p : ~Share(0, h, p)
  BY DEF Share, Truthy
<1> QED
  BY Zenon, <1>1 DEF EndpointSlow, ClientPath

LEMMA PhaseMissing ==
  ASSUME NEW e, NEW x, x \notin DOMAIN e.observed, NEW p PROVE ~SlowWith(e, x, p)
<1>1. Timed(e, x) = None
  BY Zenon DEF Timed, Num
<1> QED
  BY Zenon, <1>1, NoneIsNothing DEF SlowWith

LEMMA PhaseShare ==
  ASSUME NEW e, NEW x, Timed(e, x) \in Int, Handler(e) \in Int, NEW p \in Int
  PROVE  /\ 100 * Timed(e, x) < p * Handler(e) => ~Share(Timed(e, x), Handler(e), p)
         /\ Timed(e, x) # 0 /\ 100 * Timed(e, x) >= p * Handler(e) =>
              Share(Timed(e, x), Handler(e), p)
<1>1. None \notin Int
  BY Zenon, LatencyAssumptions
<1> QED
  BY <1>1 DEF Share, Truthy

(* The collected timings of a scenario *)
LEMMA ShownIsTimed ==
  ASSUME NEW e, NEW a, NEW b, NEW c, NEW d, NEW h, NEW p, NEW r, NEW x, NEW o, NEW k,
         Shows(e, a, b, c, d, h, p, r, x, o, k), AlwaysTimed \subseteq DOMAIN e.observed
  PROVE  /\ Handler(e) = h /\ Timed(e, "nginx_request_p95_ms") = c
         /\ Timed(e, "nginx_upstream_p95_ms") = d /\ Timed(e, "postgres_phase_p95_ms") = p
         /\ Timed(e, "redis_phase_p95_ms") = r /\ Timed(e, "outbound_http_p95_ms") = o
         /\ Timed(e, "blackbox_probe_p95_ms") = k
BY DEF Shows, AlwaysTimed, Handler, Timed, Num

(* LAT-001 *)
LEMMA BaselineDrill ==
  ASSUME NEW e, e = GeneratePh10Input("baseline")
  PROVE  AnalyzeEvidence(e).classification = "baseline_normal_latency"
<1>1. "baseline" \in DOMAIN ObservedByScenario
  BY DEF ObservedByScenario
<1>2. /\ e.observed = ObservedByScenario["baseline"]
      /\ e.observed # NotCollected /\ e.consistency # NotCollected
      /\ ConsistencyStatusFrom(e.consistency) = "CLEAN"
      /\ e.baseline["k6_p95_ms"] = 180 /\ e.baseline["k6_p99_ms"] = 420
      /\ e.baseline["server_handler_p95_ms"] = 120
      /\ AlwaysTimed \subseteq DOMAIN e.observed
  BY <1>1, ScenarioEvidence
<1>3. Shows(e, 190, 430, 180, 160, 130, 70, 20, 0, 0, 0)
  BY <1>2 DEF ObservedByScenario, Timing, With, Shows
<1> QED
  BY <1>2, <1>3, NormalReport DEF Normal, NormalK6, Shows, AlwaysTimed, K6Fields

(* LAT-002 *)
LEMMA PoolPressureDrill ==
  ASSUME NEW e, e = GeneratePh10Input("db_pool_pressure")
  PROVE  AnalyzeEvidence(e).classification = "internal_postgres_pool_pressure"
<1>1. "db_pool_pressure" \in DOMAIN ObservedByScenario
  BY DEF ObservedByScenario
<1>2. /\ e.observed = ObservedByScenario["db_pool_pressure"]
      /\ e.observed # NotCollected /\ e.consistency # NotCollected
      /\ ConsistencyStatusFrom(e.consistency) = "CLEAN"
      /\ e.baseline["k6_p95_ms"] = 180 /\ e.baseline["k6_p99_ms"] = 420
      /\ e.baseline["server_handler_p95_ms"] = 120
      /\ AlwaysTimed \subseteq DOMAIN e.observed
  BY <1>1, ScenarioEvidence
<1>3. Shows(e, 700, 1500, 680, 640, 600, 210, 20, 1, 0, 0)
  BY <1>2 DEF ObservedByScenario, Timing, With, Shows
<1>4. AnalyzeEvidence(e).classification = DependencyRule(e)
  BY <1>2, <1>3 DEF AnalyzeEvidence, Report, NormalK6, Shows, AlwaysTimed, K6Fields
<1>5. /\ Handler(e) = 600 /\ Timed(e, "nginx_request_p95_ms") = 680
      /\ Timed(e, "nginx_upstream_p95_ms") = 640 /\ Timed(e, "postgres_phase_p95_ms") = 210
      /\ Timed(e, "redis_phase_p95_ms") = 20 /\ Timed(e, "outbound_http_p95_ms") = 0
      /\ Timed(e, "blackbox_probe_p95_ms") = 0
  BY <1>2, <1>3, ShownIsTimed
<1>6. HandlerHigh(e) /\ ~EdgeIsSlow(e)
  BY <1>2, <1>5, SlowHandler
<1>7. ~EndpointSlow(e) /\ ~ClientPath(e)
  BY <1>5, NoOutbound
<1>8. SlowWith(e, "db_pool_wait_p95_ms", 35)
  <2>1. Timed(e, "db_pool_wait_p95_ms") = 260
    BY <1>2 DEF ObservedByScenario, Timing, With, Timed, Num
  <2>2. Share(Timed(e, "db_pool_wait_p95_ms"), Handler(e), 35)
    BY <1>5, <2>1, PhaseShare
  <2> QED
    BY Zenon, <1>6, <2>2 DEF SlowWith
<1> QED
  BY Zenon, <1>4, <1>6, <1>7, <1>8, RuleIsCascade DEF CascadeOf, Cascade

(* LAT-003 *)
LEMMA LockContentionDrill ==
  ASSUME NEW e, e = GeneratePh10Input("db_lock_contention")
  PROVE  AnalyzeEvidence(e).classification = "internal_postgres_lock_contention"
<1>1. "db_lock_contention" \in DOMAIN ObservedByScenario
  BY DEF ObservedByScenario
<1>2. /\ e.observed = ObservedByScenario["db_lock_contention"]
      /\ e.observed # NotCollected /\ e.consistency # NotCollected
      /\ ConsistencyStatusFrom(e.consistency) = "CLEAN"
      /\ e.baseline["k6_p95_ms"] = 180 /\ e.baseline["k6_p99_ms"] = 420
      /\ e.baseline["server_handler_p95_ms"] = 120
      /\ AlwaysTimed \subseteq DOMAIN e.observed
  BY <1>1, ScenarioEvidence
<1>3. Shows(e, 760, 1800, 730, 700, 650, 260, 20, 1, 0, 0)
  BY <1>2 DEF ObservedByScenario, Timing, With, Shows
<1>4. AnalyzeEvidence(e).classification = DependencyRule(e)
  BY <1>2, <1>3 DEF AnalyzeEvidence, Report, NormalK6, Shows, AlwaysTimed, K6Fields
<1>5. /\ Handler(e) = 650 /\ Timed(e, "nginx_request_p95_ms") = 730
      /\ Timed(e, "nginx_upstream_p95_ms") = 700 /\ Timed(e, "postgres_phase_p95_ms") = 260
      /\ Timed(e, "redis_phase_p95_ms") = 20 /\ Timed(e, "outbound_http_p95_ms") = 0
      /\ Timed(e, "blackbox_probe_p95_ms") = 0
  BY <1>2, <1>3, ShownIsTimed
<1>6. HandlerHigh(e) /\ ~EdgeIsSlow(e)
  BY <1>2, <1>5, SlowHandler
<1>7. ~EndpointSlow(e) /\ ~ClientPath(e)
  BY <1>5, NoOutbound
<1>8. "db_pool_wait_p95_ms" \notin DOMAIN e.observed /\ Timed(e, "db_lock_wait_p95_ms") = 300
  BY <1>2 DEF ObservedByScenario, Timing, With, Timed, Num
<1>9. ~SlowWith(e, "db_pool_wait_p95_ms", 35)
  BY <1>8, PhaseMissing
<1>10. SlowWith(e, "db_lock_wait_p95_ms", 35)
  <2>1. Share(Timed(e, "db_lock_wait_p95_ms"), Handler(e), 35)
    BY <1>5, <1>8, PhaseShare
  <2> QED
    BY Zenon, <1>6, <2>1 DEF SlowWith
<1> QED
  BY Zenon, <1>4, <1>6, <1>7, <1>9, <1>10, RuleIsCascade DEF CascadeOf, Cascade

(* LAT-004 *)
LEMMA RedisDegradedDrill ==
  ASSUME NEW e, e = GeneratePh10Input("redis_degraded")
  PROVE  AnalyzeEvidence(e).classification = "redis_degraded_latency"
<1>1. "redis_degraded" \in DOMAIN ObservedByScenario
  BY DEF ObservedByScenario
<1>2. /\ e.observed = ObservedByScenario["redis_degraded"]
      /\ e.observed # NotCollected /\ e.consistency # NotCollected
      /\ ConsistencyStatusFrom(e.consistency) = "CLEAN"
      /\ e.baseline["k6_p95_ms"] = 180 /\ e.baseline["k6_p99_ms"] = 420
      /\ e.baseline["server_handler_p95_ms"] = 120
      /\ AlwaysTimed \subseteq DOMAIN e.observed
  BY <1>1, ScenarioEvidence
<1>3. Shows(e, 650, 1400, 630, 600, 560, 120, 260, 1, 0, 0)
  BY <1>2 DEF ObservedByScenario, Timing, With, Shows
<1>4. AnalyzeEvidence(e).classification = DependencyRule(e)
  BY <1>2, <1>3 DEF AnalyzeEvidence, Report, NormalK6, Shows, AlwaysTimed, K6Fields
<1>5. /\ Handler(e) = 560 /\ Timed(e, "nginx_request_p95_ms") = 630
      /\ Timed(e, "nginx_upstream_p95_ms") = 600 /\ Timed(e, "postgres_phase_p95_ms") = 120
      /\ Timed(e, "redis_phase_p95_ms") = 260 /\ Timed(e, "outbound_http_p95_ms") = 0
      /\ Timed(e, "blackbox_probe_p95_ms") = 0
  BY <1>2, <1>3, ShownIsTimed
<1>6. HandlerHigh(e) /\ ~EdgeIsSlow(e)
  BY <1>2, <1>5, SlowHandler
<1>7. ~EndpointSlow(e) /\ ~ClientPath(e)
  BY <1>5, NoOutbound
<1>8. /\ "db_pool_wait_p95_ms" \notin DOMAIN e.observed
      /\ "db_lock_wait_p95_ms" \notin DOMAIN e.observed
      /\ "redis_unavailable" \notin DOMAIN e.observed
  BY <1>2 DEF ObservedByScenario, Timing, With
<1>9. /\ ~SlowWith(e, "db_pool_wait_p95_ms", 35) /\ ~SlowWith(e, "db_lock_wait_p95_ms", 35)
      /\ ~RedisGone(e)
  BY Zenon, <1>8, PhaseMissing DEF RedisGone
<1>10. /\ Share(Timed(e, "redis_phase_p95_ms"), Handler(e), 40)
       /\ ~Share(Timed(e, "postgres_phase_p95_ms"), Handler(e), 60)
  BY <1>5, PhaseShare
<1>11. ~SlowWith(e, "postgres_phase_p95_ms", 60) /\ RedisSlow(e)
  BY Zenon, <1>6, <1>10 DEF SlowWith, RedisSlow, RedisDominates, Timed
<1> QED
  BY Zenon, <1>4, <1>6, <1>7, <1>9, <1>11, RuleIsCascade DEF CascadeOf, Cascade

(* LAT-005 *)
LEMMA EndpointSlowDrill ==
  ASSUME NEW e, e = GeneratePh10Input("external_endpoint_slow")
  PROVE  AnalyzeEvidence(e).classification = "external_endpoint_slow"
<1>1. "external_endpoint_slow" \in DOMAIN ObservedByScenario
  BY DEF ObservedByScenario
<1>2. /\ e.observed = ObservedByScenario["external_endpoint_slow"]
      /\ e.observed # NotCollected /\ e.consistency # NotCollected
      /\ ConsistencyStatusFrom(e.consistency) = "CLEAN"
      /\ e.baseline["k6_p95_ms"] = 180 /\ e.baseline["k6_p99_ms"] = 420
      /\ e.baseline["server_handler_p95_ms"] = 120
      /\ AlwaysTimed \subseteq DOMAIN e.observed
  BY <1>1, ScenarioEvidence
<1>3. Shows(e, 900, 1900, 860, 830, 800, 100, 30, 2, 520, 900)
  BY <1>2 DEF ObservedByScenario, Timing, With, Shows
<1>4. AnalyzeEvidence(e).classification = DependencyRule(e)
  BY <1>2, <1>3 DEF AnalyzeEvidence, Report, NormalK6, Shows, AlwaysTimed, K6Fields
<1>5. /\ Handler(e) = 800 /\ Timed(e, "nginx_request_p95_ms") = 860
      /\ Timed(e, "nginx_upstream_p95_ms") = 830 /\ Timed(e, "postgres_phase_p95_ms") = 100
      /\ Timed(e, "redis_phase_p95_ms") = 30 /\ Timed(e, "outbound_http_p95_ms") = 520
      /\ Timed(e, "blackbox_probe_p95_ms") = 900
  BY <1>2, <1>3, ShownIsTimed
<1>6. HandlerHigh(e) /\ ~EdgeIsSlow(e)
  BY <1>2, <1>5, SlowHandler
<1>7. EndpointSlow(e)
  <2>1. Share(Timed(e, "outbound_http_p95_ms"), Handler(e), 50)
    BY <1>5, PhaseShare
  <2>2. 900 # None
    BY LatencyAssumptions
  <2> QED
    BY <1>2, <1>5, <2>1, <2>2 DEF EndpointSlow, Truthy, Larger
<1> QED
  BY Zenon, <1>4, <1>6, <1>7, RuleIsCascade DEF CascadeOf, Cascade

(* LAT-006 *)
LEMMA EdgeLatencyDrill ==
  ASSUME NEW e, e = GeneratePh10Input("nginx_edge_latency")
  PROVE  AnalyzeEvidence(e).classification = "edge_or_client_network_latency"
<1>1. "nginx_edge_latency" \in DOMAIN ObservedByScenario
  BY DEF ObservedByScenario
<1>2. /\ e.observed = ObservedByScenario["nginx_edge_latency"]
      /\ e.observed # NotCollected /\ e.consistency # NotCollected
      /\ ConsistencyStatusFrom(e.consistency) = "CLEAN"
      /\ e.baseline["k6_p95_ms"] = 180 /\ e.baseline["k6_p99_ms"] = 420
      /\ e.baseline["server_handler_p95_ms"] = 120
      /\ AlwaysTimed \subseteq DOMAIN e.observed
  BY <1>1, ScenarioEvidence
<1>3. Shows(e, 900, 1600, 850, 180, 140, 70, 20, 0, 0, 0)
  BY <1>2 DEF ObservedByScenario, Timing, With, Shows
<1>4. AnalyzeEvidence(e).classification = DependencyRule(e)
  BY <1>2, <1>3 DEF AnalyzeEvidence, Report, NormalK6, Shows, AlwaysTimed, K6Fields
<1>5. /\ Handler(e) = 140 /\ Timed(e, "nginx_request_p95_ms") = 850
      /\ Timed(e, "nginx_upstream_p95_ms") = 180 /\ Timed(e, "postgres_phase_p95_ms") = 70
      /\ Timed(e, "redis_phase_p95_ms") = 20 /\ Timed(e, "outbound_http_p95_ms") = 0
      /\ Timed(e, "blackbox_probe_p95_ms") = 0
  BY <1>2, <1>3, ShownIsTimed
<1>6. EdgeIsSlow(e)
  <2>1. 850 # None /\ 180 # None
    BY LatencyAssumptions
  <2> QED
    BY <1>2, <1>5, <2>1 DEF EdgeIsSlow, Timed, Handler, Larger
<1> QED
  BY <1>4, <1>6 DEF DependencyRule

(* Every drill of the PH11 catalog is classified as it expects, and its     *)
(* report passes the validators.                                            *)
THEOREM DrillMatchesCatalogAlways == Spec => []DrillMatchesCatalog
<1>1. ASSUME LatencyInv, changes = 0
      PROVE  ValidateReportPayload(report)
  <2>1. evidence.observed = NotCollected \/ "error_rate" \in DOMAIN evidence.observed
    <3>1. CASE scenario \in DOMAIN ObservedByScenario /\ evidence = GeneratePh10Input(scenario)
      BY <3>1, ScenarioEvidence DEF AlwaysTimed
    <3>2. CASE scenario = "insufficient_evidence" /\ evidence = GeneratePh10Input(scenario)
      BY Zenon, <3>2 DEF GeneratePh10Input
    <3>3. CASE evidence = SampleEvidence
      BY <3>3 DEF SampleEvidence, Timing
    <3> QED
      BY Zenon, <1>1, <3>1, <3>2, <3>3 DEF LatencyInv, Sampled, SCENARIOS
  <2> QED
    BY Zenon, <1>1, <2>1, ReportIsValid DEF LatencyInv
<1>2. ASSUME LatencyInv, changes = 0, NEW d \in DrillCatalog, d[1] = scenario
      PROVE  ValidateDrill(d, report.classification)
  <2>1. scenario # "db_phase_dominant"
    BY <1>2 DEF DrillCatalog
  <2>2. /\ report = AnalyzeEvidence(evidence) /\ evidence = GeneratePh10Input(d[1])
    BY Zenon, <1>2, <2>1 DEF LatencyInv, Sampled
  <2>3. d[2] \in CLASSIFICATIONS
    BY DEF DrillCatalog, CLASSIFICATIONS
  <2>4. AnalyzeEvidence(GeneratePh10Input(d[1])).classification = d[2]
    BY BaselineDrill, PoolPressureDrill, LockContentionDrill, RedisDegradedDrill,
       EndpointSlowDrill, EdgeLatencyDrill DEF DrillCatalog
  <2> QED
    BY Zenon, <2>2, <2>3, <2>4 DEF ValidateDrill
<1>3. LatencyInv => DrillMatchesCatalog
  BY Zenon, <1>1, <1>2 DEF DrillMatchesCatalog
<1> QED
  BY <1>3, LatencyInvariant, PTL

=============================================================================

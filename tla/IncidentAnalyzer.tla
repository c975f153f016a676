-------------------------- MODULE IncidentAnalyzer --------------------------
(***************************************************************************)
(* What PH2 puts into an incident artifact and how PH3 classifies it, as    *)
(* operators.  A file is Absent, Torn (opened and not yet written: neither  *)
(* JSON nor text) or its content, of which only what the rules look at is   *)
(* kept.                                                                    *)
(***************************************************************************)
EXTENDS Naturals, FiniteSets

CONSTANTS
  Absent, Torn,      \* states of a file of the artifact
  Missing, Invalid   \* an input that is not there, or is not JSON

(* in the order in which create_artifact writes them *)
ArtifactFiles ==
  <<"manifest", "write-suspend-state", "health-ready-summary", "consistency-summary",
    "command-results", "docker-compose-status", "sanitized-report">>

(* PH2: the state file as found *)
LoadWriteSuspendState(file) ==
  CASE file = Missing -> [active |-> FALSE, reason |-> "not_collected", source |-> "not_collected"]
    [] file = Invalid -> [active |-> TRUE, reason |-> "state_file_invalid",
                          source |-> "artifact_parse_failed"]
    [] OTHER -> file

(* of the keys of a summary, those sanitize_payload lets through *)
ALLOWED_KEYS == {"result", "count", "sensitive_data_included"}

SanitizePayload(summary) == [k \in DOMAIN summary \cap ALLOWED_KEYS |-> summary[k]]

(* counts: what a PH1 report says, by key *)
ConsistencySummary(counts) ==
  IF counts = Missing THEN [result |-> "not_collected"]
  ELSE SanitizePayload([k \in {"result"} \cup DOMAIN counts |->
                          IF k = "result" THEN "captured" ELSE counts[k]])

(* input: the scenario, the state file, the PH1 counts, the container status *)
ContentOf(file, input) ==
  CASE file = "manifest" -> [scenario |-> input.scenario, sensitive |-> FALSE]
    [] file = "write-suspend-state" -> LoadWriteSuspendState(input.state)
    [] file = "consistency-summary" -> ConsistencySummary(input.counts)
    [] file = "docker-compose-status" -> input.status
    [] OTHER -> "written"

-----------------------------------------------------------------------------
(* PH3: the context, and the rules *)

NoManifest == [scenario |-> "missing", sensitive |-> TRUE]
NoWriteState == [active |-> FALSE, reason |-> "missing", source |-> "missing"]
NoSummary == [k \in {} |-> 0]

ReadJsonOrEmpty(content, empty) == IF content \in {Absent, Torn} THEN empty ELSE content

(* validate_artifact stops at a manifest it cannot read; of the errors it      *)
(* reports otherwise these mention "sensitive": a manifest that does not say   *)
(* false, a value that matches the patterns, a report without the declaration, *)
(* which is also what a report not yet written lacks                           *)
SensitiveFinding(art) ==
  /\ art["manifest"] \notin {Absent, Torn}
  /\ \/ art["manifest"].sensitive
     \/ art["docker-compose-status"] = "sensitive"
     \/ art["sanitized-report"] = Torn

MissingEvidence(art) ==
  Cardinality({f \in {"manifest", "write-suspend-state", "health-ready-summary",
                      "consistency-summary", "command-results", "sanitized-report"} :
                 art[f] = Absent})

HasSanitizationRisk(ctx) ==
  ctx.manifest # NoManifest /\ (ctx.manifest.sensitive \/ ctx.finding)

HasConsistencyIssue(ctx) ==
  \E k \in DOMAIN ctx.consistency :
    /\ k \in {"duplicate_ledger_count", "duplicate_external_event_count",
              "duplicate_event_count", "reconciliation_failure_count"}
    /\ ctx.consistency[k] > 0

IsPostgresDown(ctx) ==
  \/ ctx.manifest.scenario = "POSTGRES_DOWN"
  \/ ctx.write_state.reason = "postgres_unavailable"
  \/ ctx.write_state.active /\ ctx.write_state.source = "postgres_probe"

IsWriteSuspendedUnknown(ctx) ==
  /\ ctx.write_state.active
  /\ ctx.manifest.scenario \in {"missing", "unknown", "not_collected"}

HasInsufficientEvidence(ctx) == ctx.manifest = NoManifest \/ ctx.missing >= 3

SelectRule(ctx) ==
  IF HasSanitizationRisk(ctx) THEN "ARTIFACT_SANITIZATION_RISK"
  ELSE IF HasConsistencyIssue(ctx) THEN "CONSISTENCY_ISSUE_CANDIDATE"
  ELSE IF IsPostgresDown(ctx) THEN "POSTGRES_DOWN_WRITE_SUSPENDED"
  ELSE IF IsWriteSuspendedUnknown(ctx) THEN "WRITE_SUSPENDED_UNKNOWN_DEPENDENCY"
  ELSE IF HasInsufficientEvidence(ctx) THEN "INSUFFICIENT_EVIDENCE"
  ELSE "UNKNOWN_INCIDENT"

=============================================================================

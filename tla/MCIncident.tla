------------------------------ MODULE MCIncident ------------------------------
(* An instance of IncidentPipeline. *)
EXTENDS IncidentPipeline, TLC

MCScenarios == {"REDIS_DOWN", "unknown"}

Suspended == [active |-> TRUE, reason |-> "manual", source |-> "operator"]
ByProbe == [active |-> TRUE, reason |-> "timeout", source |-> "postgres_probe"]

Duplicates == [duplicate_ledger_count |-> 1]

(* a Redis incident, and one with an unreadable state file and a PH1 report *)
MCInputs ==
  {[scenario |-> "REDIS_DOWN", state |-> ByProbe, counts |-> Missing, status |-> "written"],
   [scenario |-> "unknown", state |-> Invalid, counts |-> Duplicates, status |-> "sensitive"]}

(* artifacts collected by hand: every combination of what the rules look at *)
Collected ==
  {[name |-> <<"unknown", 0>>,
    files |-> [NoFiles EXCEPT !["manifest"] = m, !["write-suspend-state"] = w,
                              !["consistency-summary"] = c, !["sanitized-report"] = "written",
                              !["health-ready-summary"] = h, !["command-results"] = h]] :
     m \in {Absent, Torn} \cup [scenario : {"POSTGRES_DOWN", "unknown"}, sensitive : BOOLEAN],
     w \in {Absent, Torn, Suspended, ByProbe},
     c \in {Absent, [result |-> "captured"], Duplicates},
     h \in {Absent, "written"}}

MCFound == Collected \cup {Missing}

Creating == \E c \in Creators : creator[c].pc # 0
ByHand ==
  \E n \in complete : \A c \in Creators : creator[c].name = n => creator[c].pc < 2

(* Two analyses and two ingestions of an artifact that was collected by hand, *)
(* or two creators with one analysis and one ingestion.                       *)
Meeting ==
  Creating =>
    /\ ~ByHand
    /\ Cardinality({a \in Analyzers : analyzer[a].pc # "idle"}) <= 1
    /\ Cardinality({i \in Ingesters : ingester[i] # "idle"}) <= 1

ActorSymmetry ==
  {p @@ q @@ r : p \in Permutations(Creators), q \in Permutations(Analyzers),
                 r \in Permutations(Ingesters)}

=============================================================================

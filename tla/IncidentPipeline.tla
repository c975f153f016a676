-------------------------- MODULE IncidentPipeline --------------------------
(***************************************************************************)
(* The incident scripts run side by side: PH2 creates artifacts, PH3        *)
(* analyses the latest, PH4 turns analyses into recovery cases.  They share *)
(* nothing but the directory reports/incidents, which none of them locks:   *)
(* an artifact may be read while it is being written, or after its writer   *)
(* has died.  All artifacts are created within one second, so that their    *)
(* names differ in the scenario and in the suffix only.                     *)
(***************************************************************************)
EXTENDS IncidentAnalyzer, Sequences

CONSTANTS
  Creators, Analyzers, Ingesters,
  Inputs,        \* what a creator may find
  Found,         \* artifacts that are there at the start, or Missing
  MaxSuffix,     \* the last suffix that is tried
  Scenarios,
  Nothing

Names == Scenarios \X (0 .. MaxSuffix)

INSTANCE RecoveryPlans WITH None <- Nothing

VARIABLES
  arts,      \* for every artifact directory that exists: its files
  complete,  \* the directories whose creator has written everything
  creator,   \* [pc, input, name] of every creator; pc counts the steps done
  analyzer,  \* [pc, name, ctx, settled, class] of every analyzer
  results,   \* analyzer-result.json of every directory
  cases,     \* source keys of the recovery cases
  ingester   \* "idle" or how the command ended

vars == <<arts, complete, creator, analyzer, results, cases, ingester>>

FileNames == {ArtifactFiles[i] : i \in DOMAIN ArtifactFiles}

NoFiles == [f \in FileNames |-> Absent]

Classification ==
  {"ARTIFACT_SANITIZATION_RISK", "CONSISTENCY_ISSUE_CANDIDATE", "POSTGRES_DOWN_WRITE_SUSPENDED",
    "WRITE_SUSPENDED_UNKNOWN_DEPENDENCY", "INSUFFICIENT_EVIDENCE", "UNKNOWN_INCIDENT"}

ASSUME IncidentAssumptions ==
  /\ MaxSuffix \in Nat
  /\ \A input \in Inputs : input.scenario \in Scenarios
  /\ \A f \in Found \ {Missing} :
       f.name \in Names /\ f.files = [file \in FileNames |-> f.files[file]]
  /\ Nothing \notin Classification

Init ==
  /\ \E f \in Found :
       /\ arts = IF f = Missing THEN [n \in {} |-> NoFiles] ELSE [n \in {f.name} |-> f.files]
       /\ complete = IF f = Missing THEN {} ELSE {f.name}
  /\ creator = [c \in Creators |-> [pc |-> 0, input |-> Nothing, name |-> Nothing]]
  /\ analyzer = [a \in Analyzers |-> [pc |-> "idle", name |-> Nothing, ctx |-> Nothing,
                                      settled |-> FALSE, class |-> Nothing]]
  /\ results = [n \in Names |-> Absent]
  /\ cases = {}
  /\ ingester = [i \in Ingesters |-> "idle"]

Dirs == DOMAIN arts

-----------------------------------------------------------------------------
(* PH2 create *)

(* mutant: the directory is looked for first and then created if need be *)
ReuseDir(c) ==
  LET me == creator[c] IN
  /\ me.pc = 1
  /\ arts' = [n \in Dirs \cup {me.name} |-> IF n \in Dirs THEN arts[n] ELSE NoFiles]
  /\ creator' = [creator EXCEPT ![c].pc = 2]
  /\ UNCHANGED <<complete, analyzer, results, cases, ingester>>

(* mkdir of one candidate: the next suffix if it exists *)
MakeDir(c) ==
  LET me == creator[c] IN
  /\ me.pc = 1
  /\ \/ /\ me.name \in Dirs /\ me.name[2] < MaxSuffix
        /\ creator' = [creator EXCEPT ![c].name[2] = @ + 1]
        /\ UNCHANGED arts
     \/ /\ me.name \notin Dirs
        /\ arts' = [n \in Dirs \cup {me.name} |-> IF n = me.name THEN NoFiles ELSE arts[n]]
        /\ creator' = [creator EXCEPT ![c].pc = 2]
  /\ UNCHANGED <<complete, analyzer, results, cases, ingester>>

BeginCreate(c, input) ==
  /\ creator[c].pc = 0
  /\ creator' = [creator EXCEPT ![c] = [pc |-> 1, input |-> input, name |-> <<input.scenario, 0>>]]
  /\ UNCHANGED <<arts, complete, analyzer, results, cases, ingester>>

(* two steps per file: open, which truncates, and write *)
WriteFile(c) ==
  LET me == creator[c]
      file == ArtifactFiles[me.pc \div 2]
      content == IF me.pc % 2 = 0 THEN Torn ELSE ContentOf(file, me.input)
  IN
  /\ me.pc \in 2 .. 2 * Len(ArtifactFiles) + 1
  /\ arts' = [arts EXCEPT ![me.name][file] = content]
  /\ creator' = [creator EXCEPT ![c].pc = @ + 1]
  /\ complete' = IF me.pc = 2 * Len(ArtifactFiles) + 1 THEN complete \cup {me.name} ELSE complete
  /\ UNCHANGED <<analyzer, results, cases, ingester>>

(* a creator that dies leaves what it has written *)
CreatorDies(c) ==
  /\ creator[c].pc \in 1 .. 2 * Len(ArtifactFiles) + 1
  /\ creator' = [creator EXCEPT ![c].pc = 99]
  /\ UNCHANGED <<arts, complete, analyzer, results, cases, ingester>>

-----------------------------------------------------------------------------
(* PH3 analyze: the files are read one after the other *)

AnalyzerGoes(a, changes) ==
  /\ analyzer' = [analyzer EXCEPT ![a] = changes]
  /\ UNCHANGED <<arts, complete, creator, cases, ingester>>

SelectIncident(a) ==
  /\ analyzer[a].pc = "idle" /\ Dirs # {}
  /\ \E n \in Dirs :   \* the latest, or the one that is named
       AnalyzerGoes(a, [analyzer[a] EXCEPT !.pc = "manifest", !.name = n,
                                           !.settled = n \in complete])
  /\ UNCHANGED results

ReadManifest(a) ==
  LET me == analyzer[a] IN
  /\ me.pc = "manifest"
  /\ AnalyzerGoes(a, [me EXCEPT !.pc = "write_state",
       !.ctx = [manifest |-> ReadJsonOrEmpty(arts[me.name]["manifest"], NoManifest)]])
  /\ UNCHANGED results

ReadWriteState(a) ==
  LET me == analyzer[a] IN
  /\ me.pc = "write_state"
  /\ AnalyzerGoes(a, [me EXCEPT !.pc = "consistency",
       !.ctx = [manifest |-> me.ctx.manifest,
                write_state |-> ReadJsonOrEmpty(arts[me.name]["write-suspend-state"], NoWriteState)]])
  /\ UNCHANGED results

ReadConsistency(a) ==
  LET me == analyzer[a] IN
  /\ me.pc = "consistency"
  /\ AnalyzerGoes(a, [me EXCEPT !.pc = "validate",
       !.ctx = [manifest |-> me.ctx.manifest, write_state |-> me.ctx.write_state,
                consistency |-> ReadJsonOrEmpty(arts[me.name]["consistency-summary"], NoSummary)]])
  /\ UNCHANGED results

(* validate_artifact reads everything once more, and the files are counted *)
Validate(a) ==
  LET me == analyzer[a]  art == arts[me.name] IN
  /\ me.pc = "validate"
  /\ AnalyzerGoes(a, [me EXCEPT !.pc = "open",
       !.ctx = [manifest |-> me.ctx.manifest, write_state |-> me.ctx.write_state,
                consistency |-> me.ctx.consistency,
                finding |-> SensitiveFinding(art), missing |-> MissingEvidence(art)]])
  /\ UNCHANGED results

OpenResult(a) ==
  /\ analyzer[a].pc = "open"
  /\ AnalyzerGoes(a, [analyzer[a] EXCEPT !.pc = "write", !.class = SelectRule(analyzer[a].ctx)])
  /\ results' = [results EXCEPT ![analyzer[a].name] = Torn]

WriteResult(a) ==
  /\ analyzer[a].pc = "write"
  /\ AnalyzerGoes(a, [analyzer[a] EXCEPT !.pc = "done"])
  /\ results' = [results EXCEPT ![analyzer[a].name] = analyzer[a].class]

-----------------------------------------------------------------------------
(* PH4 create-from-analysis; RecoveryCases has its races on the database *)

(* mutant: the key names the analysis, not the incident *)
CaseKeyPerRun(n, class, i) == <<"incident", n, class, i>>

CaseKey(n, class, i) == AnalysisPlan(n, class, FALSE)[1].key

Ingest(i, n) ==
  /\ ingester[i] = "idle"
  /\ \/ /\ results[n] \in {Absent, Torn}
        /\ ingester' = [ingester EXCEPT ![i] = "unreadable"]
        /\ UNCHANGED cases
     \/ /\ results[n] \notin {Absent, Torn}
        /\ AnalysisPlan(n, results[n], FALSE) = <<>>
        /\ ingester' = [ingester EXCEPT ![i] = "refused"]
        /\ UNCHANGED cases
     \/ /\ results[n] \notin {Absent, Torn}
        /\ AnalysisPlan(n, results[n], FALSE) # <<>>
        /\ ingester' = [ingester EXCEPT ![i] = "created"]
        /\ cases' = cases \cup {CaseKey(n, results[n], i)}
  /\ UNCHANGED <<arts, complete, creator, analyzer, results>>

Next ==
  \/ \E c \in Creators :
       \/ \E input \in Inputs : BeginCreate(c, input)
       \/ MakeDir(c) \/ WriteFile(c) \/ CreatorDies(c)
  \/ \E a \in Analyzers :
       \/ SelectIncident(a) \/ ReadManifest(a) \/ ReadWriteState(a) \/ ReadConsistency(a)
       \/ Validate(a) \/ OpenResult(a) \/ WriteResult(a)
  \/ \E i \in Ingesters, n \in Dirs : Ingest(i, n)

Spec == Init /\ [][Next]_vars

-----------------------------------------------------------------------------
(* What holds *)

(* what an analysis would conclude that read the whole artifact in one step *)
ManifestOf(art) == ReadJsonOrEmpty(art["manifest"], NoManifest)
WriteStateOf(art) == ReadJsonOrEmpty(art["write-suspend-state"], NoWriteState)
SummaryOf(art) == ReadJsonOrEmpty(art["consistency-summary"], NoSummary)

ContextOf(art) ==
  [manifest |-> ManifestOf(art), write_state |-> WriteStateOf(art),
   consistency |-> SummaryOf(art),
   finding |-> SensitiveFinding(art), missing |-> MissingEvidence(art)]

ClassOf(art) == SelectRule(ContextOf(art))

AllSettled(n) == \A a \in Analyzers : analyzer[a].name = n => analyzer[a].settled

(* analyze_incident reads four times and writes at the end, without a lock.   *)
(* An analysis that began after the artifact was complete concludes what it   *)
(* would have concluded from one read of the artifact as it is now, whatever  *)
(* other creators and analyzers do meanwhile; and where all analyses began so *)
(* late, none leaves a result that is older than the artifact.                *)
SettledAnalysisIsAtomic ==
  /\ \A a \in Analyzers :
       analyzer[a].settled /\ analyzer[a].class # Nothing =>
         analyzer[a].class = ClassOf(arts[analyzer[a].name])
  /\ \A n \in Dirs :
       AllSettled(n) => results[n] \in {Absent, Torn, ClassOf(arts[n])}

(* create_from_analyzer_result: however often an incident is analysed and its *)
(* result ingested, it has one case, provided no analysis began too early.    *)
OneCasePerSettledIncident ==
  \A n \in Dirs :
    AllSettled(n) => Cardinality({k \in cases : k[2] = n}) <= 1

=============================================================================

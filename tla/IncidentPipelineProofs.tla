----------------------- MODULE IncidentPipelineProofs -----------------------
(***************************************************************************)
(* An analysis that began after its artifact was complete is right, and    *)
(* leads to one case, for any number of creators, analyzers and ingesters  *)
(* and any artifacts found at the start.                                   *)
(*                                                                         *)
(* A directory belongs to the one creator that made it, so nobody writes   *)
(* to a complete artifact: what a settled analyzer reads in several steps  *)
(* is what it would have read at once.                                     *)
(***************************************************************************)
EXTENDS IncidentPipeline, FiniteSetTheorems, TLAPS

-----------------------------------------------------------------------------
(* The inductive invariant *)

(* a creator at work has a directory of its own, which is not complete *)
Writing(c) == creator[c].pc \in 2 .. 15

CreatorOK(c) ==
  /\ DOMAIN creator[c] = {"pc", "input", "name"}
  /\ creator[c].pc \in Nat
  /\ creator[c].pc \in 1 .. 15 => creator[c].input \in Inputs /\ creator[c].name \in Names
  /\ Writing(c) => creator[c].name \in Dirs \ complete

(* what a settled analysis has read so far is what the artifact says *)
ReadOK(pc, ctx, class, art) ==
  /\ pc \in {"write_state", "consistency", "validate"} => ctx.manifest = ManifestOf(art)
  /\ pc \in {"consistency", "validate"} => ctx.write_state = WriteStateOf(art)
  /\ pc = "validate" => ctx.consistency = SummaryOf(art)
  /\ pc = "open" => ctx = ContextOf(art)
  /\ class # Nothing => class = ClassOf(art)

AnalysisFields == {"pc", "name", "ctx", "settled", "class"}

AnalyzerOK(a) ==
  LET me == analyzer[a] IN
  /\ DOMAIN me = AnalysisFields
  /\ me.settled \in BOOLEAN
  /\ me.pc # "idle" => me.name \in Dirs
  /\ me.class = Nothing <=> me.pc \notin {"write", "done"}
  /\ me.settled => /\ me.name \in complete
                   /\ ReadOK(me.pc, me.ctx, me.class, arts[me.name])

(* some analysis of n has come to class *)
Concluded(n, class) ==
  \E a \in Analyzers :
    analyzer[a].name = n /\ analyzer[a].class = class /\ class # Nothing

ArtifactsOK ==
  /\ arts = [n \in Dirs |-> arts[n]] /\ Dirs \subseteq Names /\ complete \subseteq Dirs
  /\ \A n \in Dirs : arts[n] = [f \in FileNames |-> arts[n][f]]
  /\ creator = [c \in Creators |-> creator[c]]
  /\ \A c \in Creators : CreatorOK(c)
  /\ \A c, d \in Creators :
       Writing(c) /\ Writing(d) /\ creator[c].name = creator[d].name => c = d

IncidentInv ==
  /\ ArtifactsOK
  /\ analyzer = [a \in Analyzers |-> analyzer[a]]
  /\ \A a \in Analyzers : AnalyzerOK(a)
  /\ results = [n \in Names |-> results[n]]
  /\ \A n \in Names : results[n] \notin {Absent, Torn} => Concluded(n, results[n])
  /\ \A k \in cases : \E a \in Analyzers :
       analyzer[a].class # Nothing /\ k = <<"incident", analyzer[a].name, analyzer[a].class>>

-----------------------------------------------------------------------------
(* The rules *)

(* There are seven files (create_artifact) *)
LEMMA Files == Len(ArtifactFiles) = 7
  BY DEF ArtifactFiles

(* analyze_incident names one of six classifications *)
LEMMA RuleIsNamed ==
  ASSUME NEW ctx PROVE SelectRule(ctx) # Nothing
<1>1. SelectRule(ctx) \in Classification
  BY DEF SelectRule, Classification
<1> QED
  BY Zenon, <1>1, IncidentAssumptions

-----------------------------------------------------------------------------
(* What a step leaves alone *)

(* A step that leaves the creators and their artifacts alone *)
LEMMA ArtifactsStay ==
  ASSUME ArtifactsOK, UNCHANGED <<arts, complete, creator>>
  PROVE  ArtifactsOK'
<1>1. Dirs' = Dirs
  BY Zenon DEF Dirs
<1>2. \A c \in Creators : Writing(c)' = Writing(c)
  BY Zenon DEF Writing
<1>3. \A c \in Creators : CreatorOK(c)'
  BY Zenon, <1>1, <1>2 DEF ArtifactsOK, CreatorOK
<1> QED
  BY Zenon, <1>1, <1>2, <1>3 DEF ArtifactsOK

(* A step of a creator that writes to no complete artifact leaves analyses,   *)
(* results and cases right                                                    *)
LEMMA EvidenceStays ==
  ASSUME IncidentInv, UNCHANGED <<analyzer, results, cases>>,
         Dirs \subseteq Dirs', complete \subseteq complete',
         \A n \in complete : arts'[n] = arts[n]
  PROVE  /\ (analyzer = [a \in Analyzers |-> analyzer[a]])'
         /\ \A a \in Analyzers : AnalyzerOK(a)'
         /\ (results = [n \in Names |-> results[n]])'
         /\ \A n \in Names : results'[n] \notin {Absent, Torn} => Concluded(n, results[n])'
         /\ \A k \in cases' : \E a \in Analyzers :
              /\ analyzer'[a].class # Nothing
              /\ k = <<"incident", analyzer'[a].name, analyzer'[a].class>>
<1>1. ASSUME NEW a \in Analyzers PROVE AnalyzerOK(a)'
  <2>1. AnalyzerOK(a)
    BY Zenon DEF IncidentInv
  <2> QED
    BY Zenon, <2>1 DEF AnalyzerOK
<1>2. \A n \in Names : results'[n] \notin {Absent, Torn} => Concluded(n, results[n])'
  BY Zenon DEF IncidentInv, Concluded
<1> QED
  BY Zenon, <1>1, <1>2 DEF IncidentInv

(* A step of an analyzer leaves the artifacts, the creators and the other     *)
(* analyzers alone; what it had concluded it still has                        *)
LEMMA AnalyzerStep ==
  ASSUME IncidentInv, NEW a \in Analyzers, NEW me, AnalyzerGoes(a, me),
         AnalyzerOK(a)', analyzer[a].class # Nothing =>
           me.name = analyzer[a].name /\ me.class = analyzer[a].class,
         \/ UNCHANGED results
         \/ \E v : /\ results' = [results EXCEPT ![me.name] = v]
                   /\ v \in {Absent, Torn} \/ (v = me.class /\ me.class # Nothing)
  PROVE  IncidentInv'
<1>1. /\ analyzer'[a] = me /\ \A b \in Analyzers : b # a => analyzer'[b] = analyzer[b]
      /\ UNCHANGED <<arts, complete, creator, cases>>
      /\ analyzer' = [b \in Analyzers |-> analyzer'[b]]
  BY Zenon DEF IncidentInv, AnalyzerGoes
<1>2. \A b \in Analyzers : AnalyzerOK(b)'
  <2> SUFFICES ASSUME NEW b \in Analyzers, b # a PROVE AnalyzerOK(b)'
    OBVIOUS
  <2>1. AnalyzerOK(b) /\ analyzer'[b] = analyzer[b]
    BY Zenon, <1>1 DEF IncidentInv
  <2> QED
    BY Zenon, <1>1, <2>1 DEF AnalyzerOK, Dirs
<1>3. ASSUME NEW n, NEW class, Concluded(n, class) PROVE Concluded(n, class)'
  <2>1. PICK b \in Analyzers :
           analyzer[b].name = n /\ analyzer[b].class = class /\ class # Nothing
    BY Zenon, <1>3 DEF Concluded
  <2>2. analyzer'[b].name = n /\ analyzer'[b].class = class
    BY Zenon, <1>1, <2>1
  <2> QED
    BY Zenon, <2>1, <2>2 DEF Concluded
<1>4. /\ results' = [n \in Names |-> results'[n]]
      /\ \A n \in Names : results'[n] \notin {Absent, Torn} => Concluded(n, results[n])'
  <2>1. CASE UNCHANGED results
    BY Zenon, <1>3, <2>1 DEF IncidentInv
  <2>2. CASE \E v : /\ results' = [results EXCEPT ![me.name] = v]
                    /\ v \in {Absent, Torn} \/ (v = me.class /\ me.class # Nothing)
    <3>1. PICK v : /\ results' = [results EXCEPT ![me.name] = v]
                   /\ v \in {Absent, Torn} \/ (v = me.class /\ me.class # Nothing)
      BY <2>2
    <3>2. ASSUME NEW n \in Names, results'[n] \notin {Absent, Torn}
          PROVE  Concluded(n, results[n])'
      <4>1. CASE n = me.name
        <5>1. results'[n] = me.class /\ me.class # Nothing
          BY Zenon, <3>1, <3>2, <4>1 DEF IncidentInv
        <5> QED
          BY Zenon, <1>1, <4>1, <5>1 DEF Concluded
      <4>2. CASE n # me.name
        <5>1. results'[n] = results[n]
          BY Zenon, <3>1, <4>2 DEF IncidentInv
        <5> QED
          BY Zenon, <1>3, <3>2, <5>1 DEF IncidentInv
      <4> QED
        BY <4>1, <4>2
    <3> QED
      BY Zenon, <3>1, <3>2 DEF IncidentInv
  <2> QED
    BY <2>1, <2>2
<1>5. \A k \in cases' : \E b \in Analyzers :
        /\ analyzer'[b].class # Nothing
        /\ k = <<"incident", analyzer'[b].name, analyzer'[b].class>>
  <2> SUFFICES ASSUME NEW k \in cases
               PROVE  \E b \in Analyzers :
                        /\ analyzer'[b].class # Nothing
                        /\ k = <<"incident", analyzer'[b].name, analyzer'[b].class>>
    BY Zenon, <1>1
  <2>1. PICK b \in Analyzers : /\ analyzer[b].class # Nothing
                               /\ k = <<"incident", analyzer[b].name, analyzer[b].class>>
    BY Zenon DEF IncidentInv
  <2>2. analyzer'[b].name = analyzer[b].name /\ analyzer'[b].class = analyzer[b].class
    BY Zenon, <1>1, <2>1
  <2> QED
    BY Zenon, <2>1, <2>2
<1>6. ArtifactsOK'
  BY <1>1 DEF IncidentInv, ArtifactsOK, CreatorOK, Writing, Dirs
<1> QED
  BY Zenon, <1>1, <1>2, <1>4, <1>5, <1>6 DEF IncidentInv

-----------------------------------------------------------------------------
(* analyze *)

(* An analysis with its state and what it knows replaced *)
Moved(old, me, pc, ctx, class) ==
  /\ DOMAIN me = AnalysisFields
  /\ me.pc = pc /\ me.name = old.name /\ me.ctx = ctx /\ me.settled = old.settled
  /\ me.class = class

(* What EXCEPT does to the state of an analysis *)
LEMMA Replaced ==
  ASSUME NEW old, DOMAIN old = AnalysisFields, NEW pc, NEW x
  PROVE  /\ Moved(old, [old EXCEPT !.pc = pc], pc, old.ctx, old.class)
         /\ Moved(old, [old EXCEPT !.pc = pc, !.ctx = x], pc, x, old.class)
         /\ Moved(old, [old EXCEPT !.pc = pc, !.class = x], pc, old.ctx, x)
<1>1. Moved(old, [old EXCEPT !.pc = pc], pc, old.ctx, old.class)
  BY DEF Moved, AnalysisFields
<1>2. Moved(old, [old EXCEPT !.pc = pc, !.ctx = x], pc, x, old.class)
  BY DEF Moved, AnalysisFields
<1>3. Moved(old, [old EXCEPT !.pc = pc, !.class = x], pc, old.ctx, x)
  BY DEF Moved, AnalysisFields
<1> QED
  BY <1>1, <1>2, <1>3

(* _select_incident_dir: whether the artifact is complete is known from now on *)
LEMMA SelectIncidentInv ==
  ASSUME IncidentInv, NEW a \in Analyzers, SelectIncident(a)
  PROVE  IncidentInv'
<1>1. PICK n \in Dirs :
        AnalyzerGoes(a, [analyzer[a] EXCEPT !.pc = "manifest", !.name = n,
                                            !.settled = n \in complete])
  BY Zenon DEF SelectIncident
<1> DEFINE me == [analyzer[a] EXCEPT !.pc = "manifest", !.name = n, !.settled = n \in complete]
<1>2. AnalyzerOK(a) /\ analyzer[a].pc = "idle" /\ analyzer[a].class = Nothing
  <2>1. AnalyzerOK(a) /\ analyzer[a].pc = "idle"
    BY Zenon DEF IncidentInv, SelectIncident
  <2> QED
    BY <2>1 DEF AnalyzerOK
<1>4. /\ DOMAIN me = AnalysisFields /\ me.pc = "manifest" /\ me.name = n
      /\ me.settled = (n \in complete) /\ me.class = Nothing
  BY <1>2 DEF AnalyzerOK, AnalysisFields
<1> HIDE DEF me
<1>5. analyzer'[a] = me /\ UNCHANGED <<arts, complete>>
  BY Zenon, <1>1 DEF AnalyzerGoes, IncidentInv, me
<1>6. ReadOK(me.pc, me.ctx, me.class, arts[n])
  BY <1>4 DEF ReadOK
<1>7. me.pc \notin {"write", "done"} /\ me.settled \in BOOLEAN
  BY <1>4
<1>8. AnalyzerOK(a)'
  BY Zenon, <1>4, <1>5, <1>6, <1>7 DEF AnalyzerOK, Dirs
<1> QED
  BY Zenon, <1>1, <1>2, <1>8, AnalyzerStep DEF SelectIncident, me

(* An analysis goes on *)
LEMMA AnalysisGoesOn ==
  ASSUME IncidentInv, NEW a \in Analyzers, analyzer[a].pc # "idle",
         NEW pc, NEW ctx, NEW class, NEW me, AnalyzerGoes(a, me),
         Moved(analyzer[a], me, pc, ctx, class),
         class = Nothing <=> pc \notin {"write", "done"},
         analyzer[a].class # Nothing => class = analyzer[a].class,
         analyzer[a].settled => ReadOK(pc, ctx, class, arts[analyzer[a].name]),
         \/ UNCHANGED results
         \/ \E v : /\ results' = [results EXCEPT ![analyzer[a].name] = v]
                   /\ v \in {Absent, Torn} \/ (v = class /\ class # Nothing)
  PROVE  IncidentInv'
<1>1. AnalyzerOK(a)
  BY Zenon DEF IncidentInv
<1>3. analyzer'[a] = me /\ UNCHANGED <<arts, complete>>
  BY Zenon DEF AnalyzerGoes, IncidentInv
<1>4. AnalyzerOK(a)'
  BY Zenon, <1>1, <1>3 DEF AnalyzerOK, Moved, Dirs
<1> QED
  BY Zenon, <1>4, AnalyzerStep DEF Moved

(* _read_json_or_empty of manifest.json *)
LEMMA ReadManifestInv ==
  ASSUME IncidentInv, NEW a \in Analyzers, ReadManifest(a)
  PROVE  IncidentInv'
<1> DEFINE old == analyzer[a]
           ctx == [manifest |-> ManifestOf(arts[old.name])]
           me == [old EXCEPT !.pc = "write_state", !.ctx = ctx]
<1>1. AnalyzerGoes(a, me) /\ UNCHANGED results /\ old.pc = "manifest" /\ AnalyzerOK(a)
  BY Zenon DEF ReadManifest, ManifestOf, IncidentInv
<1>2. old.class = Nothing /\ old.pc # "idle"
  BY <1>1 DEF AnalyzerOK
<1>3. Moved(old, me, "write_state", ctx, Nothing)
  BY Zenon, <1>1, <1>2, Replaced DEF AnalyzerOK
<1>4. ReadOK("write_state", ctx, Nothing, arts[old.name])
  BY DEF ReadOK
<1>p. "write_state" \notin {"write", "done"}
  OBVIOUS
<1> HIDE DEF me, ctx
<1> QED
  BY Zenon, <1>1, <1>2, <1>3, <1>4, <1>p, AnalysisGoesOn

(* _read_json_or_empty of write-suspend-state.json *)
LEMMA ReadWriteStateInv ==
  ASSUME IncidentInv, NEW a \in Analyzers, ReadWriteState(a)
  PROVE  IncidentInv'
<1> DEFINE old == analyzer[a]
           ctx == [manifest |-> old.ctx.manifest, write_state |-> WriteStateOf(arts[old.name])]
           me == [old EXCEPT !.pc = "consistency", !.ctx = ctx]
<1>1. AnalyzerGoes(a, me) /\ UNCHANGED results /\ old.pc = "write_state" /\ AnalyzerOK(a)
  BY Zenon DEF ReadWriteState, WriteStateOf, IncidentInv
<1>2. old.class = Nothing /\ old.pc # "idle"
  BY <1>1 DEF AnalyzerOK
<1>3. Moved(old, me, "consistency", ctx, Nothing)
  BY Zenon, <1>1, <1>2, Replaced DEF AnalyzerOK
<1>4. old.settled => ReadOK("consistency", ctx, Nothing, arts[old.name])
  BY <1>1 DEF AnalyzerOK, ReadOK
<1>p. "consistency" \notin {"write", "done"}
  OBVIOUS
<1> HIDE DEF me, ctx
<1> QED
  BY Zenon, <1>1, <1>2, <1>3, <1>4, <1>p, AnalysisGoesOn

(* _read_json_or_empty of consistency-summary.json *)
LEMMA ReadConsistencyInv ==
  ASSUME IncidentInv, NEW a \in Analyzers, ReadConsistency(a)
  PROVE  IncidentInv'
<1> DEFINE old == analyzer[a]
           ctx == [manifest |-> old.ctx.manifest, write_state |-> old.ctx.write_state,
                   consistency |-> SummaryOf(arts[old.name])]
           me == [old EXCEPT !.pc = "validate", !.ctx = ctx]
<1>1. AnalyzerGoes(a, me) /\ UNCHANGED results /\ old.pc = "consistency" /\ AnalyzerOK(a)
  BY Zenon DEF ReadConsistency, SummaryOf, IncidentInv
<1>2. old.class = Nothing /\ old.pc # "idle"
  BY <1>1 DEF AnalyzerOK
<1>3. Moved(old, me, "validate", ctx, Nothing)
  BY Zenon, <1>1, <1>2, Replaced DEF AnalyzerOK
<1>4. old.settled => ReadOK("validate", ctx, Nothing, arts[old.name])
  BY <1>1 DEF AnalyzerOK, ReadOK
<1>p. "validate" \notin {"write", "done"}
  OBVIOUS
<1> HIDE DEF me, ctx
<1> QED
  BY Zenon, <1>1, <1>2, <1>3, <1>4, <1>p, AnalysisGoesOn

(* validate_artifact and _missing_evidence_count *)
LEMMA ValidateInv ==
  ASSUME IncidentInv, NEW a \in Analyzers, Validate(a)
  PROVE  IncidentInv'
<1> DEFINE old == analyzer[a]
           art == arts[old.name]
           ctx == [manifest |-> old.ctx.manifest, write_state |-> old.ctx.write_state,
                   consistency |-> old.ctx.consistency,
                   finding |-> SensitiveFinding(art), missing |-> MissingEvidence(art)]
           me == [old EXCEPT !.pc = "open", !.ctx = ctx]
<1>1. AnalyzerGoes(a, me) /\ UNCHANGED results /\ old.pc = "validate" /\ AnalyzerOK(a)
  BY Zenon DEF Validate, IncidentInv
<1>2. old.class = Nothing /\ old.pc # "idle"
  BY <1>1 DEF AnalyzerOK
<1>3. Moved(old, me, "open", ctx, Nothing)
  BY Zenon, <1>1, <1>2, Replaced DEF AnalyzerOK
<1>4. old.settled => ctx = ContextOf(art)
  BY <1>1 DEF AnalyzerOK, ReadOK, ContextOf
<1>5. old.settled => ReadOK("open", ctx, Nothing, art)
  BY <1>4 DEF ReadOK
<1>p. "open" \notin {"write", "done"}
  OBVIOUS
<1> HIDE DEF me, ctx
<1> QED
  BY Zenon, <1>1, <1>2, <1>3, <1>5, <1>p, AnalysisGoesOn

(* _select_rule, and the result file is opened *)
LEMMA OpenResultInv ==
  ASSUME IncidentInv, NEW a \in Analyzers, OpenResult(a)
  PROVE  IncidentInv'
<1> DEFINE old == analyzer[a]
           class == SelectRule(old.ctx)
           me == [old EXCEPT !.pc = "write", !.class = class]
<1>1. /\ AnalyzerGoes(a, me) /\ results' = [results EXCEPT ![old.name] = Torn]
      /\ old.pc = "open" /\ AnalyzerOK(a)
  BY Zenon DEF OpenResult, IncidentInv
<1>2. old.class = Nothing /\ old.pc # "idle"
  BY <1>1 DEF AnalyzerOK
<1>3. Moved(old, me, "write", old.ctx, class)
  BY Zenon, <1>1, <1>2, Replaced DEF AnalyzerOK
<1>4. class # Nothing
  BY Zenon, RuleIsNamed
<1>5. old.settled => class = ClassOf(arts[old.name])
  BY <1>1 DEF AnalyzerOK, ReadOK, ClassOf
<1> HIDE DEF me, class
<1>6. old.settled => ReadOK("write", old.ctx, class, arts[old.name])
  BY <1>5 DEF ReadOK
<1>7. "write" \in {"write", "done"}
  OBVIOUS
<1> QED
  BY Zenon, <1>1, <1>2, <1>3, <1>4, <1>6, <1>7, AnalysisGoesOn

(* analyzer-result.json is written *)
LEMMA WriteResultInv ==
  ASSUME IncidentInv, NEW a \in Analyzers, WriteResult(a)
  PROVE  IncidentInv'
<1> DEFINE old == analyzer[a]
           me == [old EXCEPT !.pc = "done"]
<1>1. /\ AnalyzerGoes(a, me) /\ results' = [results EXCEPT ![old.name] = old.class]
      /\ old.pc = "write" /\ AnalyzerOK(a)
  BY Zenon DEF WriteResult, IncidentInv
<1>2. old.class # Nothing /\ old.pc # "idle"
  BY <1>1 DEF AnalyzerOK
<1>3. Moved(old, me, "done", old.ctx, old.class)
  BY Zenon, <1>1, Replaced DEF AnalyzerOK
<1>4. old.settled => ReadOK("done", old.ctx, old.class, arts[old.name])
  BY <1>1 DEF AnalyzerOK, ReadOK
<1> HIDE DEF me
<1>5. "done" \in {"write", "done"}
  OBVIOUS
<1> QED
  BY Zenon, <1>1, <1>2, <1>3, <1>4, <1>5, AnalysisGoesOn

-----------------------------------------------------------------------------
(* create *)

(* A creator's step that makes it no writer *)
LEMMA CreatorStep ==
  ASSUME IncidentInv, NEW c \in Creators, NEW me, creator' = [creator EXCEPT ![c] = me],
         DOMAIN me = {"pc", "input", "name"}, me.pc \in Nat \ (2 .. 15),
         me.pc \in 1 .. 15 => me.input \in Inputs /\ me.name \in Names,
         UNCHANGED <<arts, complete, analyzer, results, cases>>
  PROVE  IncidentInv'
<1>1. /\ creator'[c] = me /\ \A d \in Creators : d # c => creator'[d] = creator[d]
      /\ creator' = [d \in Creators |-> creator'[d]]
  BY Zenon DEF IncidentInv, ArtifactsOK
<1>2. ~Writing(c)' /\ \A d \in Creators : Writing(d)' => Writing(d) /\ d # c
  BY Zenon, <1>1 DEF Writing
<1>3. CreatorOK(c)'
  BY Zenon, <1>1, <1>2 DEF CreatorOK
<1>4. ASSUME NEW d \in Creators, d # c PROVE CreatorOK(d)'
  BY Zenon, <1>1, <1>4 DEF IncidentInv, ArtifactsOK, CreatorOK, Writing, Dirs
<1>5. ASSUME NEW d \in Creators, NEW e \in Creators, Writing(d)', Writing(e)',
             creator'[d].name = creator'[e].name
      PROVE  d = e
  BY Zenon, <1>1, <1>2, <1>5 DEF IncidentInv, ArtifactsOK
<1>6. ArtifactsOK'
  <2>1. \A d \in Creators : CreatorOK(d)'
    BY Zenon, <1>3, <1>4
  <2>2. \A d, e \in Creators :
           Writing(d)' /\ Writing(e)' /\ creator'[d].name = creator'[e].name => d = e
    BY Zenon, <1>5
  <2>3. Dirs' = Dirs /\ arts' = arts /\ complete' = complete
    BY Zenon DEF Dirs
  <2>4. /\ arts = [n \in Dirs |-> arts[n]] /\ Dirs \subseteq Names /\ complete \subseteq Dirs
        /\ \A n \in Dirs : arts[n] = [f \in FileNames |-> arts[n][f]]
    BY Zenon DEF IncidentInv, ArtifactsOK
  <2>5. /\ arts' = [n \in Dirs' |-> arts'[n]] /\ Dirs' \subseteq Names /\ complete' \subseteq Dirs'
        /\ \A n \in Dirs' : arts'[n] = [f \in FileNames |-> arts'[n][f]]
    BY Zenon, <2>3, <2>4
  <2>6. creator' = [d \in Creators |-> creator'[d]]
    BY Zenon, <1>1
  <2> QED
    BY Zenon, <2>1, <2>2, <2>5, <2>6 DEF ArtifactsOK
<1> QED
  BY Zenon, <1>6, EvidenceStays DEF IncidentInv, Dirs

(* _create_incident_dir chooses a first name *)
LEMMA BeginCreateInv ==
  ASSUME IncidentInv, NEW c \in Creators, NEW input \in Inputs, BeginCreate(c, input)
  PROVE  IncidentInv'
<1> DEFINE me == [pc |-> 1, input |-> input, name |-> <<input.scenario, 0>>]
<1>1. creator' = [creator EXCEPT ![c] = me] /\ UNCHANGED <<arts, complete, analyzer, results, cases>>
  BY Zenon DEF BeginCreate
<1>2. /\ DOMAIN me = {"pc", "input", "name"} /\ me.pc \in Nat \ (2 .. 15)
      /\ me.input \in Inputs /\ me.name \in Names
  BY IncidentAssumptions DEF Names
<1> HIDE DEF me
<1> QED
  BY Zenon, <1>1, <1>2, CreatorStep

(* A creator that dies writes no more *)
LEMMA CreatorDiesInv ==
  ASSUME IncidentInv, NEW c \in Creators, CreatorDies(c)
  PROVE  IncidentInv'
<1> DEFINE me == [creator[c] EXCEPT !.pc = 99]
<1>1. creator' = [creator EXCEPT ![c] = me] /\ UNCHANGED <<arts, complete, analyzer, results, cases>>
  BY Zenon DEF CreatorDies
<1>2. DOMAIN me = {"pc", "input", "name"} /\ me.pc \in Nat \ (2 .. 15) /\ me.pc \notin 1 .. 15
  BY DEF IncidentInv, ArtifactsOK, CreatorOK
<1> HIDE DEF me
<1> QED
  BY Zenon, <1>1, <1>2, CreatorStep

(* mkdir succeeds for one creator only: the directory is its own *)
LEMMA MakeDirInv ==
  ASSUME IncidentInv, NEW c \in Creators, MakeDir(c)
  PROVE  IncidentInv'
<1>1. /\ CreatorOK(c) /\ creator[c].pc = 1 /\ creator[c].name \in Names
      /\ creator[c].input \in Inputs /\ DOMAIN creator[c] = {"pc", "input", "name"}
  BY DEF IncidentInv, ArtifactsOK, CreatorOK, MakeDir
<1>2. UNCHANGED <<complete, analyzer, results, cases>>
  BY Zenon DEF MakeDir
<1>3. CASE /\ creator[c].name[2] < MaxSuffix
           /\ creator' = [creator EXCEPT ![c].name[2] = @ + 1]
           /\ UNCHANGED arts
  <2> DEFINE next == [creator[c].name EXCEPT ![2] = @ + 1]
             me == [creator[c] EXCEPT !.name = next]
  <2>1. creator' = [creator EXCEPT ![c] = me]
    BY Zenon, <1>3
  <2>2. next \in Names
    BY <1>1, <1>3, IncidentAssumptions DEF Names
  <2> HIDE DEF next
  <2>3. /\ DOMAIN me = {"pc", "input", "name"} /\ me.pc \in Nat \ (2 .. 15)
        /\ me.input \in Inputs /\ me.name \in Names
    BY <1>1, <2>2
  <2> HIDE DEF me
  <2> QED
    BY Zenon, <1>2, <1>3, <2>1, <2>3, CreatorStep
<1>4. CASE /\ creator[c].name \notin Dirs
           /\ arts' = [n \in Dirs \cup {creator[c].name} |->
                         IF n = creator[c].name THEN NoFiles ELSE arts[n]]
           /\ creator' = [creator EXCEPT ![c].pc = 2]
  <2> DEFINE name == creator[c].name
  <2>1. /\ Dirs' = Dirs \cup {name} /\ arts'[name] = NoFiles
        /\ \A n \in Dirs : arts'[n] = arts[n]
        /\ arts' = [n \in Dirs' |-> arts'[n]]
    BY Zenon, <1>4 DEF Dirs
  <2>2. /\ creator' = [d \in Creators |-> creator'[d]]
        /\ creator'[c] = [creator[c] EXCEPT !.pc = 2]
        /\ \A d \in Creators : d # c => creator'[d] = creator[d]
    BY Zenon, <1>4 DEF IncidentInv, ArtifactsOK
  <2>3. /\ DOMAIN creator'[c] = {"pc", "input", "name"} /\ creator'[c].pc = 2
        /\ creator'[c].name = name /\ creator'[c].input = creator[c].input
    BY <1>1, <2>2
  <2>4. name \notin complete /\ complete \subseteq Dirs
    BY Zenon, <1>4 DEF IncidentInv, ArtifactsOK
  <2>5. CreatorOK(c)'
    BY <1>1, <1>2, <2>1, <2>3, <2>4 DEF CreatorOK
  <2>6. ASSUME NEW d \in Creators, d # c
        PROVE  /\ CreatorOK(d)' /\ Writing(d)' = Writing(d) /\ creator'[d] = creator[d]
               /\ Writing(d) => creator[d].name \in Dirs
    BY Zenon, <1>2, <2>1, <2>2, <2>6 DEF IncidentInv, ArtifactsOK, CreatorOK, Writing
  <2>7. ASSUME NEW d \in Creators, NEW e \in Creators, Writing(d)', Writing(e)',
               creator'[d].name = creator'[e].name
        PROVE  d = e
    <3>1. CASE d = c
      BY Zenon, <1>4, <2>3, <2>6, <2>7, <3>1
    <3>2. CASE e = c
      BY Zenon, <1>4, <2>3, <2>6, <2>7, <3>2
    <3>3. CASE d # c /\ e # c
      BY Zenon, <2>6, <2>7, <3>3 DEF IncidentInv, ArtifactsOK
    <3> QED
      BY <3>1, <3>2, <3>3
  <2>8. \A n \in Dirs' : arts'[n] = [f \in FileNames |-> arts'[n][f]]
    <3>1. NoFiles = [f \in FileNames |-> NoFiles[f]]
      BY Zenon DEF NoFiles
    <3> QED
      BY Zenon, <2>1, <3>1 DEF IncidentInv, ArtifactsOK
  <2>9. ArtifactsOK'
    <3>1. Dirs' \subseteq Names /\ complete' \subseteq Dirs'
      BY Zenon, <1>1, <1>2, <2>1, <2>4 DEF IncidentInv, ArtifactsOK
    <3> QED
      BY Zenon, <2>1, <2>2, <2>5, <2>6, <2>7, <2>8, <3>1 DEF ArtifactsOK
  <2> QED
    BY Zenon, <1>2, <2>1, <2>4, <2>9, EvidenceStays DEF IncidentInv
<1> QED
  BY Zenon, <1>3, <1>4 DEF MakeDir

(* Every file is opened, which truncates it, and then written; with the last *)
(* one, the report, the artifact is complete                                 *)
LEMMA WriteFileInv ==
  ASSUME IncidentInv, NEW c \in Creators, WriteFile(c)
  PROVE  IncidentInv'
<1> DEFINE pc == creator[c].pc
           name == creator[c].name
           file == ArtifactFiles[pc \div 2]
           content == IF pc % 2 = 0 THEN Torn ELSE ContentOf(file, creator[c].input)
<1>1. /\ pc \in 2 .. 15
      /\ arts' = [arts EXCEPT ![name] = [arts[name] EXCEPT ![file] = content]]
      /\ creator' = [creator EXCEPT ![c] = [creator[c] EXCEPT !.pc = pc + 1]]
      /\ complete' = IF pc = 15 THEN complete \cup {name} ELSE complete
      /\ UNCHANGED <<analyzer, results, cases>>
  <2>1. 2 * Len(ArtifactFiles) + 1 = 15
    BY Files
  <2> QED
    BY Zenon, <2>1 DEF WriteFile
<1>2. /\ CreatorOK(c) /\ Writing(c) /\ name \in Dirs /\ name \notin complete
      /\ DOMAIN creator[c] = {"pc", "input", "name"}
      /\ name \in Names /\ creator[c].input \in Inputs
  <2>1. pc \in 1 .. 15
    BY <1>1
  <2> QED
    BY Zenon, <1>1, <2>1 DEF IncidentInv, ArtifactsOK, CreatorOK, Writing
<1>3. /\ arts'[name] = [arts[name] EXCEPT ![file] = content]
      /\ Dirs' = Dirs /\ arts' = [n \in Dirs |-> arts'[n]]
      /\ \A n \in Dirs : n # name => arts'[n] = arts[n]
  BY Zenon, <1>1, <1>2 DEF Dirs
<1>4. /\ creator' = [d \in Creators |-> creator'[d]]
      /\ creator'[c] = [creator[c] EXCEPT !.pc = pc + 1]
      /\ \A d \in Creators : d # c => creator'[d] = creator[d]
  BY Zenon, <1>1 DEF IncidentInv, ArtifactsOK
<1>5. /\ DOMAIN creator'[c] = {"pc", "input", "name"} /\ creator'[c].pc = pc + 1
      /\ creator'[c].name = name /\ creator'[c].input = creator[c].input
  BY <1>2, <1>4
<1>6. Writing(c)' => name \notin complete'
  <2>1. pc + 1 \in 2 .. 15 => pc # 15
    BY <1>1
  <2> QED
    BY Zenon, <1>1, <1>2, <1>5, <2>1 DEF Writing
<1>7. CreatorOK(c)'
  <2>1. pc + 1 \in Nat
    BY <1>1
  <2> QED
    BY Zenon, <1>2, <1>3, <1>5, <1>6, <2>1 DEF CreatorOK
<1>8. ASSUME NEW d \in Creators, d # c
      PROVE  /\ CreatorOK(d)' /\ Writing(d)' = Writing(d) /\ creator'[d] = creator[d]
  <2>1. /\ creator'[d] = creator[d] /\ CreatorOK(d) /\ Writing(d)' = Writing(d)
    BY Zenon, <1>4, <1>8 DEF IncidentInv, ArtifactsOK, Writing
  <2>2. Writing(d) => creator[d].name # name
    BY Zenon, <1>2, <1>8 DEF IncidentInv, ArtifactsOK
  <2>3. Writing(d) => creator[d].name \in Dirs \ complete'
    BY Zenon, <1>1, <2>1, <2>2 DEF CreatorOK
  <2> QED
    BY Zenon, <1>3, <2>1, <2>3 DEF CreatorOK
<1>9. ASSUME NEW d \in Creators, NEW e \in Creators, Writing(d)', Writing(e)',
             creator'[d].name = creator'[e].name
      PROVE  d = e
  <2>1. \A b \in Creators : Writing(b)' => Writing(b) /\ creator'[b].name = creator[b].name
    BY Zenon, <1>2, <1>5, <1>8
  <2> QED
    BY Zenon, <1>9, <2>1 DEF IncidentInv, ArtifactsOK
<1>10. arts'[name] = [f \in FileNames |-> arts'[name][f]]
  BY Zenon, <1>2, <1>3 DEF IncidentInv, ArtifactsOK
<1>12. ArtifactsOK'
  <2>1. Dirs' \subseteq Names /\ complete' \subseteq Dirs'
    BY Zenon, <1>1, <1>2, <1>3 DEF IncidentInv, ArtifactsOK
  <2>3. \A n \in Dirs' : arts'[n] = [f \in FileNames |-> arts'[n][f]]
    <3> SUFFICES ASSUME NEW n \in Dirs'
                 PROVE  arts'[n] = [f \in FileNames |-> arts'[n][f]]
      OBVIOUS
    <3>1. n # name => arts'[n] = arts[n] /\ arts[n] = [f \in FileNames |-> arts[n][f]]
      BY Zenon, <1>3 DEF IncidentInv, ArtifactsOK
    <3> HIDE DEF name, file, content, pc
    <3>2. CASE n = name
      BY Zenon, <1>10, <3>2
    <3>3. CASE n # name
      BY Zenon, <3>1, <3>3
    <3> QED
      BY Zenon, <3>2, <3>3
  <2> QED
    BY Zenon, <1>3, <1>4, <1>7, <1>8, <1>9, <2>1, <2>3 DEF ArtifactsOK
<1>13. \A n \in complete : arts'[n] = arts[n]
  BY Zenon, <1>2, <1>3 DEF IncidentInv, ArtifactsOK
<1> QED
  BY Zenon, <1>1, <1>3, <1>12, <1>13, EvidenceStays DEF IncidentInv

-----------------------------------------------------------------------------
(* create-from-analysis *)

(* The key of a case is the incident and its classification *)
LEMMA KeyOfPlan ==
  ASSUME NEW n, NEW class, NEW i, AnalysisPlan(n, class, FALSE) # <<>>
  PROVE  CaseKey(n, class, i) = <<"incident", n, class>>
<1>1. \A k, q : <<CaseItem(k)>>[1].key = k /\ <<CaseItem(k), q>>[1].key = k
  BY DEF CaseItem
<1> QED
  BY <1>1 DEF CaseKey, AnalysisPlan

(* A case is opened for a result that some analysis came to *)
LEMMA IngestInv ==
  ASSUME IncidentInv, NEW i \in Ingesters, NEW n \in Dirs, Ingest(i, n)
  PROVE  IncidentInv'
<1>1. UNCHANGED <<arts, complete, creator, analyzer, results>> /\ n \in Names
  BY Zenon DEF Ingest, IncidentInv, ArtifactsOK
<1>2. \/ cases' = cases
      \/ /\ cases' = cases \cup {<<"incident", n, results[n]>>} /\ Concluded(n, results[n])
  <2>1. CASE results[n] \notin {Absent, Torn}
    <3>1. Concluded(n, results[n])
      BY Zenon, <1>1, <2>1 DEF IncidentInv
    <3> QED
      BY Zenon, <3>1, KeyOfPlan DEF Ingest
  <2>2. CASE results[n] \in {Absent, Torn}
    BY Zenon, <2>2 DEF Ingest
  <2> QED
    BY Zenon, <2>1, <2>2
<1>3. \A k \in cases' : \E a \in Analyzers :
         /\ analyzer[a].class # Nothing
         /\ k = <<"incident", analyzer[a].name, analyzer[a].class>>
  <2>1. ASSUME NEW k \in cases
        PROVE  \E a \in Analyzers :
                 /\ analyzer[a].class # Nothing
                 /\ k = <<"incident", analyzer[a].name, analyzer[a].class>>
    BY Zenon, <2>1 DEF IncidentInv
  <2>2. ASSUME Concluded(n, results[n]), NEW k, k = <<"incident", n, results[n]>>
        PROVE  \E a \in Analyzers :
                 /\ analyzer[a].class # Nothing
                 /\ k = <<"incident", analyzer[a].name, analyzer[a].class>>
    <3>1. PICK a \in Analyzers :
             analyzer[a].name = n /\ analyzer[a].class = results[n] /\ results[n] # Nothing
      BY Zenon, <2>2 DEF Concluded
    <3>2. analyzer[a].class # Nothing /\ k = <<"incident", analyzer[a].name, analyzer[a].class>>
      BY <2>2, <3>1
    <3> QED
      BY Zenon, <3>2
  <2> QED
    BY Zenon, <1>2, <2>1, <2>2
<1>4. ArtifactsOK'
  BY Zenon, <1>1, ArtifactsStay DEF IncidentInv
<1>6. \A a \in Analyzers : AnalyzerOK(a)'
  BY Zenon, <1>1 DEF IncidentInv, AnalyzerOK, Dirs
<1>5. \A m \in Names : results'[m] \notin {Absent, Torn} => Concluded(m, results[m])'
  BY Zenon, <1>1 DEF IncidentInv, Concluded
<1> QED
  BY Zenon, <1>1, <1>3, <1>4, <1>5, <1>6 DEF IncidentInv

-----------------------------------------------------------------------------
(* All steps *)

(* Nothing is at work at the start, and what is found there is complete *)
LEMMA IncidentInit ==
  ASSUME Init PROVE IncidentInv
<1>1. /\ creator = [c \in Creators |-> [pc |-> 0, input |-> Nothing, name |-> Nothing]]
      /\ analyzer = [a \in Analyzers |-> [pc |-> "idle", name |-> Nothing, ctx |-> Nothing,
                                          settled |-> FALSE, class |-> Nothing]]
      /\ results = [n \in Names |-> Absent] /\ cases = {}
  BY Zenon DEF Init
<1>2. PICK f \in Found :
         /\ arts = IF f = Missing THEN [n \in {} |-> NoFiles] ELSE [n \in {f.name} |-> f.files]
         /\ complete = IF f = Missing THEN {} ELSE {f.name}
  BY Zenon DEF Init
<1>3. /\ arts = [n \in Dirs |-> arts[n]] /\ Dirs \subseteq Names /\ complete \subseteq Dirs
      /\ \A n \in Dirs : arts[n] = [g \in FileNames |-> arts[n][g]]
  <2>1. CASE f = Missing
    BY Zenon, <1>2, <2>1 DEF Dirs
  <2>2. CASE f # Missing
    <3>1. arts = [n \in {f.name} |-> f.files] /\ complete = {f.name} /\ arts[f.name] = f.files
      BY Zenon, <1>2, <2>2
    <3> QED
      BY Zenon, <2>2, <3>1, IncidentAssumptions DEF Dirs
  <2> QED
    BY Zenon, <2>1, <2>2
<1>4. ASSUME NEW c \in Creators PROVE CreatorOK(c) /\ ~Writing(c)
  BY <1>1 DEF CreatorOK, Writing
<1>5. ASSUME NEW a \in Analyzers PROVE AnalyzerOK(a)
  <2>1. /\ DOMAIN analyzer[a] = AnalysisFields
        /\ analyzer[a].pc = "idle" /\ analyzer[a].settled = FALSE /\ analyzer[a].class = Nothing
    BY <1>1 DEF AnalysisFields
  <2>2. "idle" \notin {"write", "done"} /\ FALSE \in BOOLEAN
    OBVIOUS
  <2> QED
    BY Zenon, <2>1, <2>2 DEF AnalyzerOK
<1>6. ArtifactsOK
  BY Zenon, <1>1, <1>3, <1>4 DEF ArtifactsOK
<1> QED
  BY Zenon, <1>1, <1>5, <1>6 DEF IncidentInv

(* Every step of the three scripts preserves the invariant *)
LEMMA IncidentNext ==
  ASSUME IncidentInv, [Next]_vars PROVE IncidentInv'
<1>1. CASE UNCHANGED vars
  <2>1. /\ arts' = arts /\ complete' = complete /\ creator' = creator
        /\ analyzer' = analyzer /\ results' = results /\ cases' = cases
    BY <1>1 DEF vars
  <2>2. ArtifactsOK'
    BY Zenon, <2>1, ArtifactsStay DEF IncidentInv
  <2> QED
    BY Zenon, <2>1, <2>2, EvidenceStays DEF IncidentInv, Dirs
<1>2. ASSUME NEW c \in Creators, \/ \E input \in Inputs : BeginCreate(c, input)
                                \/ MakeDir(c) \/ WriteFile(c) \/ CreatorDies(c)
      PROVE  IncidentInv'
  BY Zenon, <1>2, BeginCreateInv, MakeDirInv, WriteFileInv, CreatorDiesInv
<1>3. ASSUME NEW a \in Analyzers,
             \/ SelectIncident(a) \/ ReadManifest(a) \/ ReadWriteState(a) \/ ReadConsistency(a)
             \/ Validate(a) \/ OpenResult(a) \/ WriteResult(a)
      PROVE  IncidentInv'
  BY Zenon, <1>3, SelectIncidentInv, ReadManifestInv, ReadWriteStateInv, ReadConsistencyInv,
     ValidateInv, OpenResultInv, WriteResultInv
<1>4. ASSUME NEW i \in Ingesters, NEW n \in Dirs, Ingest(i, n) PROVE IncidentInv'
  BY Zenon, <1>4, IngestInv
<1> QED
  BY Zenon, <1>1, <1>2, <1>3, <1>4 DEF Next

(* The three scripts keep to the invariant of this module, however their *)
(* steps interleave and whichever creators die.                          *)
THEOREM IncidentInvariant == Spec => []IncidentInv
<1>1. Init => IncidentInv
  BY IncidentInit
<1>2. IncidentInv /\ [Next]_vars => IncidentInv'
  BY IncidentNext
<1> QED
  BY <1>1, <1>2, PTL DEF Spec

(* analyze_incident: an analysis that began after the artifact was complete   *)
(* concludes what one read of the artifact would, although it reads four      *)
(* times; and if all began so late, no older result stands.                   *)
THEOREM SettledAnalysisIsAtomicAlways == Spec => []SettledAnalysisIsAtomic
<1>1. ASSUME IncidentInv PROVE SettledAnalysisIsAtomic
  <2>1. ASSUME NEW a \in Analyzers, analyzer[a].settled, analyzer[a].class # Nothing
        PROVE  analyzer[a].class = ClassOf(arts[analyzer[a].name])
    BY Zenon, <1>1, <2>1 DEF IncidentInv, AnalyzerOK, ReadOK
  <2>2. ASSUME NEW n \in Dirs, AllSettled(n), results[n] \notin {Absent, Torn}
        PROVE  results[n] = ClassOf(arts[n])
    <3>1. n \in Names
      BY Zenon, <1>1 DEF IncidentInv, ArtifactsOK
    <3>2. PICK a \in Analyzers :
             analyzer[a].name = n /\ analyzer[a].class = results[n] /\ results[n] # Nothing
      BY Zenon, <1>1, <2>2, <3>1 DEF IncidentInv, Concluded
    <3> QED
      BY Zenon, <2>1, <2>2, <3>2 DEF AllSettled
  <2> QED
    BY Zenon, <2>1, <2>2 DEF SettledAnalysisIsAtomic
<1> QED
  BY <1>1, IncidentInvariant, PTL

(* create_from_analyzer_result: an incident whose analyses all began after it *)
(* was complete has one case at most, however often it is ingested.           *)
THEOREM OneCasePerSettledIncidentAlways == Spec => []OneCasePerSettledIncident
<1>1. ASSUME IncidentInv PROVE OneCasePerSettledIncident
  <2> SUFFICES ASSUME NEW n \in Dirs,
                      \A a \in Analyzers : analyzer[a].name = n => analyzer[a].settled
               PROVE  Cardinality({k \in cases : k[2] = n}) <= 1
    BY Zenon DEF OneCasePerSettledIncident, AllSettled
  <2> DEFINE key == <<"incident", n, ClassOf(arts[n])>>
             own == {k \in cases : k[2] = n}
  <2>1. ASSUME NEW k \in own PROVE k = key
    <3>1. PICK a \in Analyzers :
             /\ analyzer[a].class # Nothing
             /\ k = <<"incident", analyzer[a].name, analyzer[a].class>>
      BY Zenon, <1>1 DEF IncidentInv
    <3>2. k[2] = analyzer[a].name
      BY <3>1
    <3>3. analyzer[a].name = n /\ analyzer[a].settled
      BY Zenon, <3>2
    <3>4. analyzer[a].class = ClassOf(arts[n])
      BY Zenon, <1>1, <3>1, <3>3 DEF IncidentInv, AnalyzerOK, ReadOK
    <3> QED
      BY Zenon, <3>1, <3>3, <3>4
  <2>2. own \subseteq {key}
    BY Zenon, <2>1
  <2> HIDE DEF own, key
  <2>3. IsFiniteSet({key}) /\ Cardinality({key}) = 1
    BY FS_Singleton
  <2>4. IsFiniteSet(own) /\ Cardinality(own) <= Cardinality({key})
    BY <2>2, <2>3, FS_Subset
  <2>5. Cardinality(own) \in Nat
    BY <2>4, FS_CardinalityType
  <2> QED
    BY <2>3, <2>4, <2>5 DEF own
<1> QED
  BY <1>1, IncidentInvariant, PTL

=============================================================================

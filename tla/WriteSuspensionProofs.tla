------------------------ MODULE WriteSuspensionProofs ------------------------
(***************************************************************************)
(* SuspensionInv is inductive, so SuspensionHolds holds for every number of *)
(* calls and of API processes.                                              *)
(***************************************************************************)
EXTENDS WriteSuspension, TLAPS

USE DEF callVars, cliVars, ghostVars

(* the part of SuspensionInv about one call *)
Covered(c) ==
  /\ pc[c] \in {"read", "assign", "return", "done", "died"}
  /\ out[c] # "accepted"
  /\ pc[c] = "assign" => seen[c] = "active"
  /\ pc[c] = "return" => runtime[at[c]] = "active"
  /\ pc[c] \in {"read", "assign", "return"} => ~StaleStatus(at[c])

(* SuspensionInv, with the part about one call under a name. *)
LEMMA InvParts ==
  SuspensionInv <=>
    /\ TypeOK
    /\ inForce => file \in {"active", "torn"}
    /\ warned # {} => inForce
    /\ \A c \in Calls : pc[c] # "done" => out[c] # "accepted"
    /\ \A c \in warned \ overtaken : Covered(c)
BY Zenon DEF SuspensionInv, Covered

(* No suspension is in force when the first process starts without a file. *)
LEMMA SuspensionInit == Init => SuspensionInv
BY ZenonT(120) DEF Init, SuspensionInv, TypeOK, FileState, Copy, Seen, Label, Answer, CliLabel

(* Every step of the guard, the handler, the command and the environment   *)
(* keeps the types.                                                         *)
LEMMA TypeStep == ASSUME TypeOK, [Next]_vars PROVE TypeOK'
<1> USE DEF TypeOK, Goto, Answered, FileState, Copy, Seen, Label, Answer, CliLabel
<1>1. ASSUME NEW c \in Calls, Arrive(c) PROVE TypeOK'
  BY Zenon, <1>1 DEF Arrive
<1>2. ASSUME NEW c \in Calls, ReadFile(c) PROVE TypeOK'
  BY Zenon, <1>2 DEF ReadFile, ReadArtifactState
<1>3. ASSUME NEW c \in Calls, AssignCopy(c) PROVE TypeOK'
  BY Zenon, <1>3 DEF AssignCopy
<1>4. ASSUME NEW c \in Calls, ReturnCopy(c) \/ Probe(c) \/ Work(c) PROVE TypeOK'
  BY <1>4 DEF ReturnCopy, Probe, Work
<1>5. ASSUME NEW c \in Calls, EnableCopy(c) \/ ReplaceFile(c) \/ FailToReplace(c)
      PROVE  TypeOK'
  BY ZenonT(120), <1>5 DEF EnableCopy, ReplaceFile, FailToReplace
<1>6. CASE CliStep
  BY ZenonT(120), <1>6 DEF CliStep, CliEnable, CliDisable, CliTruncate, CliWrite, CliKilled
<1>7. CASE DbChanges
  BY Zenon, <1>7 DEF DbChanges
<1>8. ASSUME NEW p \in Processes, Restart(p) PROVE TypeOK'
  BY Zenon, <1>8 DEF Restart
<1>9. CASE UNCHANGED vars
  BY Zenon, <1>9 DEF vars
<1> QED
  BY Zenon, <1>1, <1>2, <1>3, <1>4, <1>5, <1>6, <1>7, <1>8, <1>9 DEF Next, CallStep

(* Every call step leaves the suspension's record alone or sets it, and a   *)
(* call that a suspension covers stays covered.                             *)
LEMMA CallInv ==
  ASSUME SuspensionInv, TypeOK', NEW d \in Calls, Arrive(d) \/ CallStep(d)
  PROVE  SuspensionInv'
<1> USE DEF TypeOK, Goto, Answered
<1>p. /\ TypeOK
      /\ inForce => file \in {"active", "torn"}
      /\ warned # {} => inForce
      /\ \A c \in Calls : pc[c] # "done" => out[c] # "accepted"
      /\ \A c \in warned \ overtaken : Covered(c)
  BY Zenon, InvParts
<1>q. ASSUME /\ inForce' => file' \in {"active", "torn"}
             /\ warned' # {} => inForce'
             /\ \A c \in Calls : pc'[c] # "done" => out'[c] # "accepted"
             /\ \A c \in warned' \ overtaken' : Covered(c)'
      PROVE  SuspensionInv'
  BY Zenon, <1>q DEF SuspensionInv, Covered
<1>1. CASE Arrive(d)
  BY <1>1, <1>p, <1>q DEF Arrive, Covered, StaleStatus
<1>2. CASE ReadFile(d)
  <2>1. inForce => ReadArtifactState = "active"
    BY Zenon, <1>p DEF ReadArtifactState
  <2>2. ASSUME NEW c \in warned \ overtaken PROVE Covered(c)'
    <3>1. Covered(c) /\ c \in Calls /\ inForce
      BY Zenon, <1>p
    <3>2. seen' = [seen EXCEPT ![d] = "active"] /\ pc' = [pc EXCEPT ![d] = "assign"]
      BY Zenon, <1>2, <2>1, <3>1 DEF ReadFile
    <3> QED
      BY <1>2, <1>p, <3>1, <3>2 DEF ReadFile, Covered, StaleStatus
  <2> QED
    BY Zenon, <1>2, <1>p, <1>q, <2>2 DEF ReadFile
<1>3. CASE AssignCopy(d)
  <2>1. ASSUME NEW c \in warned \ overtaken PROVE Covered(c)'
    <3>1. Covered(c) /\ c \in Calls
      BY Zenon, <1>p
    <3>2. CASE c = d
      BY Zenon, <1>3, <1>p, <3>1, <3>2 DEF AssignCopy, Covered, StaleStatus
    <3>3. CASE c # d
      <4>1. pc[c] = "return" => runtime'[at[c]] = "active"
        BY <1>3, <1>p, <3>1, <3>3 DEF AssignCopy, Covered, StaleStatus, Seen, Copy
      <4> QED
        BY Zenon, <1>3, <1>p, <3>1, <3>3, <4>1 DEF AssignCopy, Covered, StaleStatus
    <3> QED
      BY Zenon, <3>2, <3>3
  <2> QED
    BY Zenon, <1>3, <1>p, <1>q, <2>1 DEF AssignCopy
<1>4. CASE ReturnCopy(d)
  BY <1>4, <1>p, <1>q DEF ReturnCopy, Covered, StaleStatus
<1>5. CASE Probe(d)
  BY <1>5, <1>p, <1>q DEF Probe, Covered, StaleStatus
<1>6. CASE Work(d)
  BY <1>6, <1>p, <1>q DEF Work, Covered, StaleStatus
<1>7. CASE EnableCopy(d)
  BY <1>7, <1>p, <1>q DEF EnableCopy, Covered, StaleStatus
<1>8. CASE ReplaceFile(d) \/ FailToReplace(d)
  BY <1>8, <1>p, <1>q DEF ReplaceFile, FailToReplace, Covered, StaleStatus
<1> QED
  BY Zenon, <1>1, <1>2, <1>3, <1>4, <1>5, <1>6, <1>7, <1>8 DEF CallStep

(* The operator's command, the database and a restart touch no call except  *)
(* by ending it; only a completed disable ends the suspension.              *)
LEMMA EnvironmentInv ==
  ASSUME SuspensionInv, TypeOK',
         CliStep \/ DbChanges \/ (\E p \in Processes : Restart(p)) \/ UNCHANGED vars
  PROVE  SuspensionInv'
<1> USE DEF TypeOK
<1>1. CASE CliEnable \/ CliDisable \/ CliTruncate \/ CliKilled \/ DbChanges
  BY <1>1 DEF CliEnable, CliDisable, CliTruncate, CliKilled, DbChanges,
              SuspensionInv, StaleStatus
<1>2. CASE CliWrite
  BY <1>2 DEF CliWrite, SuspensionInv, StaleStatus, Copy
<1>3. ASSUME NEW p \in Processes, Restart(p) PROVE SuspensionInv'
  BY <1>3 DEF Restart, SuspensionInv, StaleStatus
<1>4. CASE UNCHANGED vars
  BY <1>4 DEF vars, SuspensionInv, StaleStatus
<1> QED
  BY Zenon, <1>1, <1>2, <1>3, <1>4 DEF CliStep

(* SuspensionInv holds in every reachable state: no interleaving of guards, *)
(* operator commands, outages and restarts breaks it.                       *)
THEOREM SuspensionInvariant == Spec => []SuspensionInv
<1>1. ASSUME SuspensionInv, [Next]_vars PROVE SuspensionInv'
  <2>1. TypeOK'
    BY Zenon, <1>1, TypeStep DEF SuspensionInv
  <2> QED
    BY Zenon, <1>1, <2>1, CallInv, EnvironmentInv DEF Next
<1> QED
  BY <1>1, SuspensionInit, PTL DEF Spec

(* For any number of calls and processes, a recorded suspension stops every *)
(* later call that no older status() of its process overtakes.              *)
THEOREM SuspensionHoldsAlways == Spec => []SuspensionHolds
<1>1. SuspensionInv => SuspensionHolds
  BY Zenon DEF SuspensionInv, SuspensionHolds
<1> QED
  BY <1>1, SuspensionInvariant, PTL

=============================================================================

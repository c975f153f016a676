--------------------------- MODULE WriteSuspension ---------------------------
(***************************************************************************)
(* The switch that suspends financial writes: a state file shared by the    *)
(* API's worker processes and the operator's command, a copy of the state   *)
(* in every process, the guard in front of POST /transaction-events and the *)
(* handler of database errors.  The threads of a process interleave between *)
(* any two accesses to the file or to the process's copy.                   *)
(*                                                                         *)
(* Of a state only "active" matters: reason, times, actors and run_id are   *)
(* carried along and never decided on.                                      *)
(***************************************************************************)
EXTENDS Naturals

CONSTANTS
  Calls,      \* HTTP calls of the guarded route
  Processes,  \* API worker processes
  DiskFails   \* whether writing the state file may fail

ASSUME DiskAssumption == DiskFails \in BOOLEAN

FileState == {"absent", "inactive", "active", "torn"}
Copy == {"inactive", "active"}
Seen == Copy \cup {"none"}
Label == {"idle", "read", "assign", "return", "probe", "enable", "replace",
          "work", "done", "died"}
Answer == {"none", "accepted", "suspended", "error"}
CliLabel == {"idle", "truncate", "write"}

VARIABLES
  file,      \* write_suspend_state_file; torn: opened for writing, still empty
  runtime,   \* WriteSuspensionService._runtime_state of each process
  db,        \* whether PostgreSQL can be reached
  pc, at,    \* where each call is, and in which process
  seen,      \* artifact_state, what the call read from the file
  out,       \* the answer
  cli,       \* the operator's command: its step, the state it is to write
  target,
  attached,  \* the file the command has open is still the one at the path
  \* history
  inForce,   \* a suspension was recorded and no operator has ended it
  warned,    \* the calls that arrived while it was in force
  overtaken  \* those of them that found an older status() unfinished

callVars == <<pc, at, seen, out>>
cliVars == <<cli, target, attached>>
ghostVars == <<inForce, warned, overtaken>>
vars == <<file, runtime, db, callVars, cliVars, ghostVars>>

TypeOK ==
  /\ file \in FileState
  /\ runtime \in [Processes -> Copy]
  /\ db \in BOOLEAN
  /\ pc \in [Calls -> Label]
  /\ at \in [Calls -> Processes]
  /\ seen \in [Calls -> Seen]
  /\ out \in [Calls -> Answer]
  /\ cli \in CliLabel
  /\ target \in Copy
  /\ attached \in BOOLEAN
  /\ inForce \in BOOLEAN
  /\ warned \subseteq Calls
  /\ overtaken \subseteq Calls

Init ==
  /\ file = "absent"
  /\ runtime = [p \in Processes |-> "inactive"]
  /\ db = TRUE
  /\ pc = [c \in Calls |-> "idle"]
  /\ at \in [Calls -> Processes]
  /\ seen = [c \in Calls |-> "none"]
  /\ out = [c \in Calls |-> "none"]
  /\ cli = "idle"
  /\ target = "inactive"
  /\ attached = FALSE
  /\ inForce = FALSE
  /\ warned = {}
  /\ overtaken = {}

-----------------------------------------------------------------------------
(* The guard *)

Goto(c, label) == pc' = [pc EXCEPT ![c] = label]

Answered(c, answer) ==
  /\ out' = [out EXCEPT ![c] = answer]
  /\ Goto(c, "done")

(* an older call of the process has read "inactive" and not yet stored it *)
StaleStatus(p) == \E d \in Calls : at[d] = p /\ pc[d] = "assign" /\ seen[d] = "inactive"

Arrive(c) ==
  /\ pc[c] = "idle"
  /\ Goto(c, "read")
  /\ warned' = IF inForce THEN warned \cup {c} ELSE warned
  /\ overtaken' = IF inForce /\ StaleStatus(at[c]) THEN overtaken \cup {c} ELSE overtaken
  /\ UNCHANGED <<file, runtime, db, at, seen, out, cliVars, inForce>>

(* mutant: an unreadable file counts as none *)
ReadArtifactStateOpen == IF file \in {"absent", "torn"} THEN "none" ELSE file

(* an unreadable file counts as an active suspension *)
ReadArtifactState ==
  CASE file = "absent" -> "none"
    [] file = "torn"   -> "active"
    [] OTHER           -> file

(* status(), first half: _read_artifact_state *)
ReadFile(c) ==
  /\ pc[c] = "read"
  /\ seen' = [seen EXCEPT ![c] = ReadArtifactState]
  /\ Goto(c, "assign")
  /\ UNCHANGED <<file, runtime, db, at, out, cliVars, ghostVars>>

(* the process's copy is replaced by what was read *)
AssignCopy(c) ==
  /\ pc[c] = "assign"
  /\ runtime' = IF seen[c] = "none" THEN runtime
                ELSE [runtime EXCEPT ![at[c]] = seen[c]]
  /\ Goto(c, "return")
  /\ UNCHANGED <<file, db, at, seen, out, cliVars, ghostVars>>

(* the copy is returned, whoever wrote it last; active is answered 503 *)
ReturnCopy(c) ==
  /\ pc[c] = "return"
  /\ \/ /\ runtime[at[c]] = "active"
        /\ Answered(c, "suspended")
     \/ /\ runtime[at[c]] = "inactive"
        /\ Goto(c, "probe")
        /\ UNCHANGED out
  /\ UNCHANGED <<file, runtime, db, at, seen, cliVars, ghostVars>>

(* SELECT 1 *)
Probe(c) ==
  /\ pc[c] = "probe"
  /\ Goto(c, IF db THEN "work" ELSE "enable")
  /\ UNCHANGED <<file, runtime, db, at, seen, out, cliVars, ghostVars>>

(* the service call behind the guard: it is answered from committed rows;   *)
(* or an OperationalError reaches database_exception_handler; or another    *)
(* error replaces it on the way and the caller gets 500                     *)
Work(c) ==
  /\ pc[c] = "work"
  /\ \/ /\ db
        /\ Answered(c, "accepted")
     \/ /\ ~db
        /\ Goto(c, "enable")
        /\ UNCHANGED out
     \/ /\ ~db
        /\ Answered(c, "error")
  /\ UNCHANGED <<file, runtime, db, at, seen, cliVars, ghostVars>>

(* enable(): first the process's copy *)
EnableCopy(c) ==
  /\ pc[c] = "enable"
  /\ runtime' = [runtime EXCEPT ![at[c]] = "active"]
  /\ Goto(c, "replace")
  /\ UNCHANGED <<file, db, at, seen, out, cliVars, ghostVars>>

(* then _write_artifact: a temporary file is renamed over the path, and a   *)
(* file the operator's command has open is no longer there                  *)
ReplaceFile(c) ==
  /\ pc[c] = "replace"
  /\ file' = "active"
  /\ attached' = FALSE
  /\ inForce' = TRUE
  /\ Answered(c, "suspended")
  /\ UNCHANGED <<runtime, db, at, seen, cli, target, warned, overtaken>>

FailToReplace(c) ==
  /\ DiskFails
  /\ pc[c] = "replace"
  /\ Answered(c, "error")
  /\ UNCHANGED <<file, runtime, db, at, seen, cliVars, ghostVars>>

-----------------------------------------------------------------------------
(* scripts/write_suspend_state.py *)

CliEnable ==
  /\ cli = "idle"
  /\ cli' = "truncate"
  /\ target' = "active"
  /\ UNCHANGED <<file, runtime, db, callVars, attached, ghostVars>>

(* disable reads the state first and stops at one it cannot parse *)
CliDisable ==
  /\ cli = "idle"
  /\ file # "torn"
  /\ cli' = "truncate"
  /\ target' = "inactive"
  /\ UNCHANGED <<file, runtime, db, callVars, attached, ghostVars>>

(* mutant: the old file is removed before the new one is written *)
CliTruncateRemoves ==
  /\ cli = "truncate"
  /\ file' = "absent"
  /\ attached' = TRUE
  /\ cli' = "write"
  /\ UNCHANGED <<runtime, db, callVars, target, ghostVars>>

(* write_text: opened in place and emptied, then written *)
CliTruncate ==
  /\ cli = "truncate"
  /\ file' = "torn"
  /\ attached' = TRUE
  /\ cli' = "write"
  /\ UNCHANGED <<runtime, db, callVars, target, ghostVars>>

(* the write reaches the path unless another file has been renamed over it *)
CliWrite ==
  /\ cli = "write"
  /\ file' = IF attached THEN target ELSE file
  /\ inForce' = IF attached THEN target = "active" ELSE inForce
  /\ warned' = IF attached /\ target = "inactive" THEN {} ELSE warned
  /\ cli' = "idle"
  /\ attached' = FALSE
  /\ UNCHANGED <<runtime, db, callVars, target, overtaken>>

(* the command is killed: a file it has emptied stays empty *)
CliKilled ==
  /\ cli # "idle"
  /\ cli' = "idle"
  /\ attached' = FALSE
  /\ UNCHANGED <<file, runtime, db, callVars, target, ghostVars>>

-----------------------------------------------------------------------------
(* The environment *)

DbChanges ==
  /\ db' = ~db
  /\ UNCHANGED <<file, runtime, callVars, cliVars, ghostVars>>

(* a process is restarted: its calls die and its copy is initialised *)
Restart(p) ==
  /\ runtime' = [runtime EXCEPT ![p] = "inactive"]
  /\ pc' = [c \in Calls |-> IF at[c] = p /\ pc[c] \notin {"idle", "done"}
                            THEN "died" ELSE pc[c]]
  /\ UNCHANGED <<file, db, at, seen, out, cliVars, ghostVars>>

CallStep(c) ==
  \/ ReadFile(c) \/ AssignCopy(c) \/ ReturnCopy(c) \/ Probe(c) \/ Work(c)
  \/ EnableCopy(c) \/ ReplaceFile(c) \/ FailToReplace(c)

CliStep == CliEnable \/ CliDisable \/ CliTruncate \/ CliWrite \/ CliKilled

Next ==
  \/ \E c \in Calls : Arrive(c) \/ CallStep(c)
  \/ CliStep
  \/ DbChanges
  \/ \E p \in Processes : Restart(p)

Spec == Init /\ [][Next]_vars

-----------------------------------------------------------------------------
(* A suspension, recorded by any process or by the operator, stops every     *)
(* call that arrives after it in every process, restarted ones included,     *)
(* until an operator ends it: unless an older call of the same process is    *)
(* still inside status(), no such call gets past the guard.  The file is     *)
(* read on each call and an unreadable file counts as suspended.             *)
SuspensionHolds ==
  \A c \in warned \ overtaken : pc[c] \notin {"probe", "work"} /\ out[c] # "accepted"

(* Why it holds.  While a suspension is in force the file says so, or is     *)
(* being rewritten and cannot be read, so that no status() can read          *)
(* "inactive" any more; a call that came later and was not overtaken finds   *)
(* its process's copy active from its own AssignCopy on.                     *)
SuspensionInv ==
  /\ TypeOK
  /\ inForce => file \in {"active", "torn"}
  /\ warned # {} => inForce
  /\ \A c \in Calls : pc[c] # "done" => out[c] # "accepted"
  /\ \A c \in warned \ overtaken :
       /\ pc[c] \in {"read", "assign", "return", "done", "died"}
       /\ out[c] # "accepted"
       /\ pc[c] = "assign" => seen[c] = "active"
       /\ pc[c] = "return" => runtime[at[c]] = "active"
       /\ pc[c] \in {"read", "assign", "return"} => ~StaleStatus(at[c])

=============================================================================

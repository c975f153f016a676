------------------------------- MODULE AiContext -------------------------------
(***************************************************************************)
(* The commands of ph6_ai_context run side by side.  Every run makes its    *)
(* own directory, whose name has the second in it: all runs here are of one *)
(* second.                                                                  *)
(***************************************************************************)
EXTENDS AiContextSanitizer

CONSTANTS
  Runners,
  Payloads,    \* sets of the files they may be given: Missing for a runner that is not run
  MaxSuffix    \* bound on the directories of one second

VARIABLES
  run,      \* [pc, payload, dir, errors] of every runner
  context   \* what the context.json of every directory holds, if it exists

vars == <<run, context>>

Missing == [t |-> "missing"]

Init ==
  /\ \E files \in Payloads : \E given \in files :
       run = [r \in Runners |-> [pc |-> "idle", payload |-> given[r], dir |-> 0, errors |-> {}]]
  /\ context = [d \in {} |-> Missing]

(* sanitize, sanitize-latest and demo *)
Load(r) ==
  /\ run[r].pc = "idle" /\ run[r].payload # Missing
  /\ run' = [run EXCEPT ![r].pc = "choose"]
  /\ UNCHANGED context

(* _create_run_dir: the first name that does not exist, and then mkdir *)
ChooseDir(r) ==
  /\ run[r].pc = "choose"
  /\ run[r].dir < MaxSuffix
  /\ run' = [run EXCEPT ![r] = IF @.dir \in DOMAIN context
                               THEN [@ EXCEPT !.dir = @ + 1] ELSE [@ EXCEPT !.pc = "mkdir"]]
  /\ UNCHANGED context

(* mutant: mkdir(exist_ok=True) *)
ReuseDir(r) ==
  /\ run[r].pc = "mkdir"
  /\ run' = [run EXCEPT ![r].pc = "write"]
  /\ context' = [d \in DOMAIN context \cup {run[r].dir} |->
                   IF d \in DOMAIN context THEN context[d] ELSE Missing]

MakeDir(r) ==
  /\ run[r].pc = "mkdir"
  /\ \/ /\ run[r].dir \in DOMAIN context   \* FileExistsError: the command ends with 2
        /\ run' = [run EXCEPT ![r].pc = "failed"]
        /\ UNCHANGED context
     \/ /\ run[r].dir \notin DOMAIN context
        /\ run' = [run EXCEPT ![r].pc = "write"]
        /\ context' = [d \in DOMAIN context \cup {run[r].dir} |->
                         IF d = run[r].dir THEN Missing ELSE context[d]]

WriteSanitizedContext(r) ==
  /\ run[r].pc = "write"
  /\ context' = [context EXCEPT ![run[r].dir] = SanitizeContext(run[r].payload)]
  /\ run' = [run EXCEPT ![r].pc = "validate"]

ValidateContextFile(r) ==
  /\ run[r].pc = "validate"
  /\ run' = [run EXCEPT ![r] = [@ EXCEPT !.pc = "done",
                                         !.errors = FileErrors(context[run[r].dir])]]
  /\ UNCHANGED context

(* the validate command, on a file or on a context that was put into it by hand *)
Validate(r) ==
  /\ run[r].pc = "idle" /\ run[r].payload # Missing
  /\ \E file \in {run[r].payload, ToDict(run[r].payload, {})} :
       run' = [run EXCEPT ![r] = [@ EXCEPT !.pc = "validated", !.errors = FileErrors(file)]]
  /\ UNCHANGED context

Next ==
  \E r \in Runners :
    \/ Load(r) \/ Validate(r)
    \/ ChooseDir(r) \/ MakeDir(r) \/ WriteSanitizedContext(r) \/ ValidateContextFile(r)

Spec == Init /\ [][Next]_vars

-----------------------------------------------------------------------------
(* Properties *)

(* the strings, numbers and Booleans of a tree, with the paths that lead to them *)
RECURSIVE Leaves(_, _)
Leaves(value, path) ==
  CASE value.t = "str" -> {[v |-> value.v, path |-> path]}
    [] value.t \in {"number", "false"} -> {[v |-> value.t, path |-> path]}
    [] value.t = "dict" -> UNION {Leaves(value.m[k], Append(path, Key(k))) : k \in DOMAIN value.m}
    [] value.t = "list" -> UNION {Leaves(value.s[i], Append(path, Index(i))) : i \in DOMAIN value.s}
    [] OTHER -> {}

KeysOn(path) == SelectSeq(path, LAMBDA e : e[1] = "key")

UnderHashKey(x) ==
  KeysOn(x.path) # <<>> /\ Last(KeysOn(x.path))[2] \in HASH_OR_TOKEN_KEYS

InList(x) == \E i \in DOMAIN x.path : x.path[i][1] = "index"

(* nothing sensitive about the leaf, and no key on its path outside keys *)
Safe(x, keys) ==
  /\ \A i \in DOMAIN KeysOn(x.path) : KeysOn(x.path)[i][2] \in keys
  /\ x.v \in {"plain", "number", "false"} \/ (x.v = "long" /\ UnderHashKey(x))

Written(r) == run[r].pc \in {"validate", "done"}
SanitizedLeaves(r) == Leaves(context[run[r].dir].m.sanitized_context, <<>>)
Removed(r) == {f.path : f \in RemovedFields(run[r].payload, <<>>, "none")}

(* sanitize_context: what a run has written has only leaves that are safe     *)
(* under allowlisted keys, and every such leaf of the input is among them, at *)
(* its place; nobody else writes to the run's directory.                      *)
ContextIsSafe ==
  \A r \in Runners :
    Written(r) =>
      SanitizedLeaves(r) = {x \in Leaves(run[r].payload, <<>>) : Safe(x, ALLOWED_KEYS)}

(* validate_context_file: a file without errors has no unsafe leaf, whoever    *)
(* wrote it, in its context or in its redaction summary: also not one that the *)
(* sanitizer itself put there, in the path of a removed key.  The validator    *)
(* takes the keys of the envelope for allowlisted ones, at any depth.          *)
ValidIsSafe ==
  \A r \in Runners :
    run[r].pc \in {"validated", "done"} /\ run[r].errors = {} =>
      LET file == IF run[r].pc = "done" THEN context[run[r].dir] ELSE run[r].payload IN
      \A x \in Leaves(file, <<>>) : Safe(x, ALLOWED_KEYS \cup ENVELOPE_KEYS)

(* RemovedField: a leaf of the input that is not in the context is at or under *)
(* a path the summary records, and no path is recorded that has none.          *)
RemovalsAreRecorded ==
  \A r \in Runners :
    Written(r) =>
      LET unsafe == {x \in Leaves(run[r].payload, <<>>) : ~Safe(x, ALLOWED_KEYS)} IN
      /\ \A x \in unsafe : \E p \in Removed(r) : IsPrefix(p, x.path)
      /\ \A p \in Removed(r) : \E x \in unsafe : IsPrefix(p, x.path)

(* write_sanitized_context and validate_context_file agree on every payload    *)
(* without a long string in a list and without a removed key that is itself a  *)
(* sensitive text: what the one writes the other accepts.  The two cases left  *)
(* out are those of README, section 7.                                         *)
SanitizedIsValid ==
  \A r \in Runners :
    ( /\ run[r].pc = "done"
      /\ \A x \in Leaves(run[r].payload, <<>>) : x.v = "long" => ~InList(x)
      /\ \A p \in Removed(r) : PathText(p) = Str("plain") )
    => run[r].errors = {}

=============================================================================

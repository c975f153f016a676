-------------------------- MODULE AiContextSanitizer --------------------------
(***************************************************************************)
(* The allowlist sanitizer of AI contexts and its validator, on JSON trees: *)
(* a dict has a function m from keys, a list a sequence s, a string one of  *)
(* the kinds v the patterns tell apart.  A path is a sequence of keys and   *)
(* list indexes.                                                            *)
(***************************************************************************)
EXTENDS SequencesExt

Dict(m) == [t |-> "dict", m |-> m]
List(s) == [t |-> "list", s |-> s]
Str(v) == [t |-> "str", v |-> v]
Number == [t |-> "number"]
Null == [t |-> "null"]
False == [t |-> "false"]

Key(k) == <<"key", k>>
Index(i) == <<"index", i>>

(* one key for each way a key can be treated *)
HASH_OR_TOKEN_KEYS == {"request_hash"}
ALLOWED_KEYS == {"severity", "metric_summary", "source", "evidence_paths"} \cup HASH_OR_TOKEN_KEYS
FORBIDDEN_KEYS == {"password"}
SENSITIVE_TEXT_KEYS == {"ACC-123"}   \* SENSITIVE_VALUE_RE matches the key itself
ENVELOPE_KEYS == {"sanitized_context", "redaction_summary", "removed_field_count",
                  "removed_fields", "path", "reason", "sensitive_data_included"}

RemovalReasonForKey(k) == IF k \in FORBIDDEN_KEYS THEN "sensitive_field_name" ELSE "none"

(* key: the key the value is found under, or "none" *)
RECURSIVE ContainsSensitiveValue(_, _)
ContainsSensitiveValue(value, key) ==
  CASE value.t = "str" ->
         value.v \in {"pattern", "raw_json"} \/ (value.v = "long" /\ key \notin HASH_OR_TOKEN_KEYS)
    [] value.t = "dict" ->
         \E k \in DOMAIN value.m :
           RemovalReasonForKey(k) # "none" \/ ContainsSensitiveValue(value.m[k], k)
    [] value.t = "list" -> \E i \in DOMAIN value.s : ContainsSensitiveValue(value.s[i], key)
    [] OTHER -> FALSE

(* why an item of a dict is dropped, or "none" *)
RemovalReason(k, item) ==
  IF RemovalReasonForKey(k) # "none" THEN RemovalReasonForKey(k)
  ELSE IF k \notin ALLOWED_KEYS THEN "not_in_allowlist"
  ELSE IF item.t \notin {"dict", "list"} /\ ContainsSensitiveValue(item, k)
  THEN "sensitive_value_pattern" ELSE "none"

(* mutant: lists are taken over as they are *)
RECURSIVE SanitizeShallow(_, _)
SanitizeShallow(value, parent) ==
  IF value.t # "dict" THEN value
  ELSE Dict([k \in {k \in DOMAIN value.m : RemovalReason(k, value.m[k]) = "none"} |->
               SanitizeShallow(value.m[k], k)])

RECURSIVE SanitizeValue(_, _)
SanitizeValue(value, parent) ==
  CASE value.t = "dict" ->
         Dict([k \in {k \in DOMAIN value.m : RemovalReason(k, value.m[k]) = "none"} |->
                 SanitizeValue(value.m[k], k)])
    [] value.t = "list" -> List([i \in DOMAIN value.s |-> SanitizeValue(value.s[i], parent)])
    [] OTHER -> IF ContainsSensitiveValue(value, parent) THEN Null ELSE value

(* mutant: what is dropped inside lists is not recorded *)
RECURSIVE RemovedOutsideLists(_, _, _)
RemovedOutsideLists(value, path, parent) ==
  IF value.t # "dict" THEN {}
  ELSE UNION {LET reason == RemovalReason(k, value.m[k]) IN
              IF reason # "none" THEN {[path |-> Append(path, Key(k)), reason |-> reason]}
              ELSE RemovedOutsideLists(value.m[k], Append(path, Key(k)), k) : k \in DOMAIN value.m}

(* the paths that sanitizing the value records, with their reasons *)
RECURSIVE RemovedFields(_, _, _)
RemovedFields(value, path, parent) ==
  CASE value.t = "dict" ->
         UNION {LET reason == RemovalReason(k, value.m[k]) IN
                IF reason # "none" THEN {[path |-> Append(path, Key(k)), reason |-> reason]}
                ELSE RemovedFields(value.m[k], Append(path, Key(k)), k) : k \in DOMAIN value.m}
    [] value.t = "list" ->
         UNION {RemovedFields(value.s[i], Append(path, Index(i)), parent) : i \in DOMAIN value.s}
    [] OTHER -> IF ContainsSensitiveValue(value, parent)
                THEN {[path |-> path, reason |-> "sensitive_value_pattern"]} ELSE {}

(* what is wrong with an item of a dict, apart from what is inside it *)
ItemErrors(k, item) ==
  {e \in {"sensitive_key", "not_allowed", "sensitive_value"} :
     CASE e = "sensitive_key" -> RemovalReasonForKey(k) # "none"
       [] e = "not_allowed" -> k \notin ALLOWED_KEYS \cup ENVELOPE_KEYS
       [] e = "sensitive_value" -> ContainsSensitiveValue(item, k)}

(* mutant: what is inside lists is not looked at *)
RECURSIVE ErrorsOutsideLists(_)
ErrorsOutsideLists(payload) ==
  IF payload.t # "dict" THEN {}
  ELSE UNION {ItemErrors(k, payload.m[k]) \cup ErrorsOutsideLists(payload.m[k]) :
                k \in DOMAIN payload.m}

(* _validate_payload: the kinds of errors *)
RECURSIVE ValidatePayload(_)
ValidatePayload(payload) ==
  CASE payload.t = "dict" ->
         UNION {ItemErrors(k, payload.m[k])
                  \cup (IF payload.m[k].t \in {"dict", "list"} THEN ValidatePayload(payload.m[k])
                        ELSE {}) : k \in DOMAIN payload.m}
    [] payload.t = "list" -> UNION {ValidatePayload(payload.s[i]) : i \in DOMAIN payload.s}
    [] OTHER -> IF ContainsSensitiveValue(payload, "none") THEN {"sensitive_value"} ELSE {}

(* validate_context_file; .get of what is not a dict raises AttributeError *)
FileErrors(payload) ==
  ValidatePayload(payload) \cup
  IF payload.t # "dict" THEN {"AttributeError"}
  ELSE {k \in {"sensitive_data_included", "sanitized_context", "redaction_summary"} :
          \/ k \notin DOMAIN payload.m
          \/ k = "sensitive_data_included" /\ payload.m[k] # False}

(* a path is written as text, with the text of its keys; a "$" comes first, so *)
(* it is no JSON and no long token                                             *)
PathText(path) ==
  Str(IF \E k \in SENSITIVE_TEXT_KEYS : Contains(path, Key(k)) THEN "pattern" ELSE "plain")

(* SanitizedContextResult.to_dict; the order of the removed fields is no matter *)
ToDict(context, removed) ==
  LET fields == SetToSeq(removed)
      field(i) == Dict([path |-> PathText(fields[i].path), reason |-> Str("plain")])
  IN
  Dict([sanitized_context |-> context,
        redaction_summary |-> Dict([removed_field_count |-> Number,
                                    removed_fields |-> List([i \in DOMAIN fields |-> field(i)])]),
        sensitive_data_included |-> False])

SanitizeContext(payload) ==
  ToDict(SanitizeValue(payload, "none"), RemovedFields(payload, <<>>, "none"))

(* a directory of JSON files is one dict: a later file overwrites the keys of *)
(* an earlier one                                                             *)
LoadDirectory(files) ==
  LET own == [source |-> Str("plain"), evidence_paths |-> List(<<Str("plain")>>)]
      all == <<own>> \o files
      last(k) == CHOOSE i \in DOMAIN all :
                   k \in DOMAIN all[i] /\ \A j \in DOMAIN all : k \in DOMAIN all[j] => j <= i
  IN Dict([k \in UNION {DOMAIN all[i] : i \in DOMAIN all} |-> all[last(k)][k]])

=============================================================================

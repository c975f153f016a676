----------------------------- MODULE MCAiContext -----------------------------
(* An instance of AiContext: every tree of a bounded shape. *)
EXTENDS AiContext

CONSTANT r1

Keys == {"severity", "request_hash", "password", "note", "reason", "ACC-123"}
Scalars == {Str("plain"), Str("pattern"), Str("raw_json"), Str("long"), Number}
Flat == {Dict(k :> v) : k \in Keys, v \in Scalars}

Values ==
  UNION {Scalars, Flat,
         {List(<<x>>) : x \in Scalars \cup Flat},
         {List(s) : s \in Scalars \X Scalars},
         {Dict("metric_summary" :> List(<<x>>)) : x \in Scalars \cup Flat}}

(* one run with any value, alone, with a sibling, from two files of a directory *)
(* or as a context file; or all runners in the same second with small ones      *)
One(tree) == [r \in Runners |-> IF r = r1 THEN tree ELSE Missing]
MCPayloads ==
  {{One(v) : v \in Values},
   {One(Dict(k :> v @@ l :> w)) : k \in Keys, l \in Keys, v \in Values, w \in Scalars},
   {One(LoadDirectory(<<(k :> v), (l :> w)>>)) : k \in Keys, l \in Keys \cup {"source"},
                                                 v \in Flat, w \in Scalars},
   {One(ToDict(v, removed)) : v \in Values,
      removed \in {{}} \cup {{[path |-> <<Key(k)>>, reason |-> "none"]} : k \in Keys}},
   [Runners -> {Dict("severity" :> Str("plain")), Dict("severity" :> Str("pattern"))}]}

=============================================================================

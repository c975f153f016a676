-------------------------- MODULE BlueGreenProofs --------------------------
(***************************************************************************)
(* Where the traffic is after the deployment scripts, for any number of    *)
(* operators, scripts, environments, faults, stops and kills.              *)
(*                                                                         *)
(* The list of steps that a script still has to take is a path in a fixed  *)
(* graph, so the invariants look at its first step only.                   *)
(***************************************************************************)
EXTENDS BlueGreen, TLAPS

-----------------------------------------------------------------------------
(* The graph of the steps *)

Switching ==
  {"backup", "testOld", "move", "testNew", "reload", "record",
   "restore", "recordPrevious", "reloadOld", "fail"}

Steps ==
  Switching \cup
  {"upBlue", "blueReady", "upGreen", "greenReady", "checks", "smokeGreen", "test",
   "isGreen", "isBlue", "routed", "ledger", "routedReady", "stopGreen"}

Traffic == {"trafficBlue", "trafficGreen"}

(* the steps that may follow a step, and whether the script may end there *)
Succ(script, step) ==
  CASE step = "upBlue" -> {"blueReady"}
    [] step = "blueReady" -> {"upGreen"}
    [] step = "upGreen" -> {"greenReady"}
    [] step = "greenReady" ->
         IF script \in {"startGreen", "deployGreen"} THEN {"end"}
         ELSE IF script = "deploy" THEN {"checks", "backup"} ELSE {"backup"}
    [] step = "checks" -> {"smokeGreen"}
    [] step = "smokeGreen" -> {"test"}
    [] step = "test" ->
         IF script \in Traffic THEN {"backup"}
         ELSE IF script = "rollbackToBlue" THEN {"routedReady"}
         ELSE IF script = "deploy" THEN {"isGreen"} ELSE {"end"}
    [] step = "isGreen" -> {"greenReady"}
    [] step = "isBlue" -> {"backup"}
    [] step = "backup" -> {"testOld"}
    [] step = "testOld" -> {"move"}
    [] step = "move" -> {"testNew"}
    [] step = "testNew" -> {"reload"}
    [] step = "reload" -> {"record"}
    [] step = "record" ->
         IF script \in Traffic THEN {"end"}
         ELSE IF script = "rollbackToBlue" THEN {"routedReady"} ELSE {"routed"}
    [] step = "routed" -> {"ledger"}
    [] step = "routedReady" -> {"stopGreen"}
    [] step = "restore" -> {"recordPrevious"}
    [] step = "recordPrevious" -> {"reloadOld", "fail"}
    [] step = "reloadOld" -> {"fail"}
    [] OTHER -> {"end"}

First(todo) == IF todo = <<>> THEN "end" ELSE Head(todo)

(* steps of a script that lead to a step, or to its end *)
Segment(script, steps, after) ==
  /\ steps \in Seq(Steps)
  /\ \A i \in 1 .. Len(steps) :
       IF i < Len(steps) THEN steps[i + 1] \in Succ(script, steps[i])
       ELSE after \in Succ(script, steps[i])

Path(script, todo) == Segment(script, todo, "end")

(* the steps of a script *)
StepsOf(script, rolling) ==
  IF script = "none" THEN {"end"}
  ELSE IF script \in {"startGreen", "deployGreen"} THEN {"upGreen", "greenReady", "end"}
  ELSE IF script = "verifyGreen" THEN {"checks", "smokeGreen", "test", "end"}
  ELSE IF script \in Traffic THEN {"test", "end"} \cup Switching
  ELSE IF script = "rollbackToBlue"
       THEN {"isBlue", "test", "routedReady", "stopGreen", "end"} \cup Switching
  ELSE IF script = "rollback" \/ rolling
       THEN {"isBlue", "routed", "ledger", "end"} \cup Switching
  ELSE IF script = "switchGreen"
       THEN {"isGreen", "greenReady", "routed", "ledger", "end"} \cup Switching
  ELSE (Steps \ {"isBlue", "routedReady", "stopGreen"}) \cup {"end"}

-----------------------------------------------------------------------------
(* The inductive invariant *)

CommandFields ==
  {"script", "todo", "status", "target", "previous", "saved", "rolling", "env"}

CommandOK(c) ==
  /\ DOMAIN c = CommandFields
  /\ c.script \in DOMAIN Program \cup {"none"} /\ c.rolling \in BOOLEAN
  /\ Path(c.script, c.todo) /\ First(c.todo) \in StepsOf(c.script, c.rolling)
  /\ c.rolling => c.script \in {"deploy", "switchGreen"}
  /\ c.target = IF c.rolling THEN "blue" ELSE Target(c.script)
  /\ c.saved \in Colors /\ c.previous \in Colors
  /\ c.todo # <<>> <=> c.status = "running"
  /\ First(c.todo) = "isBlue" =>
       c.todo = IF c.script = "rollbackToBlue" THEN Program["rollbackToBlue"] ELSE Rollback

UsedFields == {"commands", "faults", "stops", "kills", "overlapped", "unguarded", "latest"}

TypeOK ==
  /\ service \in [Colors -> Running \cup {"down"}]
  /\ upstream \in Colors /\ loaded \in Colors /\ colorFile \in Colors \cup {"absent"}
  /\ cmd = [o \in Operators |-> cmd[o]] /\ \A o \in Operators : CommandOK(cmd[o])
  /\ DOMAIN used = UsedFields /\ used.overlapped \in BOOLEAN /\ used.unguarded \in BOOLEAN
  /\ used.faults \in Nat /\ used.stops \in Nat /\ used.kills \in Nat

(* without overlaps only the latest script runs *)
Alone ==
  ~used.overlapped => \A o \in Operators : cmd[o].todo # <<>> => o = used.latest

(* the three places agree *)
Agree == loaded = upstream /\ colorFile \in {"absent", loaded}

(* where the three places are while set_active_upstream is at work *)
PlacedAt(step, target, previous, saved, up, ld, file) ==
  /\ step \in {"testOld", "move"} =>
       ld = up /\ file \in {"absent", ld} /\ saved = up /\ previous = up
  /\ step \in {"testNew", "reload", "restore"} =>
       ld = saved /\ ld = previous /\ file \in {"absent", ld}
  /\ step \in {"testNew", "reload"} => up = target
  /\ step = "recordPrevious" => ld = up /\ ld = previous
  /\ step = "record" => ld = up /\ ld = target
  /\ step \notin {"testOld", "move", "testNew", "reload", "restore", "recordPrevious", "record"}
       => ld = up /\ file \in {"absent", ld}

Placed(c) ==
  PlacedAt(First(c.todo), c.target, c.previous, c.saved, upstream, loaded, colorFile)

ShownInv ==
  ~used.overlapped /\ NoKills =>
    /\ AtRest => Agree
    /\ \A o \in Operators : cmd[o].todo # <<>> => Placed(cmd[o])

(* where the traffic is while switch_to_green runs, and its rollback *)
BlueSteps ==
  {"greenReady", "backup", "testOld", "move", "testNew", "reload",
   "restore", "recordPrevious", "reloadOld", "fail"}

SwitchAt(step, status, rolling, ld, green) ==
  /\ status = "failed" => ld = "blue"
  /\ ~rolling /\ step \in BlueSteps => ld = "blue"
  /\ ~rolling /\ step \in {"record", "routed", "ledger"} => green # "down"
  /\ rolling /\ step \in {"isBlue", "backup", "testOld", "move"} => green # "down"
  /\ rolling => step \notin {"restore", "recordPrevious", "reloadOld", "fail"}
  /\ rolling /\ step \in {"record", "routed", "ledger"} => ld = "blue"

Default == [auto |-> TRUE, verify |-> FALSE]

SwitchInv ==
  \A o \in Operators :
    /\ o = used.latest /\ cmd[o].script = "switchGreen" /\ cmd[o].env = Default
    /\ NoKills /\ NoFaults /\ ~used.overlapped
    => SwitchAt(First(cmd[o].todo), cmd[o].status, cmd[o].rolling, loaded, service["green"])

(* where the three places are while switch_traffic.sh runs, and after it *)
TrafficAt(step, status, target, up, ld, file) ==
  /\ step \in {"testNew", "reload"} => up = target
  /\ step = "record" => up = target /\ ld = target
  /\ status = "done" => up = target /\ ld = target /\ file = target

TrafficInv ==
  \A o \in Operators :
    o = used.latest /\ cmd[o].script \in Traffic /\ ~used.overlapped =>
      TrafficAt(First(cmd[o].todo), cmd[o].status, cmd[o].target, upstream, loaded, colorFile)

(* guarded scripts route to a container that runs *)
GuardedAt(step, target, green) ==
  /\ step # "restore"
  /\ step \in {"backup", "testOld", "move"} /\ target = "green" => green # "down"

SnippetInv ==
  NoKills /\ NoFaults /\ ~used.unguarded =>
    /\ service[upstream] # "down"
    /\ loaded # upstream =>
         \E o \in Operators : First(cmd[o].todo) \in {"testNew", "reload"}
    /\ \A o \in Operators :
         /\ cmd[o].script \notin Unguarded
         /\ GuardedAt(First(cmd[o].todo), cmd[o].target, service["green"])

BlueUp == used.stops = 0 => service["blue"] # "down"

BlueGreenInv ==
  TypeOK /\ Alone /\ ShownInv /\ SwitchInv /\ TrafficInv /\ SnippetInv /\ BlueUp

-----------------------------------------------------------------------------
(* Paths *)

(* No step is the mark of the end of a script.                             *)
LEMMA EndIsNoStep == "end" \notin Steps /\ "none" \notin DOMAIN Program
BY Zenon DEF Steps, Switching, Program

(* A list without steps is empty, another one starts with its first.       *)
LEMMA HeadIsFirst ==
  ASSUME NEW S, NEW q \in Seq(S)
  PROVE  (Len(q) = 0 <=> q = <<>>) /\ (Len(q) # 0 => Head(q) = q[1])
OBVIOUS

(* The length and the items of two lists in a row.                         *)
LEMMA Concatenated ==
  ASSUME NEW S, NEW a \in Seq(S), NEW b \in Seq(S)
  PROVE  /\ Len(a \o b) = Len(a) + Len(b)
         /\ \A i \in 1 .. Len(b) : (a \o b)[Len(a) + i] = b[i]
OBVIOUS

(* What is left of a script after its first step is again a path, which    *)
(* starts with a step that may follow (Step).                              *)
LEMMA TailPath ==
  ASSUME NEW script, NEW todo, Path(script, todo), todo # <<>>
  PROVE  /\ Path(script, Tail(todo)) /\ Head(todo) \in Steps
         /\ First(Tail(todo)) \in Succ(script, Head(todo))
<1> DEFINE rest == Tail(todo)
<1>1. todo \in Seq(Steps) /\ Len(todo) \in Nat /\ Len(todo) > 0
  BY DEF Path, Segment
<1>2. rest \in Seq(Steps) /\ Len(rest) = Len(todo) - 1 /\ Head(todo) = todo[1]
  BY <1>1
<1>3. \A i \in 1 .. Len(rest) : rest[i] = todo[i + 1]
  BY <1>1, <1>2
<1>4. Head(todo) \in Steps
  BY <1>1, <1>2
<1>5. ASSUME NEW i \in 1 .. Len(rest)
      PROVE  IF i < Len(rest) THEN rest[i + 1] \in Succ(script, rest[i])
             ELSE "end" \in Succ(script, rest[i])
  <2>1. i \in Nat /\ i + 1 \in 1 .. Len(todo) /\ rest[i] = todo[i + 1]
    BY <1>1, <1>2, <1>3
  <2>2. i < Len(rest) => i + 1 < Len(todo) /\ rest[i + 1] = todo[(i + 1) + 1]
    BY <1>1, <1>2, <1>3, <2>1
  <2>3. ~(i < Len(rest)) => ~(i + 1 < Len(todo))
    BY <1>1, <1>2, <2>1
  <2> QED BY <2>1, <2>2, <2>3, Zenon DEF Path, Segment
<1>6. First(rest) \in Succ(script, Head(todo))
  <2>1. 1 \in 1 .. Len(todo)
    BY <1>1
  <2>2. CASE Len(todo) = 1
    <3>1. Len(rest) = 0 /\ ~(1 < Len(todo))
      BY <1>1, <1>2, <2>2
    <3>2. rest = <<>>
      BY <1>2, <3>1, HeadIsFirst, Zenon
    <3> QED BY <1>2, <2>1, <3>1, <3>2, Zenon DEF Path, Segment, First
  <2>3. CASE Len(todo) # 1
    <3>1. Len(rest) # 0 /\ 1 < Len(todo) /\ rest[1] = todo[1 + 1]
      BY <1>1, <1>2, <1>3, <2>3
    <3>2. rest # <<>> /\ Head(rest) = rest[1]
      BY <1>2, <3>1, HeadIsFirst, Zenon
    <3> QED BY <1>2, <2>1, <3>1, <3>2, Zenon DEF Path, Segment, First
  <2> QED BY <2>2, <2>3, Zenon
<1> QED BY <1>2, <1>4, <1>5, <1>6, Zenon DEF Path, Segment

(* Steps that lead to others, and those, are a path together: how the      *)
(* scripts are put together from the functions of deployment-lib.sh.       *)
LEMMA Joined ==
  ASSUME NEW script, NEW a, NEW b, NEW after,
         a # <<>>, b # <<>>, Segment(script, a, Head(b)), Segment(script, b, after)
  PROVE  Segment(script, a \o b, after) /\ a \o b # <<>> /\ Head(a \o b) = Head(a)
<1> DEFINE ab == a \o b
<1>1. a \in Seq(Steps) /\ b \in Seq(Steps) /\ Len(a) \in Nat \ {0} /\ Len(b) \in Nat \ {0}
  BY DEF Segment
<1>2. ab \in Seq(Steps) /\ Len(ab) = Len(a) + Len(b)
  BY <1>1
<1>3. /\ \A i \in 1 .. Len(a) : ab[i] = a[i]
      /\ \A i \in 1 .. Len(b) : ab[Len(a) + i] = b[i]
  BY <1>1
<1>4. ab # <<>> /\ Head(ab) = Head(a) /\ Head(b) = b[1]
  BY <1>1, <1>2, <1>3
<1>5. ASSUME NEW i \in 1 .. Len(ab)
      PROVE  IF i < Len(ab) THEN ab[i + 1] \in Succ(script, ab[i])
             ELSE after \in Succ(script, ab[i])
  <2>0. i \in Nat
    BY <1>1, <1>2
  <2>1. CASE i < Len(a)
    <3>1. i < Len(ab) /\ ab[i] = a[i] /\ ab[i + 1] = a[i + 1] /\ i \in 1 .. Len(a)
      BY <1>1, <1>2, <1>3, <2>0, <2>1
    <3> QED BY <2>1, <3>1, Zenon DEF Segment
  <2>2. CASE i = Len(a)
    <3>1. i < Len(ab) /\ ab[i] = a[i] /\ i \in 1 .. Len(a) /\ ~(i < Len(a))
      BY <1>1, <1>2, <1>3, <2>0, <2>2
    <3>2. ab[i + 1] = Head(b)
      BY <1>1, <1>3, <1>4, <2>2
    <3> QED BY <3>1, <3>2, Zenon DEF Segment
  <2>3. CASE i > Len(a)
    <3>1. PICK j \in 1 .. Len(b) : i = Len(a) + j
      <4>1. i - Len(a) \in 1 .. Len(b) /\ i = Len(a) + (i - Len(a))
        BY <1>1, <1>2, <2>0, <2>3
      <4> QED BY <4>1, Zenon
    <3>2. ab[i] = b[j] /\ (i < Len(ab) <=> j < Len(b))
      BY <1>1, <1>2, <1>3, <3>1
    <3>3. j < Len(b) => ab[i + 1] = b[j + 1]
      <4>1. j < Len(b) => j + 1 \in 1 .. Len(b) /\ i + 1 = Len(a) + (j + 1)
        BY <1>1, <3>1
      <4> QED BY <1>3, <4>1
    <3> QED BY <3>1, <3>2, <3>3, Zenon DEF Segment
  <2> QED BY <1>1, <2>0, <2>1, <2>2, <2>3
<1> QED BY <1>2, <1>3, <1>4, <1>5, Zenon DEF Segment

(* What a script does from a step on is a path (the jump of AlreadyBlue).  *)
LEMMA SuffixPath ==
  ASSUME NEW script, NEW todo, Path(script, todo), NEW n \in 1 .. Len(todo)
  PROVE  /\ Path(script, SubSeq(todo, n, Len(todo))) /\ SubSeq(todo, n, Len(todo)) # <<>>
         /\ Head(SubSeq(todo, n, Len(todo))) = todo[n]
<1> DEFINE rest == SubSeq(todo, n, Len(todo))
<1>1. todo \in Seq(Steps) /\ Len(todo) \in Nat /\ n \in Nat /\ 1 <= n /\ n <= Len(todo)
  BY DEF Path, Segment
<1>2. rest \in Seq(Steps) /\ Len(rest) = Len(todo) - n + 1
  BY <1>1
<1>3. \A i \in 1 .. Len(rest) : rest[i] = todo[n + i - 1]
  BY <1>1, <1>2
<1>4. rest # <<>> /\ Head(rest) = todo[n]
  <2>1. Len(rest) # 0 /\ rest[1] = todo[n]
    BY <1>1, <1>2, <1>3
  <2> QED BY <1>2, <2>1, HeadIsFirst, Zenon
<1>5. ASSUME NEW i \in 1 .. Len(rest)
      PROVE  IF i < Len(rest) THEN rest[i + 1] \in Succ(script, rest[i])
             ELSE "end" \in Succ(script, rest[i])
  <2>1. PICK j \in 1 .. Len(todo) : j = n + i - 1
    BY <1>1, <1>2
  <2>2. rest[i] = todo[j] /\ (i < Len(rest) <=> j < Len(todo))
    BY <1>1, <1>2, <1>3, <2>1
  <2>3. i < Len(rest) => rest[i + 1] = todo[j + 1]
    BY <1>1, <1>2, <1>3, <2>1
  <2> QED BY <2>2, <2>3, Zenon DEF Path, Segment
<1> QED BY <1>2, <1>4, <1>5, Zenon DEF Path, Segment


(* set_active_upstream, called by a script, goes on to what follows.       *)
LEMMA SetActiveUpstreamLeads ==
  ASSUME NEW script, NEW after, after \in Succ(script, "record")
  PROVE  /\ Segment(script, SetActiveUpstream, after)
         /\ SetActiveUpstream # <<>> /\ Head(SetActiveUpstream) = "backup"
         /\ Len(SetActiveUpstream) = 6
<1>1. SetActiveUpstream \in Seq(Steps) /\ Len(SetActiveUpstream) = 6
  BY DEF SetActiveUpstream, Steps, Switching
<1>2. ASSUME NEW i \in 1 .. 6
      PROVE  IF i < 6 THEN SetActiveUpstream[i + 1] \in Succ(script, SetActiveUpstream[i])
             ELSE after \in Succ(script, SetActiveUpstream[i])
  <2>1. /\ "testOld" \in Succ(script, "backup") /\ "move" \in Succ(script, "testOld")
        /\ "testNew" \in Succ(script, "move") /\ "reload" \in Succ(script, "testNew")
        /\ "record" \in Succ(script, "reload")
    BY Zenon DEF Succ
  <2>2. i = 1 \/ i = 2 \/ i = 3 \/ i = 4 \/ i = 5 \/ i = 6
    OBVIOUS
  <2> QED BY <2>1, <2>2 DEF SetActiveUpstream
<1> QED BY <1>1, <1>2 DEF Segment, SetActiveUpstream

(* A step that leads to another, on its own.                               *)
LEMMA OneStep ==
  ASSUME NEW script, NEW a \in Steps, NEW after, after \in Succ(script, a)
  PROVE  Segment(script, <<a>>, after) /\ <<a>> # <<>> /\ Head(<<a>>) = a
<1>1. Segment(script, <<a>>, after)
  BY DEF Segment
<1> QED BY <1>1

(* Two steps that follow each other.                                       *)
LEMMA TwoSteps ==
  ASSUME NEW script, NEW a \in Steps, NEW b \in Steps, NEW after,
         b \in Succ(script, a), after \in Succ(script, b)
  PROVE  Segment(script, <<a, b>>, after) /\ <<a, b>> # <<>> /\ Head(<<a, b>>) = a
<1>1. <<a, b>> \in Seq(Steps) /\ Len(<<a, b>>) = 2
  OBVIOUS
<1>2. ASSUME NEW i \in 1 .. 2
      PROVE  IF i < 2 THEN <<a, b>>[i + 1] \in Succ(script, <<a, b>>[i])
             ELSE after \in Succ(script, <<a, b>>[i])
  <2>1. i = 1 \/ i = 2
    OBVIOUS
  <2> QED BY <2>1
<1> QED BY <1>1, <1>2 DEF Segment

(* A switch between what precedes and what follows it.                     *)
LEMMA AroundTheSwitch ==
  ASSUME NEW script, NEW a, NEW b, a # <<>>, b # <<>>,
         Segment(script, a, "backup"), Path(script, b), Head(b) \in Succ(script, "record")
  PROVE  LET s == (a \o SetActiveUpstream) \o b IN
         Path(script, s) /\ s # <<>> /\ Head(s) = Head(a)
<1>0. PICK as : as = a \o SetActiveUpstream
  BY Zenon
<1>1. /\ Segment(script, SetActiveUpstream, Head(b))
      /\ SetActiveUpstream # <<>> /\ Head(SetActiveUpstream) = "backup"
  BY SetActiveUpstreamLeads, Zenon
<1>2. Segment(script, as, Head(b)) /\ as # <<>> /\ Head(as) = Head(a)
  <2>1. Segment(script, a, Head(SetActiveUpstream))
    BY <1>1, Zenon
  <2>2. /\ Segment(script, a \o SetActiveUpstream, Head(b)) /\ a \o SetActiveUpstream # <<>>
        /\ Head(a \o SetActiveUpstream) = Head(a)
    BY <1>1, <2>1, Joined, Zenon
  <2> QED BY <1>0, <2>2, Zenon
<1>3. Segment(script, b, "end")
  BY Zenon DEF Path
<1>4. Segment(script, as \o b, "end") /\ as \o b # <<>> /\ Head(as \o b) = Head(as)
  BY <1>2, <1>3, Joined, Zenon
<1> QED BY <1>0, <1>2, <1>4, Zenon DEF Path

(* The eighth step of a script that asks one thing, and then switches, is  *)
(* the first after the switch.                                             *)
LEMMA AfterTheSwitch ==
  ASSUME NEW x \in Steps, NEW b \in Seq(Steps), b # <<>>
  PROVE  LET s == (<<x>> \o SetActiveUpstream) \o b IN
         8 \in 1 .. Len(s) /\ s[8] = Head(b)
<1>0. PICK a, as : a = <<x>> /\ as = a \o SetActiveUpstream
  BY Zenon
<1>1. a \in Seq(Steps) /\ Len(a) = 1
  BY <1>0
<1>2. SetActiveUpstream \in Seq(Steps) /\ Len(SetActiveUpstream) = 6
  BY DEF SetActiveUpstream, Steps, Switching
<1>3. as \in Seq(Steps) /\ Len(as) = 7
  <2>1. Len(as) = Len(a) + Len(SetActiveUpstream)
    BY <1>0, <1>1, <1>2, Concatenated, Zenon
  <2>2. as \in Seq(Steps)
    BY <1>0, <1>1, <1>2
  <2>3. 1 + 6 = 7
    OBVIOUS
  <2> QED BY <1>1, <1>2, <2>1, <2>2, <2>3, Zenon
<1>4. /\ Len(as \o b) = Len(as) + Len(b)
      /\ \A i \in 1 .. Len(b) : (as \o b)[Len(as) + i] = b[i]
  <2>1. as \in Seq(Steps) /\ b \in Seq(Steps)
    BY <1>3, Zenon
  <2> QED BY ONLY <2>1, Concatenated, Zenon
<1>5. Len(b) \in Nat /\ Len(b) # 0
  OBVIOUS
<1>6. Head(b) = b[1]
  BY <1>5, HeadIsFirst, Zenon
<1>7. 1 \in 1 .. Len(b) /\ Len(as) + 1 = 8 /\ 8 \in 1 .. (Len(as) + Len(b))
  BY <1>3, <1>5
<1> QED BY <1>0, <1>4, <1>6, <1>7, Zenon

(* switch_to_green is a path of the scripts that call it.                  *)
LEMMA SwitchToGreenPath ==
  ASSUME NEW script \in {"deploy", "switchGreen"}
  PROVE  Path(script, SwitchToGreen) /\ SwitchToGreen # <<>> /\ Head(SwitchToGreen) = "isGreen"
<1>1. /\ "greenReady" \in Succ(script, "isGreen") /\ "backup" \in Succ(script, "greenReady")
      /\ "ledger" \in Succ(script, "routed") /\ "end" \in Succ(script, "ledger")
      /\ "routed" \in Succ(script, "record")
  BY Zenon DEF Succ, Traffic
<1>2. "isGreen" \in Steps /\ "greenReady" \in Steps /\ "routed" \in Steps /\ "ledger" \in Steps
  BY Zenon DEF Steps
<1>3. /\ Segment(script, <<"isGreen", "greenReady">>, "backup")
      /\ <<"isGreen", "greenReady">> # <<>> /\ Head(<<"isGreen", "greenReady">>) = "isGreen"
  BY <1>1, <1>2, TwoSteps, Zenon
<1>4. /\ Path(script, <<"routed", "ledger">>) /\ <<"routed", "ledger">> # <<>>
      /\ Head(<<"routed", "ledger">>) = "routed"
  BY <1>1, <1>2, TwoSteps, Zenon DEF Path
<1>5. PICK a, b : a = <<"isGreen", "greenReady">> /\ b = <<"routed", "ledger">>
  BY Zenon
<1>6. /\ Segment(script, a, "backup") /\ a # <<>> /\ Head(a) = "isGreen"
      /\ Path(script, b) /\ b # <<>> /\ Head(b) = "routed"
  BY <1>3, <1>4, <1>5, Zenon
<1>7. SwitchToGreen = (a \o SetActiveUpstream) \o b
  BY <1>5, Zenon DEF SwitchToGreen
<1>8. Head(b) \in Succ(script, "record")
  BY <1>1, <1>6, Zenon
<1>9. Path(script, SwitchToGreen) /\ SwitchToGreen # <<>> /\ Head(SwitchToGreen) = Head(a)
  <2>1. LET s == (a \o SetActiveUpstream) \o b IN
        Path(script, s) /\ s # <<>> /\ Head(s) = Head(a)
    BY <1>6, <1>8, AroundTheSwitch, Zenon
  <2> QED BY <1>7, <2>1, Zenon
<1> QED BY <1>6, <1>9, Zenon

(* rollback.sh is a path, also as the child of a failed switch.            *)
LEMMA RollbackPath ==
  ASSUME NEW script \in {"deploy", "switchGreen", "rollback"}
  PROVE  /\ Path(script, Rollback) /\ Rollback # <<>> /\ Head(Rollback) = "isBlue"
         /\ 8 \in 1 .. Len(Rollback) /\ Rollback[8] = "routed"
<1>1. /\ "backup" \in Succ(script, "isBlue")
      /\ "ledger" \in Succ(script, "routed") /\ "end" \in Succ(script, "ledger")
      /\ "routed" \in Succ(script, "record")
  BY Zenon DEF Succ, Traffic
<1>2. "isBlue" \in Steps /\ "routed" \in Steps /\ "ledger" \in Steps
  BY Zenon DEF Steps
<1>3. /\ Segment(script, <<"isBlue">>, "backup") /\ <<"isBlue">> # <<>>
      /\ Head(<<"isBlue">>) = "isBlue"
  BY <1>1, <1>2, OneStep, Zenon
<1>4. /\ Path(script, <<"routed", "ledger">>) /\ <<"routed", "ledger">> # <<>>
      /\ Head(<<"routed", "ledger">>) = "routed"
  BY <1>1, <1>2, TwoSteps, Zenon DEF Path
<1>5. PICK a, b : a = <<"isBlue">> /\ b = <<"routed", "ledger">>
  BY Zenon
<1>6. /\ Segment(script, a, "backup") /\ a # <<>> /\ Head(a) = "isBlue"
      /\ Path(script, b) /\ b # <<>> /\ Head(b) = "routed"
  BY <1>3, <1>4, <1>5, Zenon
<1>7. Rollback = (a \o SetActiveUpstream) \o b
  BY <1>5, Zenon DEF Rollback
<1>8. Head(b) \in Succ(script, "record")
  BY <1>1, <1>6, Zenon
<1>9. Path(script, Rollback) /\ Rollback # <<>> /\ Head(Rollback) = Head(a)
  <2>1. LET s == (a \o SetActiveUpstream) \o b IN
        Path(script, s) /\ s # <<>> /\ Head(s) = Head(a)
    BY <1>6, <1>8, AroundTheSwitch, Zenon
  <2> QED BY <1>7, <2>1, Zenon
<1>10. b \in Seq(Steps) /\ "isBlue" \in Steps
  BY <1>2, <1>6, Zenon DEF Path, Segment
<1>11. LET s == (<<"isBlue">> \o SetActiveUpstream) \o b IN
       8 \in 1 .. Len(s) /\ s[8] = Head(b)
  BY <1>6, <1>10, AfterTheSwitch, Zenon
<1> QED BY <1>5, <1>6, <1>7, <1>9, <1>11, Zenon

(* rollback_to_blue.sh is a path.                                          *)
LEMMA RollbackToBluePath ==
  LET s == Program["rollbackToBlue"] IN
  /\ Path("rollbackToBlue", s) /\ s # <<>> /\ Head(s) = "isBlue"
  /\ 8 \in 1 .. Len(s) /\ s[8] = "routedReady"
<1> DEFINE script == "rollbackToBlue"
<1>1. /\ "backup" \in Succ(script, "isBlue")
      /\ "stopGreen" \in Succ(script, "routedReady") /\ "end" \in Succ(script, "stopGreen")
      /\ "routedReady" \in Succ(script, "record")
  BY Zenon DEF Succ, Traffic
<1>2. "isBlue" \in Steps /\ "routedReady" \in Steps /\ "stopGreen" \in Steps
  BY Zenon DEF Steps
<1>3. /\ Segment(script, <<"isBlue">>, "backup") /\ <<"isBlue">> # <<>>
      /\ Head(<<"isBlue">>) = "isBlue"
  BY <1>1, <1>2, OneStep, Zenon
<1>4. /\ Path(script, <<"routedReady", "stopGreen">>) /\ <<"routedReady", "stopGreen">> # <<>>
      /\ Head(<<"routedReady", "stopGreen">>) = "routedReady"
  BY <1>1, <1>2, TwoSteps, Zenon DEF Path
<1>5. PICK a, b : a = <<"isBlue">> /\ b = <<"routedReady", "stopGreen">>
  BY Zenon
<1>6. /\ Segment(script, a, "backup") /\ a # <<>> /\ Head(a) = "isBlue"
      /\ Path(script, b) /\ b # <<>> /\ Head(b) = "routedReady"
  BY <1>3, <1>4, <1>5, Zenon
<1>7. Program["rollbackToBlue"] = (a \o SetActiveUpstream) \o b
  BY <1>5, Zenon DEF Program
<1>8. Head(b) \in Succ(script, "record")
  BY <1>1, <1>6, Zenon
<1>9. LET s == (a \o SetActiveUpstream) \o b IN
      Path(script, s) /\ s # <<>> /\ Head(s) = Head(a)
  BY <1>6, <1>8, AroundTheSwitch, Zenon
<1>10. b \in Seq(Steps) /\ "isBlue" \in Steps
  BY <1>2, <1>6, Zenon DEF Path, Segment
<1>11. LET s == (<<"isBlue">> \o SetActiveUpstream) \o b IN
       8 \in 1 .. Len(s) /\ s[8] = Head(b)
  BY <1>6, <1>10, AfterTheSwitch, Zenon
<1> QED BY <1>5, <1>6, <1>7, <1>9, <1>11, Zenon

(* The list of a script's steps is a path.                                 *)
LEMMA ProgramPath ==
  ASSUME NEW script \in DOMAIN Program
  PROVE  /\ Path(script, Program[script]) /\ Program[script] # <<>>
         /\ Head(Program[script]) =
              CASE script = "deploy" -> "upBlue"
                [] script \in {"startGreen", "deployGreen"} -> "upGreen"
                [] script = "verifyGreen" -> "checks"
                [] script = "switchGreen" -> "isGreen"
                [] script \in {"rollback", "rollbackToBlue"} -> "isBlue"
                [] OTHER -> "test"
<1>0. {"upBlue", "blueReady", "upGreen", "greenReady", "checks", "smokeGreen", "test"}
        \subseteq Steps
  BY Zenon DEF Steps
<1>1. PICK up, checks : up = <<"upGreen", "greenReady">> /\ checks = <<"checks", "smokeGreen", "test">>
  BY Zenon
<1>2. ASSUME NEW after, script \in {"startGreen", "deployGreen", "deploy"},
             after \in Succ(script, "greenReady")
      PROVE  Segment(script, up, after) /\ up # <<>> /\ Head(up) = "upGreen"
  <2>1. "greenReady" \in Succ(script, "upGreen")
    BY Zenon DEF Succ
  <2>2. /\ Segment(script, <<"upGreen", "greenReady">>, after) /\ <<"upGreen", "greenReady">> # <<>>
        /\ Head(<<"upGreen", "greenReady">>) = "upGreen"
    <3>1. "upGreen" \in Steps /\ "greenReady" \in Steps
      BY <1>0, Zenon
    <3> QED BY <1>2, <2>1, <3>1, TwoSteps, Zenon
  <2> QED BY <1>1, <2>2, Zenon
<1>3. ASSUME NEW after, after \in Succ(script, "test")
      PROVE  Segment(script, checks, after) /\ checks # <<>> /\ Head(checks) = "checks"
  <2>1. "smokeGreen" \in Succ(script, "checks") /\ "test" \in Succ(script, "smokeGreen")
    BY Zenon DEF Succ
  <2>2. checks \in Seq(Steps) /\ Len(checks) = 3
    BY <1>0, <1>1
  <2>3. ASSUME NEW i \in 1 .. 3
        PROVE  IF i < 3 THEN checks[i + 1] \in Succ(script, checks[i])
               ELSE after \in Succ(script, checks[i])
    <3>1. i = 1 \/ i = 2 \/ i = 3
      OBVIOUS
    <3> QED BY <1>1, <1>3, <2>1, <3>1
  <2>4. Segment(script, checks, after)
    BY <2>2, <2>3, Zenon DEF Segment
  <2> QED BY <1>1, <2>4
<1>4. CASE script = "deploy"
  <2>1. PICK base, bu, buc : /\ base = <<"upBlue", "blueReady">>
                             /\ bu = base \o up /\ buc = bu \o checks
    BY Zenon
  <2>2. /\ "blueReady" \in Succ(script, "upBlue") /\ "upGreen" \in Succ(script, "blueReady")
        /\ "checks" \in Succ(script, "greenReady") /\ "isGreen" \in Succ(script, "test")
    BY <1>4, Zenon DEF Succ, Traffic
  <2>3. Segment(script, base, "upGreen") /\ base # <<>> /\ Head(base) = "upBlue"
    <3>1. /\ Segment(script, <<"upBlue", "blueReady">>, "upGreen") /\ <<"upBlue", "blueReady">> # <<>>
          /\ Head(<<"upBlue", "blueReady">>) = "upBlue"
      <4>1. "upBlue" \in Steps /\ "blueReady" \in Steps
        BY <1>0, Zenon
      <4> QED BY <2>2, <4>1, TwoSteps, Zenon
    <3> QED BY <2>1, <3>1, Zenon
  <2>4. Segment(script, up, "checks") /\ up # <<>> /\ Head(up) = "upGreen"
    BY <1>2, <1>4, <2>2
  <2>5. Segment(script, checks, "isGreen") /\ checks # <<>> /\ Head(checks) = "checks"
    BY <1>3, <2>2, Zenon
  <2>6. Segment(script, SwitchToGreen, "end") /\ SwitchToGreen # <<>> /\ Head(SwitchToGreen) = "isGreen"
    BY <1>4, SwitchToGreenPath, Zenon DEF Path
  <2>7. Segment(script, bu, "checks") /\ bu # <<>> /\ Head(bu) = "upBlue"
    <3>1. /\ Segment(script, base \o up, "checks") /\ base \o up # <<>>
          /\ Head(base \o up) = "upBlue"
      BY ONLY <2>3, <2>4, Joined
    <3> QED BY <2>1, <3>1, Zenon
  <2>8. Segment(script, buc, "isGreen") /\ buc # <<>> /\ Head(buc) = "upBlue"
    <3>1. /\ Segment(script, bu \o checks, "isGreen") /\ bu \o checks # <<>>
          /\ Head(bu \o checks) = "upBlue"
      BY ONLY <2>5, <2>7, Joined
    <3> QED BY <2>1, <3>1, Zenon
  <2>9. /\ Segment(script, buc \o SwitchToGreen, "end") /\ buc \o SwitchToGreen # <<>>
        /\ Head(buc \o SwitchToGreen) = "upBlue"
    BY ONLY <2>6, <2>8, Joined
  <2>10. Program["deploy"] = buc \o SwitchToGreen
    BY <1>1, <2>1, Zenon DEF Program, Deploy, StartGreen
  <2> QED BY <1>4, <2>9, <2>10, Zenon DEF Path
<1>5. CASE script \in {"startGreen", "deployGreen"}
  <2>1. "end" \in Succ(script, "greenReady")
    BY <1>5, Zenon DEF Succ
  <2>2. Program[script] = up
    BY <1>1, <1>5 DEF Program, StartGreen
  <2> QED BY <1>2, <1>5, <2>1, <2>2 DEF Path
<1>6. CASE script = "verifyGreen"
  <2>1. "end" \in Succ(script, "test")
    BY <1>6, Zenon DEF Succ, Traffic
  <2>2. Program[script] = checks
    BY <1>1, <1>6, Zenon DEF Program
  <2> QED BY <1>3, <1>6, <2>1, <2>2, Zenon DEF Path
<1>7. CASE script \in Traffic
  <2>1. PICK a, b : a = <<"test">> /\ b = SetActiveUpstream
    BY Zenon
  <2>2. "backup" \in Succ(script, "test") /\ "end" \in Succ(script, "record")
    BY <1>7, Zenon DEF Succ
  <2>3. Segment(script, a, "backup") /\ a # <<>> /\ Head(a) = "test"
    BY <1>0, <2>1, <2>2, OneStep, Zenon
  <2>4. Segment(script, b, "end") /\ b # <<>> /\ Head(b) = "backup"
    BY <2>1, <2>2, SetActiveUpstreamLeads, Zenon
  <2>5. Segment(script, a \o b, "end") /\ a \o b # <<>> /\ Head(a \o b) = "test"
    BY ONLY <2>3, <2>4, Joined
  <2>6. Program[script] = a \o b
    BY <1>7, <2>1 DEF Program, Traffic
  <2> QED BY <1>7, <2>5, <2>6, Zenon DEF Path, Traffic
<1>8. CASE script = "switchGreen"
  BY <1>8, SwitchToGreenPath, Zenon DEF Program
<1>9. CASE script = "rollback"
  BY <1>9, RollbackPath, Zenon DEF Program
<1>10. CASE script = "rollbackToBlue"
  BY <1>10, RollbackToBluePath, Zenon
<1>11. /\ script \in {"deploy", "startGreen", "deployGreen", "verifyGreen", "switchGreen",
                      "rollback", "rollbackToBlue"} \cup Traffic
  BY Zenon DEF Program, Traffic
<1> QED BY <1>4, <1>5, <1>6, <1>7, <1>8, <1>9, <1>10, <1>11, Zenon


(* A script goes on within its own steps, and asks whether Blue is active  *)
(* only at its start.                                                      *)
LEMMA StepsClosed ==
  ASSUME NEW script \in DOMAIN Program \cup {"none"}, NEW rolling \in BOOLEAN,
         NEW step \in StepsOf(script, rolling), step # "end", NEW next \in Succ(script, step)
  PROVE  next \in StepsOf(script, rolling) /\ next # "isBlue"
<1>1. next # "isBlue"
  BY Zenon DEF Succ
<1>2. script # "none"
  BY Zenon DEF StepsOf
<1>3. CASE step \in Switching
  <2>1. script \notin {"startGreen", "deployGreen", "verifyGreen"}
    <3>1. step \notin {"upGreen", "greenReady", "checks", "smokeGreen", "test", "end"}
      BY <1>3, Zenon DEF Switching
    <3> QED BY <3>1, Zenon DEF StepsOf
  <2>2. Switching \subseteq StepsOf(script, rolling) /\ "end" \in StepsOf(script, rolling)
    <3>1. Switching \cap {"isBlue", "routedReady", "stopGreen"} = {}
      BY Zenon DEF Switching
    <3> QED BY <1>2, <2>1, <3>1, Zenon DEF StepsOf, Steps
  <2>3. CASE step = "record"
    BY <1>2, <2>1, <2>3, Zenon DEF Succ, StepsOf, Steps, Program, Traffic
  <2>4. CASE step # "record"
    <3>1. next \in Switching \cup {"end"}
      BY <1>3, <2>4, Zenon DEF Succ, Switching
    <3> QED BY <1>1, <2>2, <3>1, Zenon
  <2> QED BY <2>3, <2>4, Zenon
<1>4. CASE step \in {"upBlue", "blueReady", "upGreen", "greenReady"}
  BY <1>1, <1>2, <1>4, Zenon DEF Succ, StepsOf, Steps, Switching, Traffic
<1>5. CASE step \in {"checks", "smokeGreen", "test", "isGreen"}
  BY <1>1, <1>2, <1>5, Zenon DEF Succ, StepsOf, Steps, Switching, Traffic, Program
<1>6. CASE step \in {"isBlue", "routed", "ledger", "routedReady", "stopGreen"}
  BY <1>1, <1>2, <1>6, Zenon DEF Succ, StepsOf, Steps, Switching, Traffic, Program
<1>7. step \in Switching \cup {"upBlue", "blueReady", "upGreen", "greenReady"}
        \cup {"checks", "smokeGreen", "test", "isGreen"}
        \cup {"isBlue", "routed", "ledger", "routedReady", "stopGreen"}
  BY Zenon DEF StepsOf, Steps
<1> QED BY <1>3, <1>4, <1>5, <1>6, <1>7, Zenon

-----------------------------------------------------------------------------
(* What a step does to its script *)

(* only one operator's script changes *)
Only(o) ==
  /\ cmd' = [p \in Operators |-> cmd'[p]]
  /\ \A p \in Operators \ {o} : cmd'[p] = cmd[p]

(* a script goes on at a step, or ends *)
Advances(o, next, outcome) ==
  /\ Only(o) /\ CommandOK(cmd'[o])
  /\ First(cmd'[o].todo) = next
  /\ cmd'[o].status = IF next = "end" THEN outcome ELSE "running"
  /\ cmd'[o].script = cmd[o].script /\ cmd'[o].target = cmd[o].target
  /\ cmd'[o].rolling = cmd[o].rolling /\ cmd'[o].env = cmd[o].env
  /\ cmd'[o].saved = cmd[o].saved /\ cmd'[o].previous = cmd[o].previous

Outcome(o) == IF cmd[o].rolling THEN "failed" ELSE "done"

(* Replacing what is left of a script and its status.                      *)
LEMMA Replaced ==
  ASSUME NEW o \in Operators, TypeOK, NEW rest, NEW status,
         cmd' = [cmd EXCEPT ![o].todo = rest, ![o].status = status]
  PROVE  /\ Only(o) /\ DOMAIN cmd'[o] = CommandFields
         /\ cmd'[o].todo = rest /\ cmd'[o].status = status
         /\ cmd'[o].script = cmd[o].script /\ cmd'[o].target = cmd[o].target
         /\ cmd'[o].rolling = cmd[o].rolling /\ cmd'[o].env = cmd[o].env
         /\ cmd'[o].saved = cmd[o].saved /\ cmd'[o].previous = cmd[o].previous
<1>1. cmd = [p \in Operators |-> cmd[p]] /\ DOMAIN cmd[o] = CommandFields
  BY Zenon DEF TypeOK, CommandOK
<1>2. cmd'[o] = [cmd[o] EXCEPT !.todo = rest, !.status = status]
  BY <1>1, Zenon
<1>3. Only(o)
  BY <1>1, Zenon DEF Only
<1> HIDE DEF TypeOK
<1>4. /\ DOMAIN cmd'[o] = CommandFields
      /\ cmd'[o].todo = rest /\ cmd'[o].status = status
      /\ cmd'[o].script = cmd[o].script /\ cmd'[o].target = cmd[o].target
      /\ cmd'[o].rolling = cmd[o].rolling /\ cmd'[o].env = cmd[o].env
      /\ cmd'[o].saved = cmd[o].saved /\ cmd'[o].previous = cmd[o].previous
  BY ONLY <1>1, <1>2 DEF CommandFields
<1> QED BY <1>3, <1>4, Zenon

(* A script that goes on with some of its steps, or ends.                  *)
LEMMA ReplacedAdvances ==
  ASSUME NEW o \in Operators, TypeOK, NEW rest, NEW status, NEW outcome, outcome # "running",
         cmd' = [cmd EXCEPT ![o].todo = rest, ![o].status = status],
         Path(cmd[o].script, rest), First(rest) \in StepsOf(cmd[o].script, cmd[o].rolling),
         First(rest) # "isBlue", status = IF rest = <<>> THEN outcome ELSE "running"
  PROVE  Advances(o, First(rest), outcome)
<1>1. CommandOK(cmd[o])
  BY Zenon DEF TypeOK
<1>2. /\ Only(o) /\ DOMAIN cmd'[o] = CommandFields
      /\ cmd'[o].todo = rest /\ cmd'[o].status = status
      /\ cmd'[o].script = cmd[o].script /\ cmd'[o].target = cmd[o].target
      /\ cmd'[o].rolling = cmd[o].rolling /\ cmd'[o].env = cmd[o].env
      /\ cmd'[o].saved = cmd[o].saved /\ cmd'[o].previous = cmd[o].previous
  BY ONLY o \in Operators, TypeOK, Replaced,
          cmd' = [cmd EXCEPT ![o].todo = rest, ![o].status = status]
<1>3. rest = <<>> <=> First(rest) = "end"
  <2>1. rest # <<>> => Head(rest) \in Steps
    BY TailPath, Zenon
  <2> QED BY <2>1, EndIsNoStep, Zenon DEF First
<1>4. rest # <<>> <=> status = "running"
  BY Zenon
<1>5. PICK c : c = cmd'[o]
  OBVIOUS
<1>6. CommandOK(c)
  <2>1. DOMAIN c = CommandFields
    BY <1>2, <1>5, Zenon
  <2>2. c.script \in DOMAIN Program \cup {"none"} /\ c.rolling \in BOOLEAN
    BY <1>1, <1>2, <1>5, Zenon DEF CommandOK
  <2>3. Path(c.script, c.todo) /\ First(c.todo) \in StepsOf(c.script, c.rolling)
    BY <1>2, <1>5, Zenon
  <2>4. /\ c.rolling => c.script \in {"deploy", "switchGreen"}
        /\ c.target = IF c.rolling THEN "blue" ELSE Target(c.script)
        /\ c.saved \in Colors /\ c.previous \in Colors
    BY <1>1, <1>2, <1>5, Zenon DEF CommandOK
  <2>5. c.todo # <<>> <=> c.status = "running"
    BY <1>2, <1>4, <1>5, Zenon
  <2>6. First(c.todo) # "isBlue"
    BY <1>2, <1>5, Zenon
  <2> QED BY <2>1, <2>2, <2>3, <2>4, <2>5, <2>6, Zenon DEF CommandOK
<1> QED BY <1>2, <1>3, <1>5, <1>6, Zenon DEF Advances


(* A script may end at any step.                                           *)
LEMMA MayEnd ==
  ASSUME NEW script, NEW rolling
  PROVE  Path(script, <<>>) /\ First(<<>>) = "end" /\ "end" \in StepsOf(script, rolling)
<1>1. Path(script, <<>>)
  BY DEF Path, Segment
<1>2. "end" \in StepsOf(script, rolling)
  BY Zenon DEF StepsOf
<1> QED BY <1>1, <1>2, Zenon DEF First

(* A script that goes on with a list of its steps (Goto).                  *)
LEMMA GotoAdvances ==
  ASSUME NEW o \in Operators, TypeOK, NEW rest, Goto(o, rest), Path(cmd[o].script, rest),
         First(rest) \in StepsOf(cmd[o].script, cmd[o].rolling), First(rest) # "isBlue"
  PROVE  Advances(o, First(rest), Outcome(o))
<1>1. PICK status : /\ cmd' = [cmd EXCEPT ![o].todo = rest, ![o].status = status]
                    /\ status = IF rest = <<>> THEN Outcome(o) ELSE "running"
  BY Zenon DEF Goto, Outcome
<1>2. Outcome(o) # "running"
  BY Zenon DEF Outcome
<1> QED BY <1>1, <1>2, ReplacedAdvances, Zenon

(* A script that passes a step goes on with one that may follow.           *)
LEMMA StepAdvances ==
  ASSUME NEW o \in Operators, TypeOK, cmd[o].todo # <<>>, Step(o)
  PROVE  \E next \in Succ(cmd[o].script, Head(cmd[o].todo)) : Advances(o, next, Outcome(o))
<1>1. CommandOK(cmd[o])
  BY Zenon DEF TypeOK
<1>2. PICK rest : rest = Tail(cmd[o].todo)
  BY Zenon
<1>3. /\ Path(cmd[o].script, rest) /\ Head(cmd[o].todo) \in Steps
      /\ First(rest) \in Succ(cmd[o].script, Head(cmd[o].todo))
  BY <1>1, <1>2, TailPath, Zenon DEF CommandOK
<1>4. /\ Head(cmd[o].todo) \in StepsOf(cmd[o].script, cmd[o].rolling)
      /\ Head(cmd[o].todo) # "end"
  BY <1>1, <1>3, EndIsNoStep, Zenon DEF CommandOK, First
<1>5. First(rest) \in StepsOf(cmd[o].script, cmd[o].rolling) /\ First(rest) # "isBlue"
  <2>1. cmd[o].script \in DOMAIN Program \cup {"none"} /\ cmd[o].rolling \in BOOLEAN
    BY <1>1, Zenon DEF CommandOK
  <2> QED BY <1>3, <1>4, <2>1, StepsClosed, Zenon
<1>6. Goto(o, rest)
  BY <1>2, Zenon DEF Step
<1> QED BY <1>3, <1>5, <1>6, GotoAdvances, Zenon

(* A script that fails ends, and stops Green only in deploy_green.sh.      *)
LEMMA FailAdvances ==
  ASSUME NEW o \in Operators, TypeOK, Fail(o)
  PROVE  /\ Advances(o, "end", "failed")
         /\ service' \in [Colors -> Running \cup {"down"}] /\ service'["blue"] = service["blue"]
         /\ cmd[o].script # "deployGreen" => service' = service
<1>1. PICK rest, status : /\ rest = <<>> /\ status = "failed"
                          /\ cmd' = [cmd EXCEPT ![o].todo = rest, ![o].status = status]
  BY Zenon DEF Fail
<1>2. Path(cmd[o].script, rest) /\ First(rest) = "end"
  BY <1>1, MayEnd, Zenon
<1>3. First(rest) \in StepsOf(cmd[o].script, cmd[o].rolling) /\ First(rest) # "isBlue"
  BY <1>2, MayEnd, Zenon
<1>4. Advances(o, First(rest), "failed")
  BY <1>1, <1>2, <1>3, ReplacedAdvances, Zenon
<1>5. service \in [Colors -> Running \cup {"down"}]
  BY Zenon DEF TypeOK
<1>6. /\ service' \in [Colors -> Running \cup {"down"}] /\ service'["blue"] = service["blue"]
      /\ cmd[o].script # "deployGreen" => service' = service
  BY <1>5, Zenon DEF Fail, Colors
<1> QED BY <1>2, <1>4, <1>6, Zenon


-----------------------------------------------------------------------------
(* What a step of a script has to keep *)

SameScript(o) ==
  /\ Only(o) /\ CommandOK(cmd'[o])
  /\ cmd'[o].script = cmd[o].script /\ cmd'[o].env = cmd[o].env

Counted ==
  /\ DOMAIN used' = UsedFields
  /\ used'.faults \in Nat /\ (used'.faults = 0 => used.faults = 0)
  /\ used'.stops = used.stops /\ used'.kills = used.kills /\ used'.latest = used.latest
  /\ used'.overlapped = used.overlapped /\ used'.unguarded = used.unguarded

Calm(o) ==
  /\ service' \in [Colors -> Running \cup {"down"}]
  /\ service["blue"] # "down" => service'["blue"] # "down"
  /\ cmd[o].script \notin Unguarded /\ service["green"] # "down" => service'["green"] # "down"

RoutingOK == upstream' \in Colors /\ loaded' \in Colors /\ colorFile' \in Colors \cup {"absent"}

KeepsPlaced(o) ==
  PlacedAt(First(cmd[o].todo), cmd[o].target, cmd[o].previous, cmd[o].saved,
           upstream, loaded, colorFile) =>
  PlacedAt(First(cmd'[o].todo), cmd'[o].target, cmd'[o].previous, cmd'[o].saved,
           upstream', loaded', colorFile')

KeepsSwitch(o) ==
  /\ cmd[o].script = "switchGreen" /\ cmd[o].env = Default
  /\ used'.faults = 0 /\ used.stops = 0
  /\ PlacedAt(First(cmd[o].todo), cmd[o].target, cmd[o].previous, cmd[o].saved,
              upstream, loaded, colorFile)
  /\ SwitchAt(First(cmd[o].todo), cmd[o].status, cmd[o].rolling, loaded, service["green"])
  => SwitchAt(First(cmd'[o].todo), cmd'[o].status, cmd'[o].rolling, loaded', service'["green"])

KeepsTraffic(o) ==
  /\ cmd[o].script \in Traffic
  /\ TrafficAt(First(cmd[o].todo), cmd[o].status, cmd[o].target, upstream, loaded, colorFile)
  => TrafficAt(First(cmd'[o].todo), cmd'[o].status, cmd'[o].target, upstream', loaded', colorFile')

KeepsGuarded(o) ==
  /\ used'.faults = 0 /\ used.stops = 0 /\ cmd[o].script \notin Unguarded
  /\ service[upstream] # "down"
  /\ GuardedAt(First(cmd[o].todo), cmd[o].target, service["green"])
  => /\ service'[upstream'] # "down"
     /\ GuardedAt(First(cmd'[o].todo), cmd'[o].target, service'["green"])
     /\ \/ loaded' = upstream' \/ First(cmd'[o].todo) \in {"testNew", "reload"}
        \/ loaded # upstream /\ First(cmd[o].todo) \notin {"testNew", "reload"}

(* A step of a script that keeps these facts keeps the invariant: without  *)
(* overlaps it is the latest script that runs, and another one's place is  *)
(* not disturbed by a container that comes up.                             *)
LEMMA StepKeeps ==
  ASSUME BlueGreenInv, NEW o \in Operators, cmd[o].todo # <<>>,
         SameScript(o), Counted, Calm(o), RoutingOK,
         KeepsPlaced(o), KeepsSwitch(o), KeepsTraffic(o), KeepsGuarded(o)
  PROVE  BlueGreenInv'
<1>0. /\ TypeOK /\ Alone /\ ShownInv /\ SwitchInv /\ TrafficInv /\ SnippetInv /\ BlueUp
  BY Zenon DEF BlueGreenInv
<1>1. /\ Only(o) /\ CommandOK(cmd'[o])
      /\ cmd'[o].script = cmd[o].script /\ cmd'[o].env = cmd[o].env
  BY Zenon DEF SameScript
<1>2. \A p \in Operators : p # o => cmd'[p] = cmd[p]
  BY <1>1, Zenon DEF Only
<1>3. TypeOK'
  <2>1. \A p \in Operators : CommandOK(cmd'[p])
    BY <1>0, <1>1, <1>2, Zenon DEF TypeOK
  <2>2. cmd' = [p \in Operators |-> cmd'[p]]
    BY <1>1, Zenon DEF Only
  <2>3. /\ DOMAIN used' = UsedFields /\ used'.overlapped \in BOOLEAN /\ used'.unguarded \in BOOLEAN
        /\ used'.faults \in Nat /\ used'.stops \in Nat /\ used'.kills \in Nat
    BY <1>0, Zenon DEF Counted, TypeOK
  <2>4. service' \in [Colors -> Running \cup {"down"}]
    BY Zenon DEF Calm
  <2> QED BY <2>1, <2>2, <2>3, <2>4, Zenon DEF TypeOK, RoutingOK
<1>4. ~used.overlapped => o = used.latest /\ \A p \in Operators : p # o => cmd[p].todo = <<>>
  BY <1>0, Zenon DEF Alone
<1>5. Alone'
  <2>1. SUFFICES ASSUME ~used'.overlapped, NEW p \in Operators, cmd'[p].todo # <<>>
                 PROVE  p = used'.latest
    BY Zenon DEF Alone
  <2>2. ~used.overlapped /\ used'.latest = used.latest
    BY <2>1, Zenon DEF Counted
  <2> QED BY <1>2, <1>4, <2>1, <2>2, Zenon
<1>6. BlueUp'
  BY <1>0, Zenon DEF BlueUp, Counted, Calm

<1>7. ShownInv'
  <2>1. SUFFICES ASSUME ~used'.overlapped, used'.kills = 0
                 PROVE  /\ AtRest' => Agree'
                        /\ \A p \in Operators : cmd'[p].todo # <<>> => Placed(cmd[p])'
    BY Zenon DEF ShownInv, NoKills
  <2>2. ~used.overlapped /\ used.kills = 0
    BY <2>1, Zenon DEF Counted
  <2>3. Placed(cmd[o])
    BY <1>0, <2>2, Zenon DEF ShownInv, NoKills
  <2>4. PlacedAt(First(cmd'[o].todo), cmd'[o].target, cmd'[o].previous, cmd'[o].saved,
                 upstream', loaded', colorFile')
    BY <2>3, Zenon DEF KeepsPlaced, Placed
  <2>5. AtRest' => Agree'
    <3>1. SUFFICES ASSUME cmd'[o].todo = <<>> PROVE Agree'
      BY Zenon DEF AtRest
    <3>2. First(cmd'[o].todo) = "end"
      BY <3>1, Zenon DEF First
    <3> QED BY <2>4, <3>2, Zenon DEF PlacedAt, Agree
  <2>6. ASSUME NEW p \in Operators, cmd'[p].todo # <<>> PROVE Placed(cmd[p])'
    <3>1. p = o
      BY <1>2, <1>4, <2>2, <2>6, Zenon
    <3> QED BY <2>4, <3>1, Zenon DEF Placed
  <2> QED BY <2>5, <2>6, Zenon
<1>8. SwitchInv'
  <2>1. SUFFICES ASSUME NEW p \in Operators, p = used'.latest, cmd'[p].script = "switchGreen",
                        cmd'[p].env = Default, used'.kills = 0, used'.faults = 0, used'.stops = 0,
                        ~used'.overlapped
                 PROVE  SwitchAt(First(cmd'[p].todo), cmd'[p].status, cmd'[p].rolling,
                                 loaded', service'["green"])
    BY Zenon DEF SwitchInv, NoKills, NoFaults
  <2>2. /\ ~used.overlapped /\ used.kills = 0 /\ used.faults = 0 /\ used.stops = 0
        /\ p = used.latest
    BY <2>1, Zenon DEF Counted
  <2>3. p = o
    BY <1>4, <2>2, Zenon
  <2>4. Placed(cmd[o])
    BY <1>0, <2>2, Zenon DEF ShownInv, NoKills
  <2>5. SwitchAt(First(cmd[o].todo), cmd[o].status, cmd[o].rolling, loaded, service["green"])
    BY <1>0, <1>1, <2>1, <2>2, <2>3, Zenon DEF SwitchInv, NoKills, NoFaults
  <2> QED BY <1>1, <2>1, <2>2, <2>3, <2>4, <2>5, Zenon DEF KeepsSwitch, Placed
<1>9. TrafficInv'
  <2>1. SUFFICES ASSUME NEW p \in Operators, p = used'.latest, cmd'[p].script \in Traffic,
                        ~used'.overlapped
                 PROVE  TrafficAt(First(cmd'[p].todo), cmd'[p].status, cmd'[p].target,
                                  upstream', loaded', colorFile')
    BY Zenon DEF TrafficInv
  <2>2. ~used.overlapped /\ p = used.latest
    BY <2>1, Zenon DEF Counted
  <2>3. p = o
    BY <1>4, <2>2, Zenon
  <2> QED BY <1>0, <1>1, <2>1, <2>2, <2>3, Zenon DEF TrafficInv, KeepsTraffic
<1>10. SnippetInv'
  <2>1. SUFFICES ASSUME used'.kills = 0, used'.faults = 0, used'.stops = 0, ~used'.unguarded
                 PROVE  /\ service'[upstream'] # "down"
                        /\ loaded' # upstream' =>
                             \E p \in Operators : First(cmd'[p].todo) \in {"testNew", "reload"}
                        /\ \A p \in Operators :
                             /\ cmd'[p].script \notin Unguarded
                             /\ GuardedAt(First(cmd'[p].todo), cmd'[p].target, service'["green"])
    BY Zenon DEF SnippetInv, NoKills, NoFaults
  <2>2. ~used.unguarded /\ used.kills = 0 /\ used.faults = 0 /\ used.stops = 0
    BY <2>1, Zenon DEF Counted
  <2>3. /\ service[upstream] # "down"
        /\ loaded # upstream =>
             \E p \in Operators : First(cmd[p].todo) \in {"testNew", "reload"}
        /\ \A p \in Operators :
             /\ cmd[p].script \notin Unguarded
             /\ GuardedAt(First(cmd[p].todo), cmd[p].target, service["green"])
    BY <1>0, <2>2, Zenon DEF SnippetInv, NoKills, NoFaults
  <2>4. /\ service'[upstream'] # "down"
        /\ GuardedAt(First(cmd'[o].todo), cmd'[o].target, service'["green"])
        /\ \/ loaded' = upstream' \/ First(cmd'[o].todo) \in {"testNew", "reload"}
           \/ loaded # upstream /\ First(cmd[o].todo) \notin {"testNew", "reload"}
    BY <2>1, <2>2, <2>3, Zenon DEF KeepsGuarded
  <2>5. loaded' # upstream' =>
          \E p \in Operators : First(cmd'[p].todo) \in {"testNew", "reload"}
    BY <1>2, <2>3, <2>4, Zenon
  <2>6. ASSUME NEW p \in Operators
        PROVE  /\ cmd'[p].script \notin Unguarded
               /\ GuardedAt(First(cmd'[p].todo), cmd'[p].target, service'["green"])
    <3>1. service["green"] # "down" => service'["green"] # "down"
      BY <2>3, Zenon DEF Calm
    <3> QED BY <1>1, <1>2, <2>3, <2>4, <3>1, Zenon DEF GuardedAt
  <2> QED BY <2>4, <2>5, <2>6, Zenon
<1> QED BY <1>3, <1>5, <1>6, <1>7, <1>8, <1>9, <1>10, Zenon DEF BlueGreenInv


-----------------------------------------------------------------------------
(* The steps that leave the routing alone *)

Placing == {"testOld", "move", "testNew", "reload", "restore", "recordPrevious", "record"}

(* A script that runs is at one of its steps, with its own target.         *)
LEMMA AtAStep ==
  ASSUME BlueGreenInv, NEW o \in Operators, cmd[o].todo # <<>>
  PROVE  /\ TypeOK /\ CommandOK(cmd[o]) /\ First(cmd[o].todo) = Head(cmd[o].todo)
         /\ Head(cmd[o].todo) \in StepsOf(cmd[o].script, cmd[o].rolling)
         /\ cmd[o].status = "running" /\ cmd[o].rolling \in BOOLEAN
         /\ cmd[o].rolling => cmd[o].script \in {"deploy", "switchGreen"}
         /\ cmd[o].target = IF cmd[o].rolling THEN "blue" ELSE Target(cmd[o].script)
<1>1. TypeOK
  BY Zenon DEF BlueGreenInv
<1>2. CommandOK(cmd[o])
  BY <1>1, Zenon DEF TypeOK
<1>3. First(cmd[o].todo) = Head(cmd[o].todo)
  BY Zenon DEF First
<1> QED BY <1>1, <1>2, <1>3, Zenon DEF CommandOK

(* Nothing counted.                                                        *)
LEMMA NothingCounted ==
  ASSUME BlueGreenInv, UNCHANGED used
  PROVE  Counted
BY Zenon DEF BlueGreenInv, TypeOK, Counted

(* A fault of Nginx is counted.                                            *)
LEMMA FaultCounted ==
  ASSUME BlueGreenInv, NginxFault
  PROVE  Counted /\ used'.faults # 0
<1>1. DOMAIN used = UsedFields /\ used.faults \in Nat
  BY Zenon DEF BlueGreenInv, TypeOK
<1>2. used' = [used EXCEPT !["faults"] = @ + 1]
  BY Zenon DEF NginxFault, Spend
<1>3. /\ DOMAIN used' = UsedFields /\ used'.faults = used.faults + 1
      /\ used'.stops = used.stops /\ used'.kills = used.kills /\ used'.latest = used.latest
      /\ used'.overlapped = used.overlapped /\ used'.unguarded = used.unguarded
  BY ONLY <1>1, <1>2 DEF UsedFields
<1>4. used'.faults \in Nat /\ used'.faults # 0
  BY <1>1, <1>3
<1> QED BY <1>3, <1>4, Zenon DEF Counted

(* The containers are left alone.                                          *)
LEMMA NothingStops ==
  ASSUME BlueGreenInv, UNCHANGED service, NEW o \in Operators
  PROVE  Calm(o)
BY Zenon DEF BlueGreenInv, TypeOK, Calm

(* A script that fails stops Green only where it may.                      *)
LEMMA FailIsCalm ==
  ASSUME BlueGreenInv, NEW o \in Operators, Fail(o)
  PROVE  Calm(o)
<1>1. TypeOK
  BY Zenon DEF BlueGreenInv
<1>2. /\ service' \in [Colors -> Running \cup {"down"}] /\ service'["blue"] = service["blue"]
      /\ cmd[o].script # "deployGreen" => service' = service
  BY <1>1, FailAdvances, Zenon
<1>3. cmd[o].script \notin Unguarded => cmd[o].script # "deployGreen"
  BY Zenon DEF Unguarded
<1> QED BY <1>2, <1>3, Zenon DEF Calm

(* A step that leaves the routing alone and goes on, or ends, where        *)
(* set_active_upstream is not at work.                                     *)
LEMMA Quiet ==
  ASSUME BlueGreenInv, NEW o \in Operators, cmd[o].todo # <<>>,
         NEW next, NEW outcome, Advances(o, next, outcome),
         UnchangedRouting, Counted, Calm(o),
         Head(cmd[o].todo) \notin Placing \ {"testOld"}, next \notin Placing,
         KeepsSwitch(o),
         cmd[o].script \in Traffic => ~(next = "end" /\ outcome = "done"),
         /\ next = "backup" /\ cmd[o].target = "green" /\ cmd[o].script \notin Unguarded
         => service'["green"] # "down"
  PROVE  BlueGreenInv'
<1> DEFINE step == Head(cmd[o].todo)
<1>1. TypeOK /\ First(cmd[o].todo) = step
  BY AtAStep, Zenon
<1>2. /\ Only(o) /\ CommandOK(cmd'[o])
      /\ First(cmd'[o].todo) = next
      /\ cmd'[o].status = IF next = "end" THEN outcome ELSE "running"
      /\ cmd'[o].script = cmd[o].script /\ cmd'[o].target = cmd[o].target
      /\ cmd'[o].env = cmd[o].env
      /\ cmd'[o].saved = cmd[o].saved /\ cmd'[o].previous = cmd[o].previous
  BY Zenon DEF Advances
<1>3. upstream' = upstream /\ loaded' = loaded /\ colorFile' = colorFile
  BY Zenon DEF UnchangedRouting
<1>4. SameScript(o)
  BY <1>2, Zenon DEF SameScript
<1>5. RoutingOK
  BY <1>1, <1>3, Zenon DEF RoutingOK, TypeOK
<1>6. step \notin {"move", "testNew", "reload", "restore", "recordPrevious", "record"}
  BY Zenon DEF Placing
<1>7. next \notin {"testOld", "move", "testNew", "reload", "restore", "recordPrevious", "record"}
  BY Zenon DEF Placing
<1>8. KeepsPlaced(o)
  <2>1. ASSUME PlacedAt(step, cmd[o].target, cmd[o].previous, cmd[o].saved,
                        upstream, loaded, colorFile)
        PROVE  loaded = upstream /\ colorFile \in {"absent", loaded}
    BY <1>6, <2>1, Zenon DEF PlacedAt
  <2>2. ASSUME loaded = upstream /\ colorFile \in {"absent", loaded}
        PROVE  PlacedAt(next, cmd[o].target, cmd[o].previous, cmd[o].saved,
                        upstream, loaded, colorFile)
    BY <1>7, <2>2, Zenon DEF PlacedAt
  <2> HIDE DEF step
  <2> QED BY <1>1, <1>2, <1>3, <2>1, <2>2, Zenon DEF KeepsPlaced
<1>9. KeepsTraffic(o)
  <2>1. cmd[o].script \in Traffic => cmd'[o].status # "done"
    BY <1>2, Zenon
  <2>2. cmd[o].script \in Traffic =>
          TrafficAt(next, cmd'[o].status, cmd'[o].target, upstream', loaded', colorFile')
    BY <1>7, <2>1, Zenon DEF TrafficAt
  <2> QED BY <1>2, <2>2, Zenon DEF KeepsTraffic
<1>10. KeepsGuarded(o)
  <2>1. SUFFICES ASSUME cmd[o].script \notin Unguarded, service[upstream] # "down",
                        GuardedAt(step, cmd[o].target, service["green"])
                 PROVE  /\ service'[upstream] # "down"
                        /\ GuardedAt(next, cmd[o].target, service'["green"])
                        /\ step \notin {"testNew", "reload"}
    BY <1>1, <1>2, <1>3, Zenon DEF KeepsGuarded
  <2>2. upstream = "blue" \/ upstream = "green"
    BY <1>1, Zenon DEF TypeOK, Colors
  <2>3. service'[upstream] # "down"
    BY <2>1, <2>2, Zenon DEF Calm
  <2> QED BY <1>6, <1>7, <2>1, <2>3, Zenon DEF GuardedAt
<1> QED BY <1>4, <1>5, <1>8, <1>9, <1>10, StepKeeps, Zenon


(* the steps that only ask or start and stop containers *)
Asking ==
  {"upBlue", "blueReady", "upGreen", "greenReady", "checks", "smokeGreen", "test",
   "routedReady", "stopGreen"}

(* A script passes such a step.                                            *)
LEMMA QuietStep ==
  ASSUME BlueGreenInv, NEW o \in Operators, cmd[o].todo # <<>>, Head(cmd[o].todo) \in Asking,
         Step(o), UnchangedRouting, UNCHANGED used, Calm(o),
         Head(cmd[o].todo) = "greenReady" => service'["green"] # "down"
  PROVE  BlueGreenInv'
<1>1. PICK step, script, rolling, target :
        /\ step = Head(cmd[o].todo) /\ script = cmd[o].script
        /\ rolling = cmd[o].rolling /\ target = cmd[o].target
  BY Zenon
<1>2. /\ TypeOK /\ step \in StepsOf(script, rolling) /\ rolling \in BOOLEAN
      /\ target = IF rolling THEN "blue" ELSE Target(script)
      /\ rolling => script \in {"deploy", "switchGreen"}
  BY <1>1, AtAStep, Zenon
<1>3. PICK next \in Succ(script, step) : Advances(o, next, Outcome(o))
  BY <1>1, <1>2, StepAdvances, Zenon
<1>4. step \in Asking
  BY <1>1, Zenon
<1>5. step \notin Placing /\ next \notin Placing
  BY <1>3, <1>4, Zenon DEF Asking, Placing, Succ
<1>6. script \in Traffic => step = "test" /\ next # "end"
  BY <1>2, <1>3, <1>4, Zenon DEF StepsOf, Asking, Switching, Traffic, Succ
<1>7. next = "backup" /\ target = "green" /\ script \notin Unguarded => step = "greenReady"
  BY <1>2, <1>3, <1>4, Zenon DEF Asking, Succ, Traffic, Unguarded, Target
<1>8. script = "switchGreen" => step = "greenReady" /\ ~rolling /\ next = "backup"
  BY <1>2, <1>3, <1>4, Zenon DEF StepsOf, Asking, Switching, Traffic, Succ
<1>9. KeepsSwitch(o)
  <2>1. SUFFICES ASSUME script = "switchGreen", SwitchAt(step, cmd[o].status, rolling, loaded, service["green"])
                 PROVE  SwitchAt(First(cmd'[o].todo), cmd'[o].status, cmd'[o].rolling,
                                 loaded', service'["green"])
    BY <1>1, AtAStep, Zenon DEF KeepsSwitch
  <2>2. /\ First(cmd'[o].todo) = "backup" /\ cmd'[o].status = "running" /\ ~cmd'[o].rolling
        /\ loaded' = loaded
    BY <1>1, <1>3, <1>8, <2>1, Zenon DEF Advances, UnchangedRouting
  <2>3. loaded = "blue"
    BY <1>8, <2>1, Zenon DEF SwitchAt, BlueSteps
  <2> QED BY <2>2, <2>3, Zenon DEF SwitchAt
<1>10. Counted
  BY NothingCounted, Zenon
<1>11. Head(cmd[o].todo) \notin Placing \ {"testOld"}
  BY <1>1, <1>5, Zenon
<1>12. cmd[o].script \in Traffic => ~(next = "end" /\ Outcome(o) = "done")
  BY <1>1, <1>6, Zenon
<1>13. /\ next = "backup" /\ cmd[o].target = "green" /\ cmd[o].script \notin Unguarded
       => service'["green"] # "down"
  BY <1>1, <1>7, Zenon
<1> QED BY <1>3, <1>5, <1>9, <1>10, <1>11, <1>12, <1>13, Quiet, Zenon

(* A script fails where it is not moving the routing.                      *)
LEMMA QuietFail ==
  ASSUME BlueGreenInv, NEW o \in Operators, cmd[o].todo # <<>>,
         Head(cmd[o].todo) \notin Placing \ {"testOld"},
         Fail(o), UnchangedRouting, Counted,
         /\ cmd[o].script = "switchGreen" /\ cmd[o].env = Default
         /\ used'.faults = 0 /\ used.stops = 0
         /\ PlacedAt(First(cmd[o].todo), cmd[o].target, cmd[o].previous, cmd[o].saved,
                     upstream, loaded, colorFile)
         /\ SwitchAt(First(cmd[o].todo), cmd[o].status, cmd[o].rolling, loaded, service["green"])
         => loaded = "blue"
  PROVE  BlueGreenInv'
<1>1. TypeOK
  BY AtAStep, Zenon
<1>2. Advances(o, "end", "failed")
  BY <1>1, FailAdvances, Zenon
<1>3. Calm(o)
  BY FailIsCalm, Zenon
<1>4. "end" \notin Placing /\ "end" # "backup" /\ "failed" # "done"
  BY Zenon DEF Placing
<1>5. KeepsSwitch(o)
  <2>1. SUFFICES ASSUME loaded = "blue"
                 PROVE  SwitchAt(First(cmd'[o].todo), cmd'[o].status, cmd'[o].rolling,
                                 loaded', service'["green"])
    BY Zenon DEF KeepsSwitch
  <2>2. First(cmd'[o].todo) = "end" /\ loaded' = loaded
    BY <1>2, Zenon DEF Advances, UnchangedRouting
  <2> QED BY <2>1, <2>2, Zenon DEF SwitchAt
<1> QED BY <1>2, <1>3, <1>4, <1>5, Quiet, Zenon


(* A step that asks passes, or the script fails there.                     *)
LEMMA AskingKeeps ==
  ASSUME BlueGreenInv, NEW o \in Operators, cmd[o].todo # <<>>, Head(cmd[o].todo) \in Asking,
         (Step(o) /\ Calm(o)) \/ Fail(o), UnchangedRouting, Counted,
         Step(o) => UNCHANGED used,
         Step(o) /\ Head(cmd[o].todo) = "greenReady" => service'["green"] # "down"
  PROVE  BlueGreenInv'
<1>1. CASE Step(o) /\ Calm(o)
  BY <1>1, QuietStep, Zenon
<1>2. CASE Fail(o)
  <2>1. Head(cmd[o].todo) \notin Placing
    BY Zenon DEF Asking, Placing
  <2>2. ASSUME cmd[o].script = "switchGreen",
               SwitchAt(First(cmd[o].todo), cmd[o].status, cmd[o].rolling, loaded, service["green"])
        PROVE  loaded = "blue"
    <3>1. PICK step, rolling : step = Head(cmd[o].todo) /\ rolling = cmd[o].rolling
      BY Zenon
    <3>2. step \in StepsOf("switchGreen", rolling) /\ rolling \in BOOLEAN
      BY <2>2, <3>1, AtAStep, Zenon
    <3>3. step = "greenReady" /\ ~rolling
      BY <3>1, <3>2, Zenon DEF StepsOf, Asking, Switching, Traffic
    <3>4. SwitchAt(step, cmd[o].status, rolling, loaded, service["green"])
      BY <2>2, <3>1, AtAStep, Zenon
    <3> QED BY <3>3, <3>4, Zenon DEF SwitchAt, BlueSteps
  <2> QED BY <1>2, <2>1, <2>2, QuietFail, Zenon
<1> QED BY <1>1, <1>2, Zenon

(* compose up -d --build.                                                  *)
LEMMA UpKeeps ==
  ASSUME BlueGreenInv, NEW o \in Operators, NEW color \in Colors,
         NEW step \in {"upBlue", "upGreen"}, Up(o, color, step)
  PROVE  BlueGreenInv'
<1>1. /\ cmd[o].todo # <<>> /\ Head(cmd[o].todo) = step
      /\ UnchangedRouting /\ UNCHANGED used
      /\ \/ Fail(o)
         \/ /\ Step(o)
            /\ \/ \E s \in Running : service' = [service EXCEPT ![color] = s]
               \/ UNCHANGED service
  BY Zenon DEF Up, At
<1>2. service \in [Colors -> Running \cup {"down"}]
  BY Zenon DEF BlueGreenInv, TypeOK
<1>3. ASSUME NEW s \in Running, service' = [service EXCEPT ![color] = s] PROVE Calm(o)
  <2>1. s # "down"
    BY Zenon DEF Running
  <2>2. service' \in [Colors -> Running \cup {"down"}]
    BY <1>2, <1>3, Zenon
  <2>3. \A x \in Colors : service[x] # "down" => service'[x] # "down"
    BY <1>2, <1>3, <2>1, Zenon
  <2> QED BY <2>2, <2>3, Zenon DEF Calm, Colors
<1>4. (Step(o) /\ Calm(o)) \/ Fail(o)
  BY <1>1, <1>3, NothingStops, Zenon
<1>5. Head(cmd[o].todo) \in Asking /\ Head(cmd[o].todo) # "greenReady"
  BY <1>1, Zenon DEF Asking
<1> QED BY <1>1, <1>4, <1>5, AskingKeeps, NothingCounted, Zenon

(* The questions to the containers, to Nginx and to the checks.            *)
LEMMA QuestionsKeep ==
  ASSUME BlueGreenInv, NEW o \in Operators,
         BlueReady(o) \/ GreenReady(o) \/ Checks(o) \/ SmokeGreen(o) \/ RoutedReady(o)
  PROVE  BlueGreenInv'
<1>1. /\ cmd[o].todo # <<>>
      /\ Head(cmd[o].todo) \in {"blueReady", "greenReady", "checks", "smokeGreen", "routedReady"}
      /\ UnchangedRouting /\ UNCHANGED used
      /\ (Step(o) /\ UNCHANGED service) \/ Fail(o)
  BY Zenon DEF BlueReady, GreenReady, Checks, SmokeGreen, RoutedReady, At, Check
<1>2. Head(cmd[o].todo) \in Asking
  BY <1>1, Zenon DEF Asking
<1>3. ASSUME Step(o), Head(cmd[o].todo) = "greenReady" PROVE service'["green"] # "down"
  <2>1. GreenReady(o)
    BY <1>3, Zenon DEF BlueReady, Checks, SmokeGreen, RoutedReady, At
  <2>2. CASE Fail(o)
    <3>1. Advances(o, "end", "failed")
      BY <2>2, FailAdvances, Zenon DEF BlueGreenInv
    <3>2. PICK next \in Succ(cmd[o].script, "greenReady") : Advances(o, next, Outcome(o))
      BY <1>1, <1>3, StepAdvances, Zenon DEF BlueGreenInv
    <3>3. Outcome(o) = "failed" /\ next = "end"
      BY <3>1, <3>2, Zenon DEF Advances
    <3>4. cmd[o].rolling /\ "greenReady" \in StepsOf(cmd[o].script, cmd[o].rolling)
          /\ cmd[o].script \in {"deploy", "switchGreen"}
      BY <1>1, <1>3, <3>3, AtAStep, Zenon DEF Outcome
    <3> QED BY <3>4, Zenon DEF StepsOf, Switching, Traffic
  <2>3. CASE ~Fail(o)
    BY <2>1, <2>3, Zenon DEF GreenReady, Check, Ready
  <2> QED BY <2>2, <2>3, Zenon
<1>4. (Step(o) /\ Calm(o)) \/ Fail(o)
  BY <1>1, NothingStops, Zenon
<1> QED BY <1>1, <1>2, <1>3, <1>4, AskingKeeps, NothingCounted, Zenon

(* rollback_to_blue.sh stops Green.                                        *)
LEMMA StopGreenKeeps ==
  ASSUME BlueGreenInv, NEW o \in Operators, StopGreen(o)
  PROVE  BlueGreenInv'
<1>1. /\ cmd[o].todo # <<>> /\ Head(cmd[o].todo) = "stopGreen" /\ Step(o)
      /\ UnchangedRouting /\ UNCHANGED used
      /\ service' = [service EXCEPT !["green"] = "down"] \/ service' = service
  BY Zenon DEF StopGreen, At
<1>2. service \in [Colors -> Running \cup {"down"}]
  BY Zenon DEF BlueGreenInv, TypeOK
<1>3. "stopGreen" \in StepsOf(cmd[o].script, cmd[o].rolling)
  BY <1>1, AtAStep, Zenon
<1>4. cmd[o].script \in Unguarded
  BY <1>3, Zenon DEF StepsOf, Switching, Traffic, Unguarded
<1>5. /\ service' \in [Colors -> Running \cup {"down"}]
      /\ service["blue"] # "down" => service'["blue"] # "down"
  BY <1>1, <1>2, Zenon DEF Colors
<1>6. Calm(o)
  BY <1>4, <1>5, Zenon DEF Calm
<1>7. Head(cmd[o].todo) \in Asking /\ Head(cmd[o].todo) # "greenReady"
  BY <1>1, Zenon DEF Asking
<1> QED BY <1>1, <1>6, <1>7, AskingKeeps, NothingCounted, Zenon


(* switch_to_green asks which colour is active.                            *)
LEMMA AlreadyGreenKeeps ==
  ASSUME BlueGreenInv, NEW o \in Operators, AlreadyGreen(o)
  PROVE  BlueGreenInv'
<1>1. /\ cmd[o].todo # <<>> /\ Head(cmd[o].todo) = "isGreen"
      /\ UnchangedRouting /\ UNCHANGED used /\ UNCHANGED service
      /\ IF CurrentActiveColor = "green" THEN Goto(o, <<>>) ELSE Step(o)
  BY Zenon DEF AlreadyGreen, At
<1>2. /\ TypeOK /\ "isGreen" \in StepsOf(cmd[o].script, cmd[o].rolling)
      /\ First(cmd[o].todo) = "isGreen"
  BY <1>1, AtAStep, Zenon
<1>3. ~cmd[o].rolling /\ cmd[o].script \notin Traffic
  <2>1. cmd[o].rolling => cmd[o].script \in {"deploy", "switchGreen"}
    BY <1>1, AtAStep, Zenon
  <2> QED BY <1>2, <2>1, Zenon DEF StepsOf, Switching, Traffic
<1>4. PICK next \in {"end", "greenReady"} :
        /\ Advances(o, next, Outcome(o))
        /\ next = "greenReady" => CurrentActiveColor # "green"
  <2>1. CASE CurrentActiveColor = "green"
    <3>1. PICK rest : rest = <<>>
      OBVIOUS
    <3>2. Path(cmd[o].script, rest) /\ First(rest) = "end" /\ "end" # "isBlue"
          /\ "end" \in StepsOf(cmd[o].script, cmd[o].rolling) /\ "end" # "greenReady"
      BY <3>1, MayEnd, Zenon
    <3> QED BY <1>1, <1>2, <2>1, <3>1, <3>2, GotoAdvances, Zenon
  <2>2. CASE CurrentActiveColor # "green"
    <3>1. PICK next \in Succ(cmd[o].script, "isGreen") : Advances(o, next, Outcome(o))
      BY <1>1, <1>2, <2>2, StepAdvances, Zenon
    <3>2. next = "greenReady"
      BY <3>1, Zenon DEF Succ
    <3> QED BY <2>2, <3>1, <3>2, Zenon
  <2> QED BY <2>1, <2>2, Zenon
<1>5. KeepsSwitch(o)
  <2>1. SUFFICES ASSUME PlacedAt("isGreen", cmd[o].target, cmd[o].previous, cmd[o].saved,
                                 upstream, loaded, colorFile)
                 PROVE  SwitchAt(First(cmd'[o].todo), cmd'[o].status, cmd'[o].rolling,
                                 loaded', service'["green"])
    BY <1>2, Zenon DEF KeepsSwitch
  <2>2. loaded = upstream /\ colorFile \in {"absent", loaded} /\ loaded \in Colors
    BY <1>2, <2>1, Zenon DEF PlacedAt, TypeOK
  <2>3. next = "greenReady" => loaded = "blue"
    BY <1>4, <2>2, Zenon DEF CurrentActiveColor, Colors
  <2>4. /\ First(cmd'[o].todo) = next /\ ~cmd'[o].rolling /\ loaded' = loaded
        /\ cmd'[o].status # "failed"
    BY <1>1, <1>3, <1>4, Zenon DEF Advances, UnchangedRouting, Outcome
  <2> QED BY <1>4, <2>3, <2>4, Zenon DEF SwitchAt, BlueSteps
<1>6. "isGreen" \notin Placing /\ next \notin Placing /\ next # "backup"
  BY <1>4, Zenon DEF Placing
<1> QED BY <1>1, <1>3, <1>4, <1>5, <1>6, Quiet, NothingCounted, NothingStops, Zenon

(* What follows the switch of rollback.sh and of rollback_to_blue.sh.      *)
LEMMA AfterAlreadyBlue ==
  ASSUME BlueGreenInv, NEW o \in Operators, cmd[o].todo # <<>>, Head(cmd[o].todo) = "isBlue"
  PROVE  LET rest == (IF cmd[o].script = "rollbackToBlue" THEN <<"test">> ELSE <<>>)
                     \o SubSeq(cmd[o].todo, Len(SetActiveUpstream) + 2, Len(cmd[o].todo)) IN
         /\ Path(cmd[o].script, rest)
         /\ First(rest) = IF cmd[o].script = "rollbackToBlue" THEN "test" ELSE "routed"
         /\ First(rest) \in StepsOf(cmd[o].script, cmd[o].rolling)
<1>1. PICK script, todo, suffix : /\ script = cmd[o].script /\ todo = cmd[o].todo
                                  /\ suffix = SubSeq(todo, 8, Len(todo))
  BY Zenon
<1>2. Len(SetActiveUpstream) + 2 = 8
  BY DEF SetActiveUpstream
<1>3. /\ CommandOK(cmd[o]) /\ First(todo) = "isBlue"
      /\ "isBlue" \in StepsOf(script, cmd[o].rolling)
      /\ script \in DOMAIN Program \cup {"none"}
  BY <1>1, AtAStep, Zenon DEF CommandOK
<1>4. todo = IF script = "rollbackToBlue" THEN Program["rollbackToBlue"] ELSE Rollback
  BY <1>1, <1>3, Zenon DEF CommandOK
<1>5. script \in {"rollbackToBlue", "rollback", "deploy", "switchGreen"}
  BY <1>3, Zenon DEF StepsOf, Switching, Traffic, Program
<1>6. CASE script = "rollbackToBlue"
  <2>1. Path(script, todo) /\ 8 \in 1 .. Len(todo) /\ todo[8] = "routedReady"
    BY <1>4, <1>6, RollbackToBluePath, Zenon
  <2>2. Path(script, suffix) /\ suffix # <<>> /\ Head(suffix) = "routedReady"
    <3>1. /\ Path(script, SubSeq(todo, 8, Len(todo))) /\ SubSeq(todo, 8, Len(todo)) # <<>>
          /\ Head(SubSeq(todo, 8, Len(todo))) = todo[8]
      BY <2>1, SuffixPath, Zenon
    <3> QED BY <1>1, <2>1, <3>1, Zenon
  <2>3. PICK a : a = <<"test">>
    BY Zenon
  <2>4. Segment(script, a, "routedReady") /\ a # <<>> /\ Head(a) = "test"
    <3>1. "test" \in Steps
      BY Zenon DEF Steps
    <3>2. "routedReady" \in Succ(script, "test")
      BY <1>6, Zenon DEF Succ, Traffic
    <3>3. Segment(script, <<"test">>, "routedReady") /\ <<"test">> # <<>> /\ Head(<<"test">>) = "test"
      BY <3>1, <3>2, OneStep, Zenon
    <3> QED BY <2>3, <3>3, Zenon
  <2>5. Segment(script, suffix, "end")
    BY <2>2, Zenon DEF Path
  <2>6. Segment(script, a \o suffix, "end") /\ a \o suffix # <<>> /\ Head(a \o suffix) = "test"
    BY ONLY <2>2, <2>4, <2>5, Joined
  <2>7. Path(script, a \o suffix) /\ First(a \o suffix) = "test"
    BY <2>6, Zenon DEF Path, First
  <2>8. "test" \in StepsOf(script, cmd[o].rolling)
    BY <1>6, Zenon DEF StepsOf, Traffic
  <2> QED BY <1>1, <1>2, <1>6, <2>3, <2>7, <2>8, Zenon
<1>7. CASE script # "rollbackToBlue"
  <2>1. Path(script, todo) /\ 8 \in 1 .. Len(todo) /\ todo[8] = "routed"
    BY <1>4, <1>5, <1>7, RollbackPath, Zenon
  <2>2. Path(script, suffix) /\ suffix # <<>> /\ Head(suffix) = "routed"
    <3>1. /\ Path(script, SubSeq(todo, 8, Len(todo))) /\ SubSeq(todo, 8, Len(todo)) # <<>>
          /\ Head(SubSeq(todo, 8, Len(todo))) = todo[8]
      BY <2>1, SuffixPath, Zenon
    <3> QED BY <1>1, <2>1, <3>1, Zenon
  <2>3. <<>> \o suffix = suffix
    <3>1. suffix \in Seq(Steps)
      BY <2>2, Zenon DEF Path, Segment
    <3> QED BY ONLY <3>1
  <2>4. First(suffix) = "routed"
    BY <2>2, Zenon DEF First
  <2>5. "routed" \in StepsOf(script, cmd[o].rolling)
    BY <1>5, <1>7, Zenon DEF StepsOf, Traffic, Steps
  <2> QED BY <1>1, <1>2, <1>7, <2>2, <2>3, <2>4, <2>5, Zenon
<1> QED BY <1>6, <1>7, Zenon


(* rollback.sh and rollback_to_blue.sh ask which colour is active.         *)
LEMMA AlreadyBlueKeeps ==
  ASSUME BlueGreenInv, NEW o \in Operators, AlreadyBlue(o)
  PROVE  BlueGreenInv'
<1>1. /\ cmd[o].todo # <<>> /\ Head(cmd[o].todo) = "isBlue"
      /\ UnchangedRouting /\ UNCHANGED used /\ UNCHANGED service
  BY Zenon DEF AlreadyBlue, At
<1>2. /\ TypeOK /\ "isBlue" \in StepsOf(cmd[o].script, cmd[o].rolling)
      /\ First(cmd[o].todo) = "isBlue" /\ cmd[o].status = "running"
      /\ cmd[o].target = IF cmd[o].rolling THEN "blue" ELSE Target(cmd[o].script)
  BY <1>1, AtAStep, Zenon
<1>3. cmd[o].target # "green" /\ cmd[o].script \notin Traffic
      /\ (cmd[o].script = "switchGreen" => cmd[o].rolling)
  BY <1>2, Zenon DEF StepsOf, Switching, Traffic, Target
<1>4. PICK next \in {"test", "routed", "backup"} :
        /\ Advances(o, next, Outcome(o))
        /\ next = "routed" => CurrentActiveColor = "blue"
  <2>1. CASE CurrentActiveColor = "blue"
    <3>1. PICK rest :
            rest = (IF cmd[o].script = "rollbackToBlue" THEN <<"test">> ELSE <<>>)
                   \o SubSeq(cmd[o].todo, Len(SetActiveUpstream) + 2, Len(cmd[o].todo))
      BY Zenon
    <3>2. Goto(o, rest)
      BY <2>1, <3>1, Zenon DEF AlreadyBlue
    <3>3. /\ Path(cmd[o].script, rest)
          /\ First(rest) = IF cmd[o].script = "rollbackToBlue" THEN "test" ELSE "routed"
          /\ First(rest) \in StepsOf(cmd[o].script, cmd[o].rolling)
      BY <1>1, <3>1, AfterAlreadyBlue, Zenon
    <3>4. First(rest) \in {"test", "routed"} /\ First(rest) # "isBlue"
      BY <3>3, Zenon
    <3> QED BY <1>2, <2>1, <3>2, <3>3, <3>4, GotoAdvances, Zenon
  <2>2. CASE CurrentActiveColor # "blue"
    <3>0. Step(o)
      BY <2>2, Zenon DEF AlreadyBlue
    <3>1. PICK next \in Succ(cmd[o].script, "isBlue") : Advances(o, next, Outcome(o))
      BY <1>1, <1>2, <3>0, StepAdvances, Zenon
    <3>2. next = "backup"
      BY <3>1, Zenon DEF Succ
    <3> QED BY <3>1, <3>2, Zenon
  <2> QED BY <2>1, <2>2, Zenon
<1>5. KeepsSwitch(o)
  <2>1. SUFFICES ASSUME cmd[o].rolling,
                        PlacedAt("isBlue", cmd[o].target, cmd[o].previous, cmd[o].saved,
                                 upstream, loaded, colorFile),
                        SwitchAt("isBlue", "running", cmd[o].rolling, loaded, service["green"])
                 PROVE  SwitchAt(First(cmd'[o].todo), cmd'[o].status, cmd'[o].rolling,
                                 loaded', service'["green"])
    BY <1>2, <1>3, Zenon DEF KeepsSwitch
  <2>2. loaded = upstream /\ colorFile \in {"absent", loaded}
    BY <2>1, Zenon DEF PlacedAt
  <2>3. next = "routed" => loaded = "blue"
    BY <1>4, <2>2, Zenon DEF CurrentActiveColor
  <2>4. service["green"] # "down"
    BY <2>1, Zenon DEF SwitchAt
  <2>5. /\ First(cmd'[o].todo) = next /\ cmd'[o].rolling /\ loaded' = loaded
        /\ cmd'[o].status = "running" /\ service' = service
    BY <1>1, <1>4, <2>1, Zenon DEF Advances, UnchangedRouting
  <2> QED BY <1>4, <2>3, <2>4, <2>5, Zenon DEF SwitchAt, BlueSteps
<1>6. "isBlue" \notin Placing /\ next \notin Placing /\ next # "end"
  BY <1>4, Zenon DEF Placing
<1> QED BY <1>1, <1>3, <1>4, <1>5, <1>6, Quiet, NothingCounted, NothingStops, Zenon

-----------------------------------------------------------------------------
(* set_active_upstream *)

(* The snippet and the colour the scripts show are saved.                  *)
LEMMA BackupKeeps ==
  ASSUME BlueGreenInv, NEW o \in Operators, Backup(o)
  PROVE  BlueGreenInv'
<1>1. /\ cmd[o].todo # <<>> /\ Head(cmd[o].todo) = "backup"
      /\ UnchangedRouting /\ UNCHANGED used /\ UNCHANGED service
      /\ cmd' = [cmd EXCEPT ![o].previous = CurrentActiveColor, ![o].saved = upstream,
                            ![o].todo = Tail(@)]
  BY Zenon DEF Backup, At
<1>2. /\ TypeOK /\ CommandOK(cmd[o]) /\ "backup" \in StepsOf(cmd[o].script, cmd[o].rolling)
      /\ First(cmd[o].todo) = "backup" /\ cmd[o].status = "running"
  BY <1>1, AtAStep, Zenon
<1>3. upstream' = upstream /\ loaded' = loaded /\ colorFile' = colorFile /\ used' = used
      /\ service' = service
  BY <1>1, Zenon DEF UnchangedRouting
<1>4. /\ Only(o) /\ cmd'[o] = [cmd[o] EXCEPT !.previous = CurrentActiveColor,
                                             !.saved = upstream, !.todo = Tail(cmd[o].todo)]
  <2>1. cmd = [p \in Operators |-> cmd[p]] /\ DOMAIN cmd[o] = CommandFields
    BY <1>2, Zenon DEF TypeOK, CommandOK
  <2> QED BY <1>1, <2>1, Zenon DEF Only, CommandFields
<1>5. PICK c, rest : c = cmd'[o] /\ rest = Tail(cmd[o].todo)
  BY Zenon
<1>6. /\ DOMAIN c = CommandFields /\ c.todo = rest /\ c.saved = upstream
      /\ c.previous = CurrentActiveColor /\ c.status = cmd[o].status
      /\ c.script = cmd[o].script /\ c.env = cmd[o].env
      /\ c.target = cmd[o].target /\ c.rolling = cmd[o].rolling
  <2>1. DOMAIN cmd[o] = CommandFields
    BY <1>2, Zenon DEF CommandOK
  <2> QED BY ONLY <1>4, <1>5, <2>1 DEF CommandFields
<1>7. Path(c.script, rest) /\ First(rest) = "testOld"
  <2>1. Path(cmd[o].script, rest) /\ First(rest) \in Succ(cmd[o].script, "backup")
    BY <1>1, <1>2, <1>5, TailPath, Zenon DEF CommandOK
  <2>2. First(rest) = "testOld"
    BY <2>1, Zenon DEF Succ
  <2> QED BY <1>6, <2>1, <2>2, Zenon
<1>8. "testOld" \in StepsOf(c.script, c.rolling)
  <2>1. "testOld" \in Succ(cmd[o].script, "backup") /\ "backup" # "end"
    BY Zenon DEF Succ
  <2>2. cmd[o].script \in DOMAIN Program \cup {"none"} /\ cmd[o].rolling \in BOOLEAN
    BY <1>2, Zenon DEF CommandOK
  <2> QED BY <1>2, <1>6, <2>1, <2>2, StepsClosed, Zenon
<1>9. CommandOK(c)
  <2>1. rest # <<>> /\ "testOld" # "isBlue"
    BY <1>7, Zenon DEF First
  <2>2. c.saved \in Colors /\ c.previous \in Colors
    BY <1>2, <1>6, Zenon DEF TypeOK, CurrentActiveColor
  <2>3. /\ c.script \in DOMAIN Program \cup {"none"} /\ c.rolling \in BOOLEAN
        /\ c.rolling => c.script \in {"deploy", "switchGreen"}
        /\ c.target = IF c.rolling THEN "blue" ELSE Target(c.script)
    BY <1>2, <1>6, Zenon DEF CommandOK
  <2> QED BY <1>2, <1>6, <1>7, <1>8, <2>1, <2>2, <2>3, Zenon DEF CommandOK
<1>10. SameScript(o)
  BY <1>4, <1>5, <1>6, <1>9, Zenon DEF SameScript
<1>11. RoutingOK
  BY <1>2, <1>3, Zenon DEF RoutingOK, TypeOK
<1>12. KeepsPlaced(o)
  <2>1. SUFFICES ASSUME PlacedAt("backup", cmd[o].target, cmd[o].previous, cmd[o].saved,
                                 upstream, loaded, colorFile)
                 PROVE  PlacedAt("testOld", c.target, c.previous, c.saved,
                                 upstream, loaded, colorFile)
    BY <1>2, <1>3, <1>5, <1>6, <1>7, Zenon DEF KeepsPlaced
  <2>2. loaded = upstream /\ colorFile \in {"absent", loaded}
    BY <2>1, Zenon DEF PlacedAt
  <2> QED BY <1>6, <2>2, Zenon DEF PlacedAt, CurrentActiveColor
<1>13. KeepsSwitch(o)
  <2>1. SUFFICES ASSUME SwitchAt("backup", "running", cmd[o].rolling, loaded, service["green"])
                 PROVE  SwitchAt("testOld", "running", cmd[o].rolling, loaded, service["green"])
    BY <1>2, <1>3, <1>5, <1>6, <1>7, Zenon DEF KeepsSwitch
  <2> QED BY <2>1, Zenon DEF SwitchAt, BlueSteps
<1>14. KeepsTraffic(o)
  <2>1. TrafficAt("testOld", "running", c.target, upstream, loaded, colorFile)
    BY Zenon DEF TrafficAt
  <2> QED BY <1>2, <1>3, <1>5, <1>6, <1>7, <2>1, Zenon DEF KeepsTraffic
<1>15. KeepsGuarded(o)
  <2>1. GuardedAt("backup", cmd[o].target, service["green"]) =>
          GuardedAt("testOld", cmd[o].target, service["green"])
    BY Zenon DEF GuardedAt
  <2>2. "backup" \notin {"testNew", "reload"}
    OBVIOUS
  <2> QED BY <1>2, <1>3, <1>5, <1>6, <1>7, <2>1, <2>2, Zenon DEF KeepsGuarded
<1> QED BY <1>1, <1>10, <1>11, <1>12, <1>13, <1>14, <1>15, StepKeeps, NothingCounted, NothingStops, Zenon


(* A step of set_active_upstream that goes on, or ends, with its script.   *)
LEMMA PlacingStep ==
  ASSUME BlueGreenInv, NEW o \in Operators, cmd[o].todo # <<>>, NEW step, Head(cmd[o].todo) = step,
         NEW next, NEW outcome, Advances(o, next, outcome), Counted, UNCHANGED service, RoutingOK,
         NEW status, status = IF next = "end" THEN outcome ELSE "running",
         PlacedAt(step, cmd[o].target, cmd[o].previous, cmd[o].saved, upstream, loaded, colorFile)
         => PlacedAt(next, cmd[o].target, cmd[o].previous, cmd[o].saved, upstream', loaded', colorFile'),
         /\ cmd[o].script = "switchGreen" /\ used'.faults = 0 /\ used.stops = 0
         /\ PlacedAt(step, cmd[o].target, cmd[o].previous, cmd[o].saved, upstream, loaded, colorFile)
         /\ SwitchAt(step, "running", cmd[o].rolling, loaded, service["green"])
         => SwitchAt(next, status, cmd[o].rolling, loaded', service["green"]),
         cmd[o].script \in Traffic /\ TrafficAt(step, "running", cmd[o].target, upstream, loaded, colorFile)
         => TrafficAt(next, status, cmd[o].target, upstream', loaded', colorFile'),
         /\ used'.faults = 0 /\ used.stops = 0 /\ cmd[o].script \notin Unguarded
         /\ service[upstream] # "down" /\ GuardedAt(step, cmd[o].target, service["green"])
         => /\ service[upstream'] # "down" /\ GuardedAt(next, cmd[o].target, service["green"])
            /\ \/ loaded' = upstream' \/ next \in {"testNew", "reload"}
               \/ loaded # upstream /\ step \notin {"testNew", "reload"}
  PROVE  BlueGreenInv'
<1>1. First(cmd[o].todo) = step /\ cmd[o].status = "running"
  BY AtAStep, Zenon
<1>2. /\ Only(o) /\ CommandOK(cmd'[o])
      /\ First(cmd'[o].todo) = next /\ cmd'[o].status = status
      /\ cmd'[o].script = cmd[o].script /\ cmd'[o].target = cmd[o].target
      /\ cmd'[o].rolling = cmd[o].rolling /\ cmd'[o].env = cmd[o].env
      /\ cmd'[o].saved = cmd[o].saved /\ cmd'[o].previous = cmd[o].previous
  BY Zenon DEF Advances
<1>3. SameScript(o)
  BY <1>2, Zenon DEF SameScript
<1>4. KeepsPlaced(o)
  BY <1>1, <1>2, Zenon DEF KeepsPlaced
<1>5. KeepsSwitch(o)
  BY <1>1, <1>2, Zenon DEF KeepsSwitch
<1>6. KeepsTraffic(o)
  BY <1>1, <1>2, Zenon DEF KeepsTraffic
<1>7. KeepsGuarded(o)
  BY <1>1, <1>2, Zenon DEF KeepsGuarded
<1> QED BY <1>3, <1>4, <1>5, <1>6, <1>7, StepKeeps, NothingStops, Zenon

(* nginx -t, before a switch and as a check of its own.                    *)
LEMMA NginxTestKeeps ==
  ASSUME BlueGreenInv, NEW o \in Operators, NginxTest(o)
  PROVE  BlueGreenInv'
<1>1. /\ cmd[o].todo # <<>> /\ Head(cmd[o].todo) \in {"test", "testOld"} /\ UnchangedRouting
      /\ \/ Step(o) /\ UNCHANGED service /\ UNCHANGED used
         \/ ~NginxAccepts /\ Fail(o) /\ UNCHANGED used
         \/ NginxFault /\ Fail(o)
  BY Zenon DEF NginxTest, At, Check
<1>2. TypeOK /\ BlueUp
  BY Zenon DEF BlueGreenInv
<1>3. Counted
  BY <1>1, NothingCounted, FaultCounted, Zenon
<1>4. upstream' = upstream /\ loaded' = loaded /\ colorFile' = colorFile
  BY <1>1, Zenon DEF UnchangedRouting
<1>5. RoutingOK
  BY <1>2, <1>4, Zenon DEF RoutingOK, TypeOK
<1>6. CASE Step(o) /\ UNCHANGED service /\ UNCHANGED used /\ Head(cmd[o].todo) = "testOld"
  <2>1. PICK next \in Succ(cmd[o].script, "testOld") : Advances(o, next, Outcome(o))
    BY <1>1, <1>2, <1>6, StepAdvances, Zenon
  <2>2. next = "move"
    BY <2>1, Zenon DEF Succ
  <2>3. Advances(o, "move", Outcome(o)) /\ "move" # "end"
    BY <2>1, <2>2, Zenon
  <2>4. PlacedAt("testOld", cmd[o].target, cmd[o].previous, cmd[o].saved, upstream, loaded, colorFile)
        => PlacedAt("move", cmd[o].target, cmd[o].previous, cmd[o].saved, upstream', loaded', colorFile')
    BY <1>4, Zenon DEF PlacedAt
  <2>5. SwitchAt("testOld", "running", cmd[o].rolling, loaded, service["green"])
        => SwitchAt("move", "running", cmd[o].rolling, loaded', service["green"])
    BY <1>4, Zenon DEF SwitchAt, BlueSteps
  <2>6. TrafficAt("move", "running", cmd[o].target, upstream', loaded', colorFile')
    BY Zenon DEF TrafficAt
  <2>7. GuardedAt("testOld", cmd[o].target, service["green"]) =>
          GuardedAt("move", cmd[o].target, service["green"])
    BY Zenon DEF GuardedAt
  <2>8. "testOld" \notin {"testNew", "reload"}
    OBVIOUS
  <2> QED BY <1>3, <1>4, <1>5, <1>1, <1>6, <2>3, <2>4, <2>5, <2>6, <2>7, <2>8, PlacingStep, Zenon
<1>7. CASE Fail(o) /\ Head(cmd[o].todo) = "testOld"
  <2>1. ASSUME used'.faults = 0, used.stops = 0,
               SwitchAt("testOld", cmd[o].status, cmd[o].rolling, loaded, service["green"])
        PROVE  loaded = "blue"
    <3>1. cmd[o].rolling \in BOOLEAN
      BY <1>1, AtAStep, Zenon
    <3>2. CASE cmd[o].rolling
      <4>1. service["green"] # "down" /\ service["blue"] # "down"
        BY <1>2, <2>1, <3>2, Zenon DEF SwitchAt, BlueUp
      <4>2. NginxAccepts
        BY <1>2, <4>1, Zenon DEF NginxAccepts, TypeOK, Colors
      <4>3. Step(o)
        BY <1>1, <2>1, <4>2, FaultCounted, Zenon
      <4>4. Advances(o, "end", "failed")
        BY <1>2, <1>7, FailAdvances, Zenon
      <4>5. PICK next \in Succ(cmd[o].script, "testOld") : Advances(o, next, Outcome(o))
        BY <1>1, <1>2, <1>7, <4>3, StepAdvances, Zenon
      <4> QED BY <4>4, <4>5, Zenon DEF Advances, Succ
    <3>3. CASE ~cmd[o].rolling
      BY <2>1, <3>3, Zenon DEF SwitchAt, BlueSteps
    <3> QED BY <3>1, <3>2, <3>3, Zenon
  <2>2. First(cmd[o].todo) = "testOld"
    BY <1>1, <1>7, AtAStep, Zenon
  <2>3. "testOld" \notin Placing \ {"testOld"}
    OBVIOUS
  <2> QED BY <1>1, <1>3, <1>7, <2>1, <2>2, <2>3, QuietFail, Zenon
<1>8. CASE Head(cmd[o].todo) = "test"
  <2>1. (Step(o) /\ Calm(o)) \/ Fail(o)
    BY <1>1, NothingStops, Zenon
  <2>2. "test" \in Asking /\ "test" # "greenReady"
    BY Zenon DEF Asking
  <2>3. CASE Step(o) /\ UNCHANGED used /\ UNCHANGED service
    BY <1>1, <1>3, <1>8, <2>2, <2>3, QuietStep, NothingStops, Zenon
  <2>4. CASE Fail(o)
    <3>1. "test" \in StepsOf(cmd[o].script, cmd[o].rolling)
      BY <1>1, <1>8, AtAStep, Zenon
    <3>2. cmd[o].script # "switchGreen"
      BY <3>1, Zenon DEF StepsOf, Switching, Traffic
    <3>3. "test" \notin Placing
      BY Zenon DEF Placing
    <3> QED BY <1>1, <1>3, <1>8, <2>4, <3>2, <3>3, QuietFail, Zenon
  <2> QED BY <1>1, <2>3, <2>4, Zenon
<1> QED BY <1>1, <1>6, <1>7, <1>8, Zenon


(* The target of a script is a colour.                                     *)
LEMMA TargetIsAColor ==
  ASSUME BlueGreenInv, NEW o \in Operators, cmd[o].todo # <<>>
  PROVE  /\ cmd[o].target \in Colors /\ cmd[o].saved \in Colors /\ cmd[o].previous \in Colors
         /\ cmd[o].script = "switchGreen" => cmd[o].target = IF cmd[o].rolling THEN "blue" ELSE "green"
         /\ TypeOK /\ upstream \in Colors /\ loaded \in Colors /\ colorFile \in Colors \cup {"absent"}
         /\ BlueUp
<1>1. /\ cmd[o].target = IF cmd[o].rolling THEN "blue" ELSE Target(cmd[o].script)
      /\ CommandOK(cmd[o]) /\ TypeOK
  BY AtAStep, Zenon
<1>2. \A s : Target(s) \in Colors
  BY Zenon DEF Target, Colors
<1>3. Target("switchGreen") = "green" /\ "blue" \in Colors
  BY Zenon DEF Target, Colors
<1>4. cmd[o].target \in Colors
  BY <1>1, <1>2, <1>3, Zenon
<1>5. cmd[o].script = "switchGreen" => cmd[o].target = IF cmd[o].rolling THEN "blue" ELSE "green"
  BY <1>1, <1>3, Zenon
<1>6. cmd[o].saved \in Colors /\ cmd[o].previous \in Colors
  BY <1>1, Zenon DEF CommandOK
<1>7. upstream \in Colors /\ loaded \in Colors /\ colorFile \in Colors \cup {"absent"}
  BY <1>1, Zenon DEF TypeOK
<1> QED BY <1>1, <1>4, <1>5, <1>6, <1>7, Zenon DEF BlueGreenInv

(* The snippet of the target is moved into place.                          *)
LEMMA MoveKeeps ==
  ASSUME BlueGreenInv, NEW o \in Operators, Move(o)
  PROVE  BlueGreenInv'
<1>1. /\ cmd[o].todo # <<>> /\ Head(cmd[o].todo) = "move" /\ Step(o)
      /\ upstream' = cmd[o].target /\ loaded' = loaded /\ colorFile' = colorFile
      /\ UNCHANGED service /\ UNCHANGED used
  BY Zenon DEF Move, At
<1>2. /\ cmd[o].target \in Colors /\ TypeOK /\ BlueUp
      /\ upstream \in Colors /\ loaded \in Colors /\ colorFile \in Colors \cup {"absent"}
  BY <1>1, TargetIsAColor, Zenon
<1>3. RoutingOK
  BY <1>1, <1>2, Zenon DEF RoutingOK
<1>4. Advances(o, "testNew", Outcome(o))
  <2>1. PICK next \in Succ(cmd[o].script, "move") : Advances(o, next, Outcome(o))
    BY <1>1, <1>2, StepAdvances, Zenon
  <2> QED BY <2>1, Zenon DEF Succ
<1>5. "testNew" # "end" /\ "testNew" \in {"testNew", "reload"}
  OBVIOUS
<1>6. PlacedAt("move", cmd[o].target, cmd[o].previous, cmd[o].saved, upstream, loaded, colorFile)
      => PlacedAt("testNew", cmd[o].target, cmd[o].previous, cmd[o].saved, upstream', loaded', colorFile')
  BY <1>1, Zenon DEF PlacedAt
<1>7. SwitchAt("move", "running", cmd[o].rolling, loaded, service["green"])
      => SwitchAt("testNew", "running", cmd[o].rolling, loaded', service["green"])
  BY <1>1, Zenon DEF SwitchAt, BlueSteps
<1>8. TrafficAt("testNew", "running", cmd[o].target, upstream', loaded', colorFile')
  BY <1>1, Zenon DEF TrafficAt
<1>9. used.stops = 0 /\ GuardedAt("move", cmd[o].target, service["green"])
      => service[upstream'] # "down" /\ GuardedAt("testNew", cmd[o].target, service["green"])
  BY <1>1, <1>2, Zenon DEF GuardedAt, BlueUp, Colors
<1> QED BY <1>1, <1>3, <1>4, <1>5, <1>6, <1>7, <1>8, <1>9, PlacingStep, NothingCounted, Zenon

(* What follows when Nginx does not take the new snippet.                  *)
LEMMA RestoreAdvances ==
  ASSUME BlueGreenInv, NEW o \in Operators, cmd[o].todo # <<>>,
         Head(cmd[o].todo) \in {"testNew", "reload"}, NEW rest,
         rest \in {<<"restore", "recordPrevious", "fail">>,
                   <<"restore", "recordPrevious", "reloadOld", "fail">>},
         Goto(o, rest)
  PROVE  Advances(o, "restore", Outcome(o))
<1>1. PICK script, rolling : script = cmd[o].script /\ rolling = cmd[o].rolling
  BY Zenon
<1>2. TypeOK /\ Head(cmd[o].todo) \in StepsOf(script, rolling)
  BY <1>1, AtAStep, Zenon
<1>3. /\ "recordPrevious" \in Succ(script, "restore") /\ "fail" \in Succ(script, "recordPrevious")
      /\ "reloadOld" \in Succ(script, "recordPrevious") /\ "fail" \in Succ(script, "reloadOld")
      /\ "end" \in Succ(script, "fail")
  BY Zenon DEF Succ
<1>4. {"restore", "recordPrevious", "reloadOld", "fail"} \subseteq Steps
  BY Zenon DEF Steps, Switching
<1>5. Path(script, rest)
  <2>1. CASE rest = <<"restore", "recordPrevious", "fail">>
    <3>1. rest \in Seq(Steps) /\ Len(rest) = 3
      BY <1>4, <2>1
    <3>2. ASSUME NEW i \in 1 .. 3
          PROVE  IF i < 3 THEN rest[i + 1] \in Succ(script, rest[i])
                 ELSE "end" \in Succ(script, rest[i])
      <4>1. i = 1 \/ i = 2 \/ i = 3
        OBVIOUS
      <4> QED BY <1>3, <2>1, <4>1
    <3> QED BY <3>1, <3>2, Zenon DEF Path, Segment
  <2>2. CASE rest = <<"restore", "recordPrevious", "reloadOld", "fail">>
    <3>1. rest \in Seq(Steps) /\ Len(rest) = 4
      BY <1>4, <2>2
    <3>2. ASSUME NEW i \in 1 .. 4
          PROVE  IF i < 4 THEN rest[i + 1] \in Succ(script, rest[i])
                 ELSE "end" \in Succ(script, rest[i])
      <4>1. i = 1 \/ i = 2 \/ i = 3 \/ i = 4
        OBVIOUS
      <4> QED BY <1>3, <2>2, <4>1
    <3> QED BY <3>1, <3>2, Zenon DEF Path, Segment
  <2> QED BY <2>1, <2>2, Zenon
<1>6. First(rest) = "restore"
  BY DEF First
<1>7. "restore" \in StepsOf(script, rolling) /\ "restore" # "isBlue"
  BY <1>2, Zenon DEF StepsOf, Switching, Steps
<1> QED BY <1>1, <1>2, <1>5, <1>6, <1>7, GotoAdvances, Zenon

(* The switch goes back when Nginx does not take the snippet: that is the  *)
(* fault of Nginx, or of a target that does not run.                       *)
LEMMA GoesBack ==
  ASSUME BlueGreenInv, NEW o \in Operators, cmd[o].todo # <<>>,
         NEW step \in {"testNew", "reload"}, Head(cmd[o].todo) = step,
         Advances(o, "restore", Outcome(o)), UnchangedRouting, UNCHANGED service,
         \/ ~NginxAccepts /\ UNCHANGED used
         \/ NginxFault
  PROVE  BlueGreenInv'
<1>1. /\ cmd[o].target \in Colors /\ TypeOK /\ BlueUp
      /\ upstream \in Colors /\ loaded \in Colors /\ colorFile \in Colors \cup {"absent"}
      /\ cmd[o].script = "switchGreen" => cmd[o].target = IF cmd[o].rolling THEN "blue" ELSE "green"
  BY TargetIsAColor, Zenon
<1>2. upstream' = upstream /\ loaded' = loaded /\ colorFile' = colorFile
  BY Zenon DEF UnchangedRouting
<1>3. RoutingOK
  BY <1>1, <1>2, Zenon DEF RoutingOK
<1>4. Counted /\ (used'.faults = 0 => ~NginxAccepts)
  BY NothingCounted, FaultCounted, Zenon
<1>5. PlacedAt(step, cmd[o].target, cmd[o].previous, cmd[o].saved, upstream, loaded, colorFile)
      => PlacedAt("restore", cmd[o].target, cmd[o].previous, cmd[o].saved, upstream', loaded', colorFile')
  BY <1>2, Zenon DEF PlacedAt
<1>6. ASSUME cmd[o].script = "switchGreen", used'.faults = 0, used.stops = 0,
             PlacedAt(step, cmd[o].target, cmd[o].previous, cmd[o].saved, upstream, loaded, colorFile),
             SwitchAt(step, "running", cmd[o].rolling, loaded, service["green"])
      PROVE  SwitchAt("restore", "running", cmd[o].rolling, loaded', service["green"])
  <2>1. service[upstream] = "down" /\ service["blue"] # "down"
    BY <1>1, <1>4, <1>6, Zenon DEF NginxAccepts, BlueUp
  <2>2. upstream = cmd[o].target
    BY <1>6, Zenon DEF PlacedAt
  <2>3. ~cmd[o].rolling
    BY <1>1, <1>6, <2>1, <2>2, Zenon
  <2>4. loaded = "blue"
    BY <1>6, <2>3, Zenon DEF SwitchAt, BlueSteps
  <2> QED BY <1>2, <2>3, <2>4, Zenon DEF SwitchAt
<1>7. TrafficAt("restore", "running", cmd[o].target, upstream', loaded', colorFile')
  BY Zenon DEF TrafficAt
<1>8. ~(used'.faults = 0 /\ service[upstream] # "down")
  BY <1>4, Zenon DEF NginxAccepts
<1>9. "restore" # "end"
  OBVIOUS
<1> QED BY <1>3, <1>4, <1>5, <1>6, <1>7, <1>8, <1>9, PlacingStep, Zenon


(* nginx -t on the new snippet.                                            *)
LEMMA TestNewKeeps ==
  ASSUME BlueGreenInv, NEW o \in Operators, TestNew(o)
  PROVE  BlueGreenInv'
<1>1. /\ cmd[o].todo # <<>> /\ Head(cmd[o].todo) = "testNew"
      /\ UnchangedRouting /\ UNCHANGED service
      /\ \/ Step(o) /\ UNCHANGED used
         \/ ~NginxAccepts /\ Goto(o, <<"restore", "recordPrevious", "fail">>) /\ UNCHANGED used
         \/ NginxFault /\ Goto(o, <<"restore", "recordPrevious", "fail">>)
  BY Zenon DEF TestNew, At
<1>2. /\ TypeOK /\ upstream \in Colors /\ loaded \in Colors /\ colorFile \in Colors \cup {"absent"}
  BY <1>1, TargetIsAColor, Zenon
<1>3. CASE Step(o) /\ UNCHANGED used
  <2>1. upstream' = upstream /\ loaded' = loaded /\ colorFile' = colorFile
    BY <1>1, Zenon DEF UnchangedRouting
  <2>2. RoutingOK
    BY <1>2, <2>1, Zenon DEF RoutingOK
  <2>3. Advances(o, "reload", Outcome(o))
    <3>1. PICK next \in Succ(cmd[o].script, "testNew") : Advances(o, next, Outcome(o))
      BY <1>1, <1>2, <1>3, StepAdvances, Zenon
    <3> QED BY <3>1, Zenon DEF Succ
  <2>4. "reload" # "end" /\ "reload" \in {"testNew", "reload"}
    OBVIOUS
  <2>5. PlacedAt("testNew", cmd[o].target, cmd[o].previous, cmd[o].saved, upstream, loaded, colorFile)
        => PlacedAt("reload", cmd[o].target, cmd[o].previous, cmd[o].saved, upstream', loaded', colorFile')
    BY <2>1, Zenon DEF PlacedAt
  <2>6. SwitchAt("testNew", "running", cmd[o].rolling, loaded, service["green"])
        => SwitchAt("reload", "running", cmd[o].rolling, loaded', service["green"])
    BY <2>1, Zenon DEF SwitchAt, BlueSteps
  <2>7. TrafficAt("testNew", "running", cmd[o].target, upstream, loaded, colorFile)
        => TrafficAt("reload", "running", cmd[o].target, upstream', loaded', colorFile')
    BY <2>1, Zenon DEF TrafficAt
  <2>8. GuardedAt("reload", cmd[o].target, service["green"])
    BY Zenon DEF GuardedAt
  <2> QED BY <1>1, <1>3, <2>1, <2>2, <2>3, <2>4, <2>5, <2>6, <2>7, <2>8, PlacingStep, NothingCounted, Zenon
<1>4. CASE Goto(o, <<"restore", "recordPrevious", "fail">>) /\ ((~NginxAccepts /\ UNCHANGED used) \/ NginxFault)
  <2>1. PICK rest : rest = <<"restore", "recordPrevious", "fail">>
    BY Zenon
  <2>2. rest \in {<<"restore", "recordPrevious", "fail">>,
                  <<"restore", "recordPrevious", "reloadOld", "fail">>}
    BY <2>1, Zenon
  <2>3. Goto(o, rest) /\ "testNew" \in {"testNew", "reload"}
    BY <1>4, <2>1, Zenon
  <2>4. Advances(o, "restore", Outcome(o))
    BY <1>1, <2>2, <2>3, RestoreAdvances, Zenon
  <2> QED BY <1>1, <1>4, <2>3, <2>4, GoesBack, Zenon
<1> QED BY <1>1, <1>3, <1>4, Zenon

(* nginx -s reload.                                                        *)
LEMMA ReloadKeeps ==
  ASSUME BlueGreenInv, NEW o \in Operators, Reload(o)
  PROVE  BlueGreenInv'
<1> DEFINE back == <<"restore", "recordPrevious", "reloadOld", "fail">>
<1>1. /\ cmd[o].todo # <<>> /\ Head(cmd[o].todo) = "reload"
      /\ UNCHANGED service /\ upstream' = upstream /\ colorFile' = colorFile
      /\ \/ NginxAccepts /\ Step(o) /\ loaded' = upstream /\ UNCHANGED used
         \/ ~NginxAccepts /\ Goto(o, back) /\ loaded' = loaded /\ UNCHANGED used
         \/ NginxFault /\ Goto(o, back) /\ loaded' = loaded
  BY Zenon DEF Reload, At
<1>2. /\ TypeOK /\ upstream \in Colors /\ loaded \in Colors /\ colorFile \in Colors \cup {"absent"}
      /\ cmd[o].script = "switchGreen" => cmd[o].target = IF cmd[o].rolling THEN "blue" ELSE "green"
      /\ cmd[o].rolling \in BOOLEAN
  BY <1>1, TargetIsAColor, AtAStep, Zenon
<1>3. CASE NginxAccepts /\ Step(o) /\ loaded' = upstream /\ UNCHANGED used
  <2>2. RoutingOK
    BY <1>1, <1>2, <1>3, Zenon DEF RoutingOK
  <2>3. Advances(o, "record", Outcome(o))
    <3>1. PICK next \in Succ(cmd[o].script, "reload") : Advances(o, next, Outcome(o))
      BY <1>1, <1>2, <1>3, StepAdvances, Zenon
    <3> QED BY <3>1, Zenon DEF Succ
  <2>4. "record" # "end"
    OBVIOUS
  <2>5. PlacedAt("reload", cmd[o].target, cmd[o].previous, cmd[o].saved, upstream, loaded, colorFile)
        => PlacedAt("record", cmd[o].target, cmd[o].previous, cmd[o].saved, upstream', loaded', colorFile')
    BY <1>1, <1>3, Zenon DEF PlacedAt
  <2>6. ASSUME cmd[o].script = "switchGreen",
               PlacedAt("reload", cmd[o].target, cmd[o].previous, cmd[o].saved, upstream, loaded, colorFile)
        PROVE  SwitchAt("record", "running", cmd[o].rolling, loaded', service["green"])
    <3>1. upstream = cmd[o].target
      BY <2>6, Zenon DEF PlacedAt
    <3>2. cmd[o].rolling => loaded' = "blue"
      BY <1>2, <1>3, <2>6, <3>1, Zenon
    <3>3. ~cmd[o].rolling => service["green"] # "down"
      BY <1>2, <1>3, <2>6, <3>1, Zenon DEF NginxAccepts
    <3> QED BY <1>2, <3>2, <3>3, Zenon DEF SwitchAt, BlueSteps
  <2>7. TrafficAt("reload", "running", cmd[o].target, upstream, loaded, colorFile)
        => TrafficAt("record", "running", cmd[o].target, upstream', loaded', colorFile')
    BY <1>1, <1>3, Zenon DEF TrafficAt
  <2>8. GuardedAt("record", cmd[o].target, service["green"])
    BY Zenon DEF GuardedAt
  <2> QED BY <1>1, <1>3, <2>2, <2>3, <2>4, <2>5, <2>6, <2>7, <2>8, PlacingStep, NothingCounted, Zenon
<1>4. CASE Goto(o, back) /\ loaded' = loaded /\ ((~NginxAccepts /\ UNCHANGED used) \/ NginxFault)
  <2>1. PICK rest : rest = <<"restore", "recordPrevious", "reloadOld", "fail">>
    BY Zenon
  <2>2. rest \in {<<"restore", "recordPrevious", "fail">>,
                  <<"restore", "recordPrevious", "reloadOld", "fail">>}
    BY <2>1, Zenon
  <2>3. Goto(o, rest) /\ "reload" \in {"testNew", "reload"}
    BY <1>4, <2>1, Zenon
  <2>4. Advances(o, "restore", Outcome(o))
    BY <1>1, <2>2, <2>3, RestoreAdvances, Zenon
  <2>5. UnchangedRouting
    BY <1>1, <1>4, Zenon DEF UnchangedRouting
  <2> QED BY <1>1, <1>4, <2>3, <2>4, <2>5, GoesBack, Zenon
<1> QED BY <1>1, <1>3, <1>4, Zenon

(* The saved snippet is put back.                                          *)
LEMMA RestoreKeeps ==
  ASSUME BlueGreenInv, NEW o \in Operators, Restore(o)
  PROVE  BlueGreenInv'
<1>1. /\ cmd[o].todo # <<>> /\ Head(cmd[o].todo) = "restore" /\ Step(o)
      /\ upstream' = cmd[o].saved /\ loaded' = loaded /\ colorFile' = colorFile
      /\ UNCHANGED service /\ UNCHANGED used
  BY Zenon DEF Restore, At
<1>2. /\ TypeOK /\ loaded \in Colors /\ colorFile \in Colors \cup {"absent"}
      /\ cmd[o].saved \in Colors /\ cmd[o].rolling \in BOOLEAN
  BY <1>1, TargetIsAColor, AtAStep, Zenon
<1>3. RoutingOK
  BY <1>1, <1>2, Zenon DEF RoutingOK
<1>4. Advances(o, "recordPrevious", Outcome(o))
  <2>1. PICK next \in Succ(cmd[o].script, "restore") : Advances(o, next, Outcome(o))
    BY <1>1, <1>2, StepAdvances, Zenon
  <2> QED BY <2>1, Zenon DEF Succ
<1>5. "recordPrevious" # "end"
  OBVIOUS
<1>6. PlacedAt("restore", cmd[o].target, cmd[o].previous, cmd[o].saved, upstream, loaded, colorFile)
      => PlacedAt("recordPrevious", cmd[o].target, cmd[o].previous, cmd[o].saved, upstream', loaded', colorFile')
  BY <1>1, Zenon DEF PlacedAt
<1>7. SwitchAt("restore", "running", cmd[o].rolling, loaded, service["green"])
      => SwitchAt("recordPrevious", "running", cmd[o].rolling, loaded', service["green"])
  BY <1>1, <1>2, Zenon DEF SwitchAt, BlueSteps
<1>8. TrafficAt("recordPrevious", "running", cmd[o].target, upstream', loaded', colorFile')
  BY Zenon DEF TrafficAt
<1>9. ~GuardedAt("restore", cmd[o].target, service["green"])
  BY Zenon DEF GuardedAt
<1> QED BY <1>1, <1>3, <1>4, <1>5, <1>6, <1>7, <1>8, <1>9, PlacingStep, NothingCounted, Zenon


(* The colour file goes back to what it showed.                            *)
LEMMA RecordPreviousKeeps ==
  ASSUME BlueGreenInv, NEW o \in Operators, RecordPrevious(o)
  PROVE  BlueGreenInv'
<1>1. /\ cmd[o].todo # <<>> /\ Head(cmd[o].todo) = "recordPrevious" /\ Step(o)
      /\ upstream' = upstream /\ loaded' = loaded /\ colorFile' = cmd[o].previous
      /\ UNCHANGED service /\ UNCHANGED used
  BY Zenon DEF RecordPrevious, At
<1>2. /\ TypeOK /\ loaded \in Colors /\ upstream \in Colors
      /\ cmd[o].previous \in Colors /\ cmd[o].rolling \in BOOLEAN
  BY <1>1, TargetIsAColor, AtAStep, Zenon
<1>3. RoutingOK
  BY <1>1, <1>2, Zenon DEF RoutingOK
<1>4. PICK next \in {"reloadOld", "fail"} : Advances(o, next, Outcome(o))
  <2>1. PICK next \in Succ(cmd[o].script, "recordPrevious") : Advances(o, next, Outcome(o))
    BY <1>1, <1>2, StepAdvances, Zenon
  <2>2. next \in {"reloadOld", "fail"}
    BY <2>1, Zenon DEF Succ
  <2> QED BY <2>1, <2>2, Zenon
<1>5. next # "end" /\ "recordPrevious" \notin {"testNew", "reload"}
  BY <1>4, Zenon
<1>6. PlacedAt("recordPrevious", cmd[o].target, cmd[o].previous, cmd[o].saved, upstream, loaded, colorFile)
      => PlacedAt(next, cmd[o].target, cmd[o].previous, cmd[o].saved, upstream', loaded', colorFile')
  BY <1>1, <1>4, Zenon DEF PlacedAt
<1>7. SwitchAt("recordPrevious", "running", cmd[o].rolling, loaded, service["green"])
      => SwitchAt(next, "running", cmd[o].rolling, loaded', service["green"])
  BY <1>1, <1>2, <1>4, Zenon DEF SwitchAt, BlueSteps
<1>8. TrafficAt(next, "running", cmd[o].target, upstream', loaded', colorFile')
  BY <1>4, Zenon DEF TrafficAt
<1>9. GuardedAt(next, cmd[o].target, service["green"])
  BY <1>4, Zenon DEF GuardedAt
<1> QED BY <1>1, <1>3, <1>4, <1>5, <1>6, <1>7, <1>8, <1>9, PlacingStep, NothingCounted, Zenon

(* Nginx is asked to take the old snippet again.                           *)
LEMMA ReloadOldKeeps ==
  ASSUME BlueGreenInv, NEW o \in Operators, ReloadOld(o)
  PROVE  BlueGreenInv'
<1>1. /\ cmd[o].todo # <<>> /\ Head(cmd[o].todo) = "reloadOld" /\ Step(o)
      /\ upstream' = upstream /\ colorFile' = colorFile /\ UNCHANGED service
      /\ loaded' = upstream \/ loaded' = loaded
      /\ UNCHANGED used \/ NginxFault
  BY Zenon DEF ReloadOld, At
<1>2. /\ TypeOK /\ loaded \in Colors /\ upstream \in Colors /\ colorFile \in Colors \cup {"absent"}
      /\ cmd[o].rolling \in BOOLEAN
  BY <1>1, TargetIsAColor, AtAStep, Zenon
<1>3. RoutingOK
  BY <1>1, <1>2, Zenon DEF RoutingOK
<1>4. Advances(o, "fail", Outcome(o))
  <2>1. PICK next \in Succ(cmd[o].script, "reloadOld") : Advances(o, next, Outcome(o))
    BY <1>1, <1>2, StepAdvances, Zenon
  <2> QED BY <2>1, Zenon DEF Succ
<1>5. "fail" # "end" /\ "reloadOld" \notin {"testNew", "reload"}
  OBVIOUS
<1>6. PlacedAt("reloadOld", cmd[o].target, cmd[o].previous, cmd[o].saved, upstream, loaded, colorFile)
      => /\ PlacedAt("fail", cmd[o].target, cmd[o].previous, cmd[o].saved, upstream', loaded', colorFile')
         /\ loaded' = loaded
  BY <1>1, Zenon DEF PlacedAt
<1>7. SwitchAt("reloadOld", "running", cmd[o].rolling, loaded, service["green"])
      => SwitchAt("fail", "running", cmd[o].rolling, loaded, service["green"])
  BY <1>2, Zenon DEF SwitchAt, BlueSteps
<1>8. TrafficAt("fail", "running", cmd[o].target, upstream', loaded', colorFile')
  BY Zenon DEF TrafficAt
<1>9. GuardedAt("fail", cmd[o].target, service["green"])
  BY Zenon DEF GuardedAt
<1>10. Counted
  BY <1>1, NothingCounted, FaultCounted, Zenon
<1> QED BY <1>1, <1>3, <1>4, <1>5, <1>6, <1>7, <1>8, <1>9, <1>10, PlacingStep, Zenon

(* A switch that went back fails.                                          *)
LEMMA GiveUpKeeps ==
  ASSUME BlueGreenInv, NEW o \in Operators, GiveUp(o)
  PROVE  BlueGreenInv'
<1>1. /\ cmd[o].todo # <<>> /\ Head(cmd[o].todo) = "fail" /\ Fail(o)
      /\ UnchangedRouting /\ UNCHANGED used
  BY Zenon DEF GiveUp, At
<1>2. First(cmd[o].todo) = "fail" /\ cmd[o].rolling \in BOOLEAN
  BY <1>1, AtAStep, Zenon
<1>3. SwitchAt("fail", cmd[o].status, cmd[o].rolling, loaded, service["green"]) => loaded = "blue"
  BY <1>2, Zenon DEF SwitchAt, BlueSteps
<1>4. "fail" \notin Placing
  BY Zenon DEF Placing
<1> QED BY <1>1, <1>2, <1>3, <1>4, QuietFail, NothingCounted, Zenon

(* The colour file takes the target.                                       *)
LEMMA RecordKeeps ==
  ASSUME BlueGreenInv, NEW o \in Operators, Record(o)
  PROVE  BlueGreenInv'
<1>1. /\ cmd[o].todo # <<>> /\ Head(cmd[o].todo) = "record" /\ Step(o)
      /\ upstream' = upstream /\ loaded' = loaded /\ colorFile' = cmd[o].target
      /\ UNCHANGED service /\ UNCHANGED used
  BY Zenon DEF Record, At
<1>2. /\ TypeOK /\ loaded \in Colors /\ upstream \in Colors
      /\ cmd[o].target \in Colors /\ cmd[o].rolling \in BOOLEAN
  BY <1>1, TargetIsAColor, AtAStep, Zenon
<1>3. RoutingOK
  BY <1>1, <1>2, Zenon DEF RoutingOK
<1>4. PICK next \in {"end", "routedReady", "routed"} :
        Advances(o, next, Outcome(o)) /\ (cmd[o].script = "switchGreen" => next = "routed")
  <2>1. PICK next \in Succ(cmd[o].script, "record") : Advances(o, next, Outcome(o))
    BY <1>1, <1>2, StepAdvances, Zenon
  <2>2. /\ next \in {"end", "routedReady", "routed"}
        /\ cmd[o].script = "switchGreen" => next = "routed"
    BY <2>1, Zenon DEF Succ, Traffic
  <2> QED BY <2>1, <2>2, Zenon
<1>5. PICK status : status = IF next = "end" THEN Outcome(o) ELSE "running"
  OBVIOUS
<1>6. PlacedAt("record", cmd[o].target, cmd[o].previous, cmd[o].saved, upstream, loaded, colorFile)
      => PlacedAt(next, cmd[o].target, cmd[o].previous, cmd[o].saved, upstream', loaded', colorFile')
  BY <1>1, <1>4, Zenon DEF PlacedAt
<1>7. cmd[o].script = "switchGreen" /\ SwitchAt("record", "running", cmd[o].rolling, loaded, service["green"])
      => SwitchAt(next, status, cmd[o].rolling, loaded', service["green"])
  BY <1>1, <1>2, <1>4, <1>5, Zenon DEF SwitchAt, BlueSteps
<1>8. TrafficAt("record", "running", cmd[o].target, upstream, loaded, colorFile)
      => TrafficAt(next, status, cmd[o].target, upstream', loaded', colorFile')
  BY <1>1, <1>4, Zenon DEF TrafficAt
<1>9. GuardedAt(next, cmd[o].target, service["green"])
  BY <1>4, Zenon DEF GuardedAt
<1>10. "record" \notin {"testNew", "reload"}
  OBVIOUS
<1> QED BY <1>1, <1>3, <1>4, <1>5, <1>6, <1>7, <1>8, <1>9, <1>10, PlacingStep, NothingCounted, Zenon


-----------------------------------------------------------------------------
(* After the switch *)

(* A failed check through Nginx starts the rollback.                       *)
LEMMA RollingKeeps ==
  ASSUME BlueGreenInv, NEW o \in Operators, cmd[o].todo # <<>>, Head(cmd[o].todo) = "routed",
         ~(cmd[o].script = "rollback" \/ cmd[o].rolling),
         cmd' = [cmd EXCEPT ![o].todo = Rollback, ![o].target = "blue", ![o].rolling = TRUE],
         UNCHANGED service, UnchangedRouting, UNCHANGED used
  PROVE  BlueGreenInv'
<1>1. /\ TypeOK /\ CommandOK(cmd[o]) /\ "routed" \in StepsOf(cmd[o].script, cmd[o].rolling)
      /\ First(cmd[o].todo) = "routed" /\ cmd[o].status = "running"
  BY AtAStep, Zenon
<1>2. cmd[o].script \in {"deploy", "switchGreen"}
  <2>1. cmd[o].script \in DOMAIN Program \cup {"none"}
    BY <1>1, Zenon DEF CommandOK
  <2> QED BY <1>1, <2>1, Zenon DEF StepsOf, Switching, Traffic, Program
<1>3. /\ Only(o) /\ cmd'[o] = [cmd[o] EXCEPT !.todo = Rollback, !.target = "blue", !.rolling = TRUE]
  <2>1. cmd = [p \in Operators |-> cmd[p]] /\ DOMAIN cmd[o] = CommandFields
    BY <1>1, Zenon DEF TypeOK, CommandOK
  <2> QED BY <2>1, Zenon DEF Only, CommandFields
<1>4. PICK c, rollback : c = cmd'[o] /\ rollback = Rollback
  OBVIOUS
<1>5. /\ DOMAIN c = CommandFields /\ c.todo = rollback /\ c.saved = cmd[o].saved
      /\ c.previous = cmd[o].previous /\ c.status = cmd[o].status
      /\ c.script = cmd[o].script /\ c.env = cmd[o].env
      /\ c.target = "blue" /\ c.rolling = TRUE
  <2>1. DOMAIN cmd[o] = CommandFields
    BY <1>1, Zenon DEF CommandOK
  <2> QED BY ONLY <1>3, <1>4, <2>1 DEF CommandFields
<1>6. Path(c.script, rollback) /\ rollback # <<>> /\ First(rollback) = "isBlue"
  BY <1>2, <1>4, <1>5, RollbackPath, Zenon DEF First
<1>7. "isBlue" \in StepsOf(c.script, c.rolling) /\ c.script # "rollbackToBlue"
  BY <1>2, <1>5, Zenon DEF StepsOf, Traffic
<1>8. CommandOK(c)
  <2>1. /\ c.script \in DOMAIN Program \cup {"none"} /\ c.saved \in Colors /\ c.previous \in Colors
    BY <1>1, <1>5, Zenon DEF CommandOK
  <2>2. c.rolling \in BOOLEAN /\ c.script \in {"deploy", "switchGreen"}
    BY <1>2, <1>5, Zenon
  <2> QED BY <1>1, <1>4, <1>5, <1>6, <1>7, <2>1, <2>2, Zenon DEF CommandOK
<1>9. SameScript(o)
  BY <1>3, <1>4, <1>5, <1>8, Zenon DEF SameScript
<1>10. upstream' = upstream /\ loaded' = loaded /\ colorFile' = colorFile /\ service' = service
  BY Zenon DEF UnchangedRouting
<1>11. RoutingOK
  BY <1>1, <1>10, Zenon DEF RoutingOK, TypeOK
<1>12. KeepsPlaced(o)
  <2>1. PlacedAt("routed", cmd[o].target, cmd[o].previous, cmd[o].saved, upstream, loaded, colorFile)
        => PlacedAt("isBlue", c.target, c.previous, c.saved, upstream, loaded, colorFile)
    BY Zenon DEF PlacedAt
  <2> QED BY <1>1, <1>4, <1>5, <1>6, <1>10, <2>1, Zenon DEF KeepsPlaced
<1>13. KeepsSwitch(o)
  <2>1. SwitchAt("routed", "running", cmd[o].rolling, loaded, service["green"])
        => SwitchAt("isBlue", "running", c.rolling, loaded, service["green"])
    BY <1>5, Zenon DEF SwitchAt, BlueSteps
  <2> QED BY <1>1, <1>4, <1>5, <1>6, <1>10, <2>1, Zenon DEF KeepsSwitch
<1>14. KeepsTraffic(o)
  <2>1. cmd[o].script \notin Traffic
    BY <1>2, Zenon DEF Traffic
  <2> QED BY <2>1, Zenon DEF KeepsTraffic
<1>15. KeepsGuarded(o)
  <2>1. GuardedAt("isBlue", c.target, service["green"]) /\ "routed" \notin {"testNew", "reload"}
    BY Zenon DEF GuardedAt
  <2> QED BY <1>1, <1>4, <1>5, <1>6, <1>10, <2>1, Zenon DEF KeepsGuarded
<1> QED BY <1>9, <1>11, <1>12, <1>13, <1>14, <1>15, StepKeeps, NothingCounted, NothingStops, Zenon

(* The checks through Nginx after a switch.                                *)
LEMMA RoutedKeeps ==
  ASSUME BlueGreenInv, NEW o \in Operators, Routed(o)
  PROVE  BlueGreenInv'
<1>1. /\ cmd[o].todo # <<>> /\ Head(cmd[o].todo) = "routed" /\ UnchangedRouting /\ UNCHANGED used
      /\ \/ Step(o) /\ UNCHANGED service
         \/ IF cmd[o].script = "rollback" \/ cmd[o].rolling
            THEN Fail(o) ELSE HandlePostSwitchFailure(o)
  BY Zenon DEF Routed, At
<1>2. /\ TypeOK /\ "routed" \in StepsOf(cmd[o].script, cmd[o].rolling)
      /\ First(cmd[o].todo) = "routed" /\ cmd[o].status = "running" /\ cmd[o].rolling \in BOOLEAN
  BY <1>1, AtAStep, Zenon
<1>3. cmd[o].script \notin Traffic
  BY <1>2, Zenon DEF StepsOf, Switching, Traffic
<1>4. "routed" \notin Placing /\ "ledger" \notin Placing /\ "ledger" # "backup" /\ "ledger" # "end"
  BY Zenon DEF Placing
<1>5. CASE Step(o) /\ UNCHANGED service
  <2>1. Advances(o, "ledger", Outcome(o))
    <3>1. PICK next \in Succ(cmd[o].script, "routed") : Advances(o, next, Outcome(o))
      BY <1>1, <1>2, <1>5, StepAdvances, Zenon
    <3> QED BY <3>1, Zenon DEF Succ
  <2>2. KeepsSwitch(o)
    <3>1. SwitchAt("routed", "running", cmd[o].rolling, loaded, service["green"])
          => SwitchAt("ledger", "running", cmd[o].rolling, loaded, service["green"])
      BY <1>2, Zenon DEF SwitchAt, BlueSteps
    <3>2. /\ First(cmd'[o].todo) = "ledger" /\ cmd'[o].status = "running"
          /\ cmd'[o].rolling = cmd[o].rolling /\ loaded' = loaded /\ service' = service
      BY <1>1, <1>4, <1>5, <2>1, Zenon DEF Advances, UnchangedRouting
    <3> QED BY <1>2, <3>1, <3>2, Zenon DEF KeepsSwitch
  <2> QED BY <1>1, <1>3, <1>4, <1>5, <2>1, <2>2, Quiet, NothingCounted, NothingStops, Zenon
<1>6. CASE Fail(o) /\ (cmd[o].env = Default => cmd[o].script = "rollback" \/ cmd[o].rolling)
  <2>1. ASSUME cmd[o].script = "switchGreen", cmd[o].env = Default,
               SwitchAt("routed", cmd[o].status, cmd[o].rolling, loaded, service["green"])
        PROVE  loaded = "blue"
    <3>1. cmd[o].rolling
      BY <1>6, <2>1, Zenon
    <3> QED BY <2>1, <3>1, Zenon DEF SwitchAt
  <2> QED BY <1>1, <1>2, <1>4, <1>6, <2>1, QuietFail, NothingCounted, Zenon
<1>7. CASE HandlePostSwitchFailure(o) /\ ~(cmd[o].script = "rollback" \/ cmd[o].rolling)
  <2>1. CASE cmd[o].env.auto
    BY <1>1, <1>7, <2>1, RollingKeeps, Zenon DEF HandlePostSwitchFailure
  <2>2. CASE ~cmd[o].env.auto
    <3>1. cmd[o].env # Default
      BY <2>2 DEF Default
    <3> QED BY <1>6, <1>7, <2>2, <3>1, Zenon DEF HandlePostSwitchFailure
  <2> QED BY <2>1, <2>2, Zenon
<1> QED BY <1>1, <1>5, <1>6, <1>7, Zenon

(* deploy-verify, when it is enabled.                                      *)
LEMMA LedgerKeeps ==
  ASSUME BlueGreenInv, NEW o \in Operators, LedgerCheck(o)
  PROVE  BlueGreenInv'
<1>1. /\ cmd[o].todo # <<>> /\ Head(cmd[o].todo) = "ledger" /\ UnchangedRouting /\ UNCHANGED used
      /\ \/ Step(o) /\ UNCHANGED service
         \/ cmd[o].env.verify /\ Fail(o)
  BY Zenon DEF LedgerCheck, Check, At
<1>2. /\ TypeOK /\ "ledger" \in StepsOf(cmd[o].script, cmd[o].rolling)
      /\ First(cmd[o].todo) = "ledger" /\ cmd[o].status = "running" /\ cmd[o].rolling \in BOOLEAN
  BY <1>1, AtAStep, Zenon
<1>3. cmd[o].script \notin Traffic
  BY <1>2, Zenon DEF StepsOf, Switching, Traffic
<1>4. "ledger" \notin Placing /\ "end" \notin Placing /\ "end" # "backup"
  BY Zenon DEF Placing
<1>5. CASE Step(o) /\ UNCHANGED service
  <2>1. Advances(o, "end", Outcome(o))
    <3>1. PICK next \in Succ(cmd[o].script, "ledger") : Advances(o, next, Outcome(o))
      BY <1>1, <1>2, <1>5, StepAdvances, Zenon
    <3> QED BY <3>1, Zenon DEF Succ
  <2>2. KeepsSwitch(o)
    <3>1. SwitchAt("ledger", "running", cmd[o].rolling, loaded, service["green"])
          => SwitchAt("end", Outcome(o), cmd[o].rolling, loaded, service["green"])
      BY <1>2, Zenon DEF SwitchAt, BlueSteps, Outcome
    <3>2. /\ First(cmd'[o].todo) = "end" /\ cmd'[o].status = Outcome(o)
          /\ cmd'[o].rolling = cmd[o].rolling /\ loaded' = loaded /\ service' = service
      BY <1>1, <1>5, <2>1, Zenon DEF Advances, UnchangedRouting
    <3> QED BY <1>2, <3>1, <3>2, Zenon DEF KeepsSwitch
  <2> QED BY <1>1, <1>3, <1>4, <1>5, <2>1, <2>2, Quiet, NothingCounted, NothingStops, Zenon
<1>6. CASE cmd[o].env.verify /\ Fail(o)
  <2>1. cmd[o].env # Default
    BY <1>6 DEF Default
  <2> QED BY <1>1, <1>4, <1>6, <2>1, QuietFail, NothingCounted, Zenon
<1> QED BY <1>1, <1>5, <1>6, Zenon


-----------------------------------------------------------------------------
(* Scripts that start and are killed, containers that stop *)

(* A container stops.                                                      *)
LEMMA ContainerStopsKeeps ==
  ASSUME BlueGreenInv, NEW color \in Colors, ContainerStops(color)
  PROVE  BlueGreenInv'
<1>0. /\ TypeOK /\ Alone /\ ShownInv /\ TrafficInv
  BY Zenon DEF BlueGreenInv
<1>1. /\ used' = [used EXCEPT !["stops"] = @ + 1]
      /\ service' = [service EXCEPT ![color] = "down"]
      /\ upstream' = upstream /\ loaded' = loaded /\ colorFile' = colorFile /\ cmd' = cmd
  BY Zenon DEF ContainerStops, Spend, UnchangedRouting
<1>2. DOMAIN used = UsedFields /\ used.stops \in Nat
  BY <1>0, Zenon DEF TypeOK
<1>3. /\ DOMAIN used' = UsedFields /\ used'.stops = used.stops + 1
      /\ used'.faults = used.faults /\ used'.kills = used.kills /\ used'.latest = used.latest
      /\ used'.overlapped = used.overlapped /\ used'.unguarded = used.unguarded
  BY ONLY <1>1, <1>2 DEF UsedFields
<1>4. used'.stops \in Nat /\ used'.stops # 0
  BY <1>2, <1>3
<1>5. service' \in [Colors -> Running \cup {"down"}]
  BY <1>0, <1>1, Zenon DEF TypeOK
<1>6. TypeOK'
  BY <1>0, <1>1, <1>3, <1>4, <1>5, Zenon DEF TypeOK
<1>7. Alone'
  BY <1>0, <1>1, <1>3, Zenon DEF Alone
<1>8. ShownInv'
  BY <1>0, <1>1, <1>3, Zenon DEF ShownInv, NoKills, AtRest, Agree, Placed
<1>9. SwitchInv' /\ SnippetInv' /\ BlueUp'
  BY <1>4, Zenon DEF SwitchInv, SnippetInv, BlueUp, NoFaults
<1>10. TrafficInv'
  BY <1>0, <1>1, <1>3, Zenon DEF TrafficInv
<1> QED BY <1>6, <1>7, <1>8, <1>9, <1>10, Zenon DEF BlueGreenInv

(* A script is killed between two steps.                                   *)
LEMMA KillKeeps ==
  ASSUME BlueGreenInv, NEW o \in Operators, Kill(o)
  PROVE  BlueGreenInv'
<1>0. TypeOK /\ Alone /\ TrafficInv /\ BlueUp
  BY Zenon DEF BlueGreenInv
<1>1. PICK rest, status :
        /\ rest = <<>> /\ status = "killed"
        /\ cmd' = [cmd EXCEPT ![o].todo = rest, ![o].status = status]
  BY Zenon DEF Kill
<1>2. /\ used' = [used EXCEPT !["kills"] = @ + 1] /\ service' = service
      /\ upstream' = upstream /\ loaded' = loaded /\ colorFile' = colorFile
      /\ cmd[o].todo # <<>>
  BY Zenon DEF Kill, Spend, UnchangedRouting
<1>3. DOMAIN used = UsedFields /\ used.kills \in Nat
  BY <1>0, Zenon DEF TypeOK
<1>4. /\ DOMAIN used' = UsedFields /\ used'.kills = used.kills + 1
      /\ used'.faults = used.faults /\ used'.stops = used.stops /\ used'.latest = used.latest
      /\ used'.overlapped = used.overlapped /\ used'.unguarded = used.unguarded
  BY ONLY <1>2, <1>3 DEF UsedFields
<1>5. used'.kills \in Nat /\ used'.kills # 0
  BY <1>3, <1>4
<1>6. Path(cmd[o].script, rest) /\ First(rest) = "end"
  BY <1>1, MayEnd, Zenon
<1>7. First(rest) \in StepsOf(cmd[o].script, cmd[o].rolling) /\ First(rest) # "isBlue"
  BY <1>6, MayEnd, Zenon
<1>8. Advances(o, First(rest), "killed")
  BY <1>0, <1>1, <1>6, <1>7, ReplacedAdvances, Zenon
<1>9. /\ Only(o) /\ CommandOK(cmd'[o]) /\ First(cmd'[o].todo) = "end" /\ cmd'[o].status = "killed"
      /\ cmd'[o].script = cmd[o].script /\ cmd'[o].target = cmd[o].target
  BY <1>6, <1>8, Zenon DEF Advances
<1>10. \A p \in Operators : p # o => cmd'[p] = cmd[p]
  BY <1>9, Zenon DEF Only
<1>11. TypeOK'
  <2>1. \A p \in Operators : CommandOK(cmd'[p])
    BY <1>0, <1>9, <1>10, Zenon DEF TypeOK
  <2>2. cmd' = [p \in Operators |-> cmd'[p]]
    BY <1>9, Zenon DEF Only
  <2> QED BY <1>0, <1>2, <1>4, <1>5, <2>1, <2>2, Zenon DEF TypeOK
<1>12. Alone'
  BY <1>0, <1>2, <1>4, <1>10, Zenon DEF Alone
<1>13. ShownInv' /\ SwitchInv' /\ SnippetInv'
  BY <1>5, Zenon DEF ShownInv, SwitchInv, SnippetInv, NoKills
<1>14. TrafficInv'
  <2>1. SUFFICES ASSUME NEW p \in Operators, p = used'.latest, cmd'[p].script \in Traffic,
                        ~used'.overlapped
                 PROVE  TrafficAt(First(cmd'[p].todo), cmd'[p].status, cmd'[p].target,
                                  upstream', loaded', colorFile')
    BY Zenon DEF TrafficInv
  <2>2. CASE p = o
    BY <1>9, <2>2, Zenon DEF TrafficAt
  <2>3. CASE p # o
    BY <1>0, <1>2, <1>4, <1>10, <2>1, <2>3, Zenon DEF TrafficInv
  <2> QED BY <2>2, <2>3, Zenon
<1>15. BlueUp'
  BY <1>0, <1>2, <1>4, Zenon DEF BlueUp
<1> QED BY <1>11, <1>12, <1>13, <1>14, <1>15, Zenon DEF BlueGreenInv

(* A script starts.                                                        *)
LEMMA StartScriptKeeps ==
  ASSUME BlueGreenInv, NEW o \in Operators, NEW script \in Scripts, NEW env,
         StartScript(o, script, env)
  PROVE  BlueGreenInv'
<1>0. TypeOK /\ Alone /\ ShownInv /\ SnippetInv /\ BlueUp /\ script \in DOMAIN Program
  BY ScriptsAssumption, Zenon DEF BlueGreenInv
<1>1. /\ used' = [used EXCEPT !.commands = @ + 1, !.overlapped = @ \/ ~AtRest,
                              !.unguarded = @ \/ script \in Unguarded, !.latest = o]
      /\ cmd' = [cmd EXCEPT ![o] = [NoCommand EXCEPT
                    !.script = script, !.todo = Program[script], !.status = "running",
                    !.target = Target(script), !.env = env]]
      /\ upstream' = upstream /\ loaded' = loaded /\ colorFile' = colorFile /\ service' = service
  BY Zenon DEF StartScript, UnchangedRouting
<1>2. DOMAIN used = UsedFields /\ cmd = [p \in Operators |-> cmd[p]]
  BY <1>0, Zenon DEF TypeOK
<1>3. /\ DOMAIN used' = UsedFields /\ used'.kills = used.kills
      /\ used'.faults = used.faults /\ used'.stops = used.stops /\ used'.latest = o
      /\ used'.overlapped = (used.overlapped \/ ~AtRest)
      /\ used'.unguarded = (used.unguarded \/ script \in Unguarded)
  BY ONLY <1>1, <1>2 DEF UsedFields
<1>4. PICK c, todo : c = cmd'[o] /\ todo = Program[script]
  OBVIOUS
<1>5. /\ Only(o) /\ cmd'[o] = [NoCommand EXCEPT
                    !.script = script, !.todo = Program[script], !.status = "running",
                    !.target = Target(script), !.env = env]
  BY <1>1, <1>2, Zenon DEF Only
<1>6. /\ DOMAIN c = CommandFields /\ c.script = script /\ c.todo = todo /\ c.status = "running"
      /\ c.target = Target(script) /\ c.saved = "blue" /\ c.previous = "blue" /\ c.rolling = FALSE
  BY ONLY <1>4, <1>5 DEF NoCommand, CommandFields
<1>7. /\ Path(script, todo) /\ todo # <<>>
      /\ First(todo) \in {"upBlue", "upGreen", "checks", "isGreen", "isBlue", "test"}
      /\ First(todo) \in StepsOf(script, FALSE)
      /\ First(todo) = "isBlue" => script \in {"rollback", "rollbackToBlue"}
  <2>1. /\ Path(script, todo) /\ todo # <<>>
        /\ First(todo) =
              CASE script = "deploy" -> "upBlue"
                [] script \in {"startGreen", "deployGreen"} -> "upGreen"
                [] script = "verifyGreen" -> "checks"
                [] script = "switchGreen" -> "isGreen"
                [] script \in {"rollback", "rollbackToBlue"} -> "isBlue"
                [] OTHER -> "test"
    BY <1>0, <1>4, ProgramPath, Zenon DEF First
  <2> QED BY <1>0, <2>1, Zenon DEF Program, StepsOf, Traffic, Steps

<1>8. CommandOK(c)
  <2>1. Program["rollback"] = Rollback
    BY Zenon DEF Program
  <2>2. First(todo) = "isBlue" =>
          c.todo = IF c.script = "rollbackToBlue" THEN Program["rollbackToBlue"] ELSE Rollback
    BY <1>4, <1>6, <1>7, <2>1, Zenon
  <2>3. c.saved \in Colors /\ c.previous \in Colors /\ c.rolling \in BOOLEAN
    BY <1>6, Zenon DEF Colors
  <2> QED BY <1>0, <1>6, <1>7, <2>2, <2>3, Zenon DEF CommandOK
<1>9. \A p \in Operators : p # o => cmd'[p] = cmd[p]
  BY <1>5, Zenon DEF Only
<1>10. TypeOK'
  <2>1. \A p \in Operators : CommandOK(cmd'[p])
    BY <1>0, <1>4, <1>8, <1>9, Zenon DEF TypeOK
  <2>2. cmd' = [p \in Operators |-> cmd'[p]]
    BY <1>5, Zenon DEF Only
  <2>3. used'.overlapped \in BOOLEAN /\ used'.unguarded \in BOOLEAN
    BY <1>3, Zenon
  <2> QED BY <1>0, <1>1, <1>3, <2>1, <2>2, <2>3, Zenon DEF TypeOK
<1>11. ~used'.overlapped => ~used.overlapped /\ \A p \in Operators : cmd[p].todo = <<>>
  BY <1>3, Zenon DEF AtRest
<1>12. Alone'
  BY <1>3, <1>9, <1>11, Zenon DEF Alone
<1>13. ShownInv'
  <2>1. SUFFICES ASSUME ~used'.overlapped, used'.kills = 0
                 PROVE  /\ AtRest' => Agree'
                        /\ \A p \in Operators : cmd'[p].todo # <<>> => Placed(cmd[p])'
    BY Zenon DEF ShownInv, NoKills
  <2>2. Agree
    BY <1>0, <1>3, <1>11, <2>1, Zenon DEF ShownInv, NoKills, AtRest
  <2>3. PlacedAt(First(todo), c.target, c.previous, c.saved, upstream, loaded, colorFile)
    BY <1>7, <2>2, Zenon DEF PlacedAt, Agree
  <2>4. ~AtRest'
    BY <1>4, <1>6, <1>7, Zenon DEF AtRest
  <2>5. ASSUME NEW p \in Operators, cmd'[p].todo # <<>> PROVE Placed(cmd[p])'
    <3>1. p = o
      BY <1>9, <1>11, <2>1, <2>5, Zenon
    <3> QED BY <1>1, <1>4, <1>6, <2>3, <3>1, Zenon DEF Placed
  <2> QED BY <2>4, <2>5, Zenon
<1>14. SwitchInv'
  <2>1. SUFFICES ASSUME cmd'[o].script = "switchGreen"
                 PROVE  SwitchAt(First(cmd'[o].todo), cmd'[o].status, cmd'[o].rolling,
                                 loaded', service'["green"])
    BY <1>3, Zenon DEF SwitchInv
  <2>2. SwitchAt(First(todo), "running", FALSE, loaded', service'["green"])
    BY <1>7, Zenon DEF SwitchAt, BlueSteps
  <2> QED BY <1>4, <1>6, <2>2, Zenon
<1>15. TrafficInv'
  <2>1. SUFFICES TrafficAt(First(cmd'[o].todo), cmd'[o].status, cmd'[o].target,
                           upstream', loaded', colorFile')
    BY <1>3, Zenon DEF TrafficInv
  <2>2. TrafficAt(First(todo), "running", c.target, upstream', loaded', colorFile')
    BY <1>7, Zenon DEF TrafficAt
  <2> QED BY <1>4, <1>6, <2>2, Zenon
<1>16. SnippetInv'
  <2>1. SUFFICES ASSUME used'.kills = 0, used'.faults = 0, used'.stops = 0, ~used'.unguarded
                 PROVE  /\ service'[upstream'] # "down"
                        /\ loaded' # upstream' =>
                             \E p \in Operators : First(cmd'[p].todo) \in {"testNew", "reload"}
                        /\ \A p \in Operators :
                             /\ cmd'[p].script \notin Unguarded
                             /\ GuardedAt(First(cmd'[p].todo), cmd'[p].target, service'["green"])
    BY Zenon DEF SnippetInv, NoKills, NoFaults
  <2>2. script \notin Unguarded /\ ~used.unguarded
    BY <1>3, <2>1, Zenon
  <2>3. /\ service[upstream] # "down"
        /\ loaded # upstream =>
             \E p \in Operators : First(cmd[p].todo) \in {"testNew", "reload"}
        /\ \A p \in Operators :
             /\ cmd[p].script \notin Unguarded
             /\ GuardedAt(First(cmd[p].todo), cmd[p].target, service["green"])
    BY <1>0, <1>3, <2>1, <2>2, Zenon DEF SnippetInv, NoKills, NoFaults
  <2>4. First(cmd[o].todo) \notin {"testNew", "reload"}
    <3>1. First(cmd[o].todo) = "end"
      BY Zenon DEF StartScript, First
    <3> QED BY <3>1, Zenon
  <2>5. GuardedAt(First(todo), c.target, service["green"])
    BY <1>7, Zenon DEF GuardedAt
  <2> QED BY <1>1, <1>4, <1>6, <1>9, <2>2, <2>3, <2>4, <2>5, Zenon
<1>17. BlueUp'
  BY <1>0, <1>1, <1>3, Zenon DEF BlueUp
<1> QED BY <1>10, <1>12, <1>13, <1>14, <1>15, <1>16, <1>17, Zenon DEF BlueGreenInv


-----------------------------------------------------------------------------
(* The theorems *)

(* Blue serves, and no script has run.                                     *)
LEMMA BlueGreenStarts ==
  ASSUME Init
  PROVE  BlueGreenInv
<1>1. /\ service = [blue |-> "good", green |-> "down"]
      /\ upstream = "blue" /\ loaded = "blue" /\ colorFile = "absent"
      /\ cmd = [o \in Operators |-> NoCommand]
      /\ used = [commands |-> 0, faults |-> 0, stops |-> 0, kills |-> 0,
                 overlapped |-> FALSE, unguarded |-> FALSE, latest |-> "none"]
  BY Zenon DEF Init
<1>2. PICK c : c = NoCommand
  OBVIOUS
<1>3. /\ DOMAIN c = CommandFields /\ c.script = "none" /\ c.todo = <<>> /\ c.status = "done"
      /\ c.target = "blue" /\ c.saved = "blue" /\ c.previous = "blue" /\ c.rolling = FALSE
  BY <1>2, Zenon DEF NoCommand, CommandFields
<1>4. CommandOK(c)
  <2>1. Path(c.script, c.todo) /\ First(c.todo) = "end" /\ "end" \in StepsOf(c.script, c.rolling)
    BY <1>3, MayEnd, Zenon
  <2>2. Target("none") = "blue" /\ "blue" \in Colors /\ "end" # "isBlue" /\ "done" # "running"
    BY Zenon DEF Target, Colors
  <2>3. c.rolling \in BOOLEAN /\ ~c.rolling
    BY <1>3, Zenon
  <2> QED BY <1>3, <2>1, <2>2, <2>3, Zenon DEF CommandOK
<1>5. \A o \in Operators : cmd[o] = c
  BY <1>1, <1>2, Zenon
<1>6. /\ DOMAIN used = UsedFields /\ used.overlapped = FALSE /\ used.unguarded = FALSE
      /\ used.faults = 0 /\ used.stops = 0 /\ used.kills = 0 /\ used.latest = "none"
  BY <1>1, Zenon DEF UsedFields
<1>7. service \in [Colors -> Running \cup {"down"}] /\ service["blue"] # "down"
  BY <1>1 DEF Colors, Running
<1>8. TypeOK
  <2>1. cmd = [o \in Operators |-> cmd[o]] /\ \A o \in Operators : CommandOK(cmd[o])
    BY <1>1, <1>4, <1>5, Zenon
  <2>2. /\ upstream \in Colors /\ loaded \in Colors /\ colorFile \in Colors \cup {"absent"}
    BY <1>1, Zenon DEF Colors
  <2>3. used.overlapped \in BOOLEAN /\ used.unguarded \in BOOLEAN
    BY <1>6, Zenon
  <2>4. used.faults \in Nat /\ used.stops \in Nat /\ used.kills \in Nat
    BY <1>6
  <2> QED BY <1>6, <1>7, <2>1, <2>2, <2>3, <2>4, Zenon DEF TypeOK
<1>9. Alone /\ ShownInv
  <2>1. Agree
    BY <1>1, Zenon DEF Agree
  <2> QED BY <1>3, <1>5, <2>1, Zenon DEF Alone, ShownInv
<1>10. SwitchInv /\ TrafficInv
  <2>1. "none" # "switchGreen" /\ "none" \notin Traffic
    BY Zenon DEF Traffic
  <2> QED BY <1>3, <1>5, <2>1, Zenon DEF SwitchInv, TrafficInv
<1>11. SnippetInv
  <2>1. First(c.todo) = "end" /\ c.script \notin Unguarded
    BY <1>3, Zenon DEF First, Unguarded
  <2>2. GuardedAt("end", c.target, service["green"])
    BY Zenon DEF GuardedAt
  <2> QED BY <1>1, <1>5, <1>7, <2>1, <2>2, Zenon DEF SnippetInv
<1>12. BlueUp
  BY <1>7, Zenon DEF BlueUp
<1> QED BY <1>8, <1>9, <1>10, <1>11, <1>12, Zenon DEF BlueGreenInv

(* Every step of every operator, and every container that stops, keeps it. *)
LEMMA BlueGreenNext ==
  ASSUME BlueGreenInv, [Next]_vars
  PROVE  BlueGreenInv'
<1>1. CASE UNCHANGED vars
  BY <1>1, Zenon DEF vars, BlueGreenInv, TypeOK, Alone, ShownInv, SwitchInv, TrafficInv,
     SnippetInv, BlueUp, AtRest, Agree, Placed, NoKills, NoFaults
<1>2. ASSUME NEW o \in Operators, NEW script \in Scripts, NEW env \in Settings,
             StartScript(o, script, env)
      PROVE  BlueGreenInv'
  BY <1>2, StartScriptKeeps, Zenon
<1>3. ASSUME NEW o \in Operators, Up(o, "blue", "upBlue") \/ Up(o, "green", "upGreen")
      PROVE  BlueGreenInv'
  <2>1. /\ "blue" \in Colors /\ "green" \in Colors
        /\ "upBlue" \in {"upBlue", "upGreen"} /\ "upGreen" \in {"upBlue", "upGreen"}
    BY Zenon DEF Colors
  <2> QED BY <1>3, <2>1, UpKeeps, Zenon
<1>4. ASSUME NEW o \in Operators,
             \/ BlueReady(o) \/ GreenReady(o) \/ Checks(o) \/ SmokeGreen(o) \/ RoutedReady(o)
             \/ StopGreen(o) \/ AlreadyGreen(o) \/ AlreadyBlue(o)
      PROVE  BlueGreenInv'
  BY <1>4, QuestionsKeep, StopGreenKeeps, AlreadyGreenKeeps, AlreadyBlueKeeps, Zenon
<1>5. ASSUME NEW o \in Operators,
             \/ Backup(o) \/ NginxTest(o) \/ Move(o) \/ TestNew(o) \/ Reload(o)
             \/ Restore(o) \/ RecordPrevious(o) \/ ReloadOld(o) \/ GiveUp(o) \/ Record(o)
      PROVE  BlueGreenInv'
  BY <1>5, BackupKeeps, NginxTestKeeps, MoveKeeps, TestNewKeeps, ReloadKeeps, RestoreKeeps,
     RecordPreviousKeeps, ReloadOldKeeps, GiveUpKeeps, RecordKeeps, Zenon
<1>6. ASSUME NEW o \in Operators, Routed(o) \/ LedgerCheck(o) \/ Kill(o)
      PROVE  BlueGreenInv'
  BY <1>6, RoutedKeeps, LedgerKeeps, KillKeeps, Zenon
<1>7. ASSUME NEW color \in Colors, ContainerStops(color)
      PROVE  BlueGreenInv'
  BY <1>7, ContainerStopsKeeps, Zenon
<1> QED BY <1>1, <1>2, <1>3, <1>4, <1>5, <1>6, <1>7, Zenon DEF Next

(* The invariant of the deployment scripts, for any number of operators:   *)
(* the step each is at says where the three places are.                    *)
THEOREM BlueGreenInvariant == Spec => []BlueGreenInv
<1>1. Init => BlueGreenInv
  BY BlueGreenStarts, Zenon
<1>2. BlueGreenInv /\ [Next]_vars => BlueGreenInv'
  BY BlueGreenNext, Zenon
<1> QED BY <1>1, <1>2, PTL DEF Spec

(* The colour the scripts show, the snippet and the loaded configuration   *)
(* are the same however the scripts ended, as long as none was killed and  *)
(* no two ran at once (set_active_upstream).                               *)
THEOREM ShownIsRoutedAlways == Spec => []ShownIsRouted
<1>1. BlueGreenInv => ShownIsRouted
  <2>1. SUFFICES ASSUME BlueGreenInv, AtRest, NoKills, ~used.overlapped
                 PROVE  loaded = upstream /\ loaded = CurrentActiveColor
    BY Zenon DEF ShownIsRouted
  <2>2. Agree
    BY <2>1, Zenon DEF BlueGreenInv, ShownInv
  <2> QED BY <2>2, Zenon DEF Agree, CurrentActiveColor
<1> QED BY <1>1, BlueGreenInvariant, PTL

(* Operators who deploy, switch and roll back at the same time leave the   *)
(* snippet on disk equal to what Nginx routes with.                        *)
THEOREM SnippetIsRoutedAlways == Spec => []SnippetIsRouted
<1>1. BlueGreenInv => SnippetIsRouted
  <2>1. SUFFICES ASSUME BlueGreenInv, AtRest, NoKills, NoFaults, ~used.unguarded,
                        loaded # upstream
                 PROVE  FALSE
    BY Zenon DEF SnippetIsRouted
  <2>2. PICK o \in Operators : First(cmd[o].todo) \in {"testNew", "reload"}
    BY <2>1, Zenon DEF BlueGreenInv, SnippetInv
  <2>3. First(cmd[o].todo) = "end"
    BY <2>1, Zenon DEF AtRest, First
  <2> QED BY <2>2, <2>3, Zenon
<1> QED BY <1>1, BlueGreenInvariant, PTL

(* A switch to Green that fails ends with the traffic on Blue, unless      *)
(* Nginx or a container failed as well (switch_to_green,                   *)
(* handle_post_switch_failure).                                            *)
THEOREM FailedSwitchLeavesBlueAlways == Spec => []FailedSwitchLeavesBlue
<1>1. BlueGreenInv => FailedSwitchLeavesBlue
  <2>1. SUFFICES ASSUME BlueGreenInv, NEW o \in Operators, o = used.latest,
                        cmd[o].script = "switchGreen", cmd[o].status = "failed",
                        cmd[o].env = Default, NoKills, NoFaults, ~used.overlapped
                 PROVE  loaded = "blue"
    BY Zenon DEF FailedSwitchLeavesBlue, Default
  <2>2. SwitchAt(First(cmd[o].todo), cmd[o].status, cmd[o].rolling, loaded, service["green"])
    BY <2>1, Zenon DEF BlueGreenInv, SwitchInv
  <2> QED BY <2>1, <2>2, Zenon DEF SwitchAt
<1> QED BY <1>1, BlueGreenInvariant, PTL

(* switch_traffic.sh that reports success leaves the three places at its   *)
(* target, whatever an earlier script that was killed left behind.         *)
THEOREM CompletedSwitchSettlesAlways == Spec => []CompletedSwitchSettles
<1>1. BlueGreenInv => CompletedSwitchSettles
  <2>1. SUFFICES ASSUME BlueGreenInv, NEW o \in Operators, o = used.latest,
                        cmd[o].script \in Traffic, cmd[o].status = "done", ~used.overlapped
                 PROVE  {loaded, upstream, colorFile} = {cmd[o].target}
    BY Zenon DEF CompletedSwitchSettles, Traffic
  <2>2. TrafficAt(First(cmd[o].todo), cmd[o].status, cmd[o].target, upstream, loaded, colorFile)
    BY <2>1, Zenon DEF BlueGreenInv, TrafficInv
  <2> QED BY <2>1, <2>2, Zenon DEF TrafficAt
<1> QED BY <1>1, BlueGreenInvariant, PTL

=============================================================================

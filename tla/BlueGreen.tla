----------------------------- MODULE BlueGreen -----------------------------
(***************************************************************************)
(* Blue/green deployment: deploy-blue-green.sh, deploy_green.sh,           *)
(* switch_traffic.sh, rollback.sh, rollback_to_blue.sh and the functions   *)
(* of deployment-lib.sh they share.                                        *)
(*                                                                         *)
(* Which colour serves is kept in three places: the upstream snippet on    *)
(* disk, the configuration Nginx has loaded, and the file .active-color    *)
(* that the scripts read and print.  A script is the list of its shell     *)
(* steps; every step that reads or writes one of the three, or asks a      *)
(* container, is one action, and under `set -e' a step that fails ends the *)
(* script.  The containers and Nginx are external: `nginx -t' and          *)
(* `nginx -s reload' resolve the host the snippet names, so they fail      *)
(* while that container is not running.                                    *)
(***************************************************************************)
EXTENDS Integers, Sequences

CONSTANTS
    Operators,        \* terminals, each running one script at a time
    Scripts,          \* the scripts the operators run
    Settings,         \* environments of a script: AUTO_ROLLBACK, RUN_DEPLOY_VERIFY
    MaxCommands,      \* bound: scripts started
    MaxFaults,        \* bound: Nginx commands that fail by themselves
    MaxStops,         \* bound: containers stopped from outside the scripts
    MaxKills          \* bound: scripts killed between two steps

VARIABLES
    service,     \* colour -> what its container does
    upstream,    \* the colour in upstream-active.conf
    loaded,      \* the colour Nginx routes to
    colorFile,   \* .active-color, or "absent"
    cmd,         \* operator -> its latest script
    used         \* commands, faults, stops and kills so far, whether a script was
                 \* started while another ran, whether one was started that may
                 \* route to a container it did not find running or that stops
                 \* one, and who started the latest

vars == <<service, upstream, loaded, colorFile, cmd, used>>

Colors == {"blue", "green"}

\* A container is not running, runs and is not ready, is ready and fails the
\* smoke test, or passes it.
Running == {"unready", "failing", "good"}
Ready == {"failing", "good"}

SetActiveUpstream == <<"backup", "testOld", "move", "testNew", "reload", "record">>

SwitchToGreen ==
    <<"isGreen", "greenReady">> \o SetActiveUpstream \o <<"routed", "ledger">>

Rollback == <<"isBlue">> \o SetActiveUpstream \o <<"routed", "ledger">>

StartGreen == <<"upGreen", "greenReady">>

Deploy ==
    <<"upBlue", "blueReady">> \o StartGreen \o <<"checks", "smokeGreen", "test">>
        \o SwitchToGreen

\* "deployGreen" is deploy_green.sh with STOP_GREEN_ON_FAILURE=true; without it
\* the script does what start_green does.
Program == [
    deploy         |-> Deploy,
    startGreen     |-> StartGreen,
    verifyGreen    |-> <<"checks", "smokeGreen", "test">>,
    switchGreen    |-> SwitchToGreen,
    rollback       |-> Rollback,
    rollbackToBlue |-> <<"isBlue">> \o SetActiveUpstream \o <<"routedReady", "stopGreen">>,
    trafficGreen   |-> <<"test">> \o SetActiveUpstream,
    trafficBlue    |-> <<"test">> \o SetActiveUpstream,
    deployGreen    |-> StartGreen]

ASSUME ScriptsAssumption == Scripts \subseteq DOMAIN Program

Target(script) ==
    IF script \in {"deploy", "switchGreen", "trafficGreen"} THEN "green" ELSE "blue"

\* The scripts that switch to Green unasked, or stop it.
Unguarded == {"trafficGreen", "rollbackToBlue", "deployGreen"}

NoCommand == [script |-> "none", todo |-> <<>>, status |-> "done", target |-> "blue",
              previous |-> "blue", saved |-> "blue", rolling |-> FALSE,
              env |-> [auto |-> TRUE, verify |-> FALSE]]

Init ==
    /\ service = [blue |-> "good", green |-> "down"]
    /\ upstream = "blue" /\ loaded = "blue" /\ colorFile = "absent"
    /\ cmd = [o \in Operators |-> NoCommand]
    /\ used = [commands |-> 0, faults |-> 0, stops |-> 0, kills |-> 0,
               overlapped |-> FALSE, unguarded |-> FALSE, latest |-> "none"]

CurrentActiveColor == IF colorFile = "absent" THEN upstream ELSE colorFile
-----------------------------------------------------------------------------
Spend(what) == used' = [used EXCEPT ![what] = @ + 1]

At(o, step) == cmd[o].todo # <<>> /\ Head(cmd[o].todo) = step

Goto(o, rest) ==
    cmd' = [cmd EXCEPT ![o].todo = rest,
                       ![o].status = IF rest # <<>> THEN "running"
                                     ELSE IF cmd[o].rolling THEN "failed" ELSE "done"]

Step(o) == Goto(o, Tail(cmd[o].todo))

\* `set -e', and the ERR trap of deploy_green.sh with STOP_GREEN_ON_FAILURE.
Fail(o) ==
    /\ cmd' = [cmd EXCEPT ![o].todo = <<>>, ![o].status = "failed"]
    /\ service' = IF cmd[o].script = "deployGreen"
                  THEN [service EXCEPT !.green = "down"] ELSE service

UnchangedRouting == UNCHANGED <<upstream, loaded, colorFile>>

Check(o, passes) ==
    /\ \/ passes /\ Step(o) /\ UNCHANGED service
       \/ ~passes /\ Fail(o)
    /\ UnchangedRouting /\ UNCHANGED used

AtRest == \A o \in Operators : cmd[o].todo = <<>>

StartScript(o, script, env) ==
    /\ cmd[o].todo = <<>> /\ used.commands < MaxCommands
    /\ used' = [used EXCEPT !.commands = @ + 1, !.overlapped = @ \/ ~AtRest,
                            !.unguarded = @ \/ script \in Unguarded, !.latest = o]
    /\ cmd' = [cmd EXCEPT ![o] = [NoCommand EXCEPT
                  !.script = script, !.todo = Program[script], !.status = "running",
                  !.target = Target(script), !.env = env]]
    /\ UnchangedRouting /\ UNCHANGED service
-----------------------------------------------------------------------------
(* compose up -d --build: the build fails, or the container runs what the  *)
(* working tree holds, or it was up to date and is left alone.             *)
Up(o, color, step) ==
    /\ At(o, step)
    /\ \/ Fail(o)
       \/ /\ Step(o)
          /\ \/ \E s \in Running : service' = [service EXCEPT ![color] = s]
             \/ service[color] # "down" /\ UNCHANGED service
    /\ UnchangedRouting /\ UNCHANGED used

\* ensure_base_stack also waits for /health through Nginx.
BlueReady(o) ==
    /\ At(o, "blueReady")
    /\ Check(o, service.blue \in Ready /\ service[loaded] # "down")

GreenReady(o) == At(o, "greenReady") /\ Check(o, service.green \in Ready)

\* security-log-check and migration-smoke look at the tree and the schema.
Checks(o) == At(o, "checks") /\ \E ok \in BOOLEAN : Check(o, ok)

SmokeGreen(o) == At(o, "smokeGreen") /\ Check(o, service.green = "good")

StopGreen(o) ==
    /\ At(o, "stopGreen") /\ Step(o)
    /\ \/ service' = [service EXCEPT !.green = "down"]
       \/ UNCHANGED service
    /\ UnchangedRouting /\ UNCHANGED used

AlreadyGreen(o) ==
    /\ At(o, "isGreen")
    /\ IF CurrentActiveColor = "green" THEN Goto(o, <<>>) ELSE Step(o)
    /\ UnchangedRouting /\ UNCHANGED <<service, used>>

AlreadyBlue(o) ==
    /\ At(o, "isBlue")
    /\ IF CurrentActiveColor = "blue"
       THEN Goto(o, (IF cmd[o].script = "rollbackToBlue" THEN <<"test">> ELSE <<>>)
                    \o SubSeq(cmd[o].todo, Len(SetActiveUpstream) + 2, Len(cmd[o].todo)))
       ELSE Step(o)
    /\ UnchangedRouting /\ UNCHANGED <<service, used>>
-----------------------------------------------------------------------------
(* set_active_upstream.                                                    *)
Backup(o) ==
    /\ At(o, "backup")
    /\ cmd' = [cmd EXCEPT ![o].previous = CurrentActiveColor, ![o].saved = upstream,
                          ![o].todo = Tail(@)]
    /\ UnchangedRouting /\ UNCHANGED <<service, used>>

\* An Nginx command succeeds, fails because the host of the snippet does not
\* resolve, or fails by itself (a bound counts these).
NginxFault == used.faults < MaxFaults /\ Spend("faults")
NginxAccepts == service[upstream] # "down"

NginxTest(o) ==
    /\ At(o, "test") \/ At(o, "testOld")
    /\ \/ Check(o, NginxAccepts)
       \/ NginxFault /\ Fail(o) /\ UnchangedRouting

(* mutant: a switch to the colour the file already shows is skipped *)
MoveUnlessShown(o) ==
    /\ At(o, "move") /\ Step(o)
    /\ upstream' = IF CurrentActiveColor = cmd[o].target THEN upstream ELSE cmd[o].target
    /\ UNCHANGED <<service, loaded, colorFile, used>>

Move(o) ==
    /\ At(o, "move") /\ Step(o)
    /\ upstream' = cmd[o].target
    /\ UNCHANGED <<service, loaded, colorFile, used>>

TestNew(o) ==
    /\ At(o, "testNew")
    /\ \/ NginxAccepts /\ Step(o) /\ UNCHANGED used
       \/ ~NginxAccepts /\ Goto(o, <<"restore", "recordPrevious", "fail">>) /\ UNCHANGED used
       \/ NginxFault /\ Goto(o, <<"restore", "recordPrevious", "fail">>)
    /\ UnchangedRouting /\ UNCHANGED service

(* mutant: the snippet is switched and Nginx is never told *)
ReloadForgotten(o) ==
    /\ At(o, "reload") /\ Step(o)
    /\ UNCHANGED <<service, upstream, loaded, colorFile, used>>

Reload(o) ==
    /\ At(o, "reload")
    /\ \/ NginxAccepts /\ Step(o) /\ loaded' = upstream /\ UNCHANGED used
       \/ /\ ~NginxAccepts /\ UNCHANGED <<loaded, used>>
          /\ Goto(o, <<"restore", "recordPrevious", "reloadOld", "fail">>)
       \/ /\ NginxFault /\ UNCHANGED loaded
          /\ Goto(o, <<"restore", "recordPrevious", "reloadOld", "fail">>)
    /\ UNCHANGED <<service, upstream, colorFile>>

(* mutant: a failed switch puts back the colour file and not the snippet *)
RestoreColorOnly(o) ==
    /\ At(o, "restore") /\ Step(o)
    /\ UNCHANGED <<service, upstream, loaded, colorFile, used>>

Restore(o) ==
    /\ At(o, "restore") /\ Step(o)
    /\ upstream' = cmd[o].saved
    /\ UNCHANGED <<service, loaded, colorFile, used>>

RecordPrevious(o) ==
    /\ At(o, "recordPrevious") /\ Step(o)
    /\ colorFile' = cmd[o].previous
    /\ UNCHANGED <<service, upstream, loaded, used>>

\* nginx_test, then nginx_reload || true.
ReloadOld(o) ==
    /\ At(o, "reloadOld") /\ Step(o)
    /\ \/ NginxAccepts /\ loaded' = upstream /\ UNCHANGED used
       \/ ~NginxAccepts /\ UNCHANGED <<loaded, used>>
       \/ NginxFault /\ UNCHANGED loaded
    /\ UNCHANGED <<service, upstream, colorFile>>

GiveUp(o) == At(o, "fail") /\ Fail(o) /\ UnchangedRouting /\ UNCHANGED used

Record(o) ==
    /\ At(o, "record") /\ Step(o)
    /\ colorFile' = cmd[o].target
    /\ UNCHANGED <<service, upstream, loaded, used>>
-----------------------------------------------------------------------------
(* mutant: a failed post-switch check is reported and nothing rolled back *)
ReportOnly(o) == Fail(o)

\* handle_post_switch_failure runs rollback.sh as a child and then fails.
HandlePostSwitchFailure(o) ==
    IF cmd[o].env.auto
    THEN /\ cmd' = [cmd EXCEPT ![o].todo = Rollback, ![o].target = "blue",
                               ![o].rolling = TRUE]
         /\ UNCHANGED service
    ELSE Fail(o)

\* /health, /ready and the smoke test through Nginx.
Routed(o) ==
    /\ At(o, "routed")
    /\ \/ service[loaded] = "good" /\ Step(o) /\ UNCHANGED service
       \/ /\ service[loaded] # "good"
          /\ IF cmd[o].script = "rollback" \/ cmd[o].rolling
             THEN Fail(o) ELSE HandlePostSwitchFailure(o)
    /\ UnchangedRouting /\ UNCHANGED used

RoutedReady(o) == At(o, "routedReady") /\ Check(o, service[loaded] \in Ready)

\* deploy-verify: when enabled its failure ends the script where it stands.
LedgerCheck(o) ==
    /\ At(o, "ledger")
    /\ \E ok \in BOOLEAN : (~cmd[o].env.verify => ok) /\ Check(o, ok)
-----------------------------------------------------------------------------
ContainerStops(color) ==
    /\ used.stops < MaxStops /\ service[color] # "down"
    /\ Spend("stops")
    /\ service' = [service EXCEPT ![color] = "down"]
    /\ UnchangedRouting /\ UNCHANGED cmd

Kill(o) ==
    /\ cmd[o].todo # <<>> /\ used.kills < MaxKills
    /\ Spend("kills")
    /\ cmd' = [cmd EXCEPT ![o].todo = <<>>, ![o].status = "killed"]
    /\ UnchangedRouting /\ UNCHANGED service

Next ==
    \/ \E o \in Operators :
          \/ \E script \in Scripts, env \in Settings : StartScript(o, script, env)
          \/ Up(o, "blue", "upBlue") \/ Up(o, "green", "upGreen")
          \/ BlueReady(o) \/ GreenReady(o) \/ Checks(o) \/ SmokeGreen(o)
          \/ StopGreen(o) \/ AlreadyGreen(o) \/ AlreadyBlue(o)
          \/ Backup(o) \/ NginxTest(o) \/ Move(o) \/ TestNew(o) \/ Reload(o)
          \/ Restore(o) \/ RecordPrevious(o) \/ ReloadOld(o) \/ GiveUp(o) \/ Record(o)
          \/ Routed(o) \/ RoutedReady(o) \/ LedgerCheck(o) \/ Kill(o)
    \/ \E color \in Colors : ContainerStops(color)

Spec == Init /\ [][Next]_vars
-----------------------------------------------------------------------------
NoKills == used.kills = 0
NoFaults == used.faults = 0 /\ used.stops = 0

\* However a script ends, by success, by a failed test or a failed reload, the
\* colour the scripts show, the snippet on disk and the configuration Nginx
\* routes with are the same colour (set_active_upstream), as long as no script
\* is killed and no two run at once.
ShownIsRouted ==
    AtRest /\ NoKills /\ ~used.overlapped =>
        loaded = upstream /\ loaded = CurrentActiveColor

\* Operators who deploy, switch and roll back at the same time leave the snippet
\* Nginx would load at its next restart equal to the one it routes with: each
\* moves its snippet before it reloads (set_active_upstream takes no lock), and
\* switches to a container that runs.
SnippetIsRouted ==
    AtRest /\ NoKills /\ NoFaults /\ ~used.unguarded => loaded = upstream

\* A switch to Green that fails, because Green is not ready or because a check
\* through Nginx failed after the switch, ends with the traffic on Blue, unless
\* Nginx or a container failed as well (switch_to_green,
\* handle_post_switch_failure).  Excepted are the two settings that leave the
\* traffic on Green: AUTO_ROLLBACK=false asks for a manual rollback, and with
\* RUN_DEPLOY_VERIFY=true a failed deploy-verify ends the script unhandled.
FailedSwitchLeavesBlue ==
    \A o \in Operators :
        /\ AtRest /\ o = used.latest
        /\ cmd[o].script = "switchGreen" /\ cmd[o].status = "failed"
        /\ cmd[o].env = [auto |-> TRUE, verify |-> FALSE]
        /\ NoKills /\ NoFaults /\ ~used.overlapped
        => loaded = "blue"

\* switch_traffic.sh does not trust .active-color: once it reports success the
\* three places name its target, whatever an earlier script that was killed
\* between two of its steps left behind.
CompletedSwitchSettles ==
    \A o \in Operators :
        /\ AtRest /\ o = used.latest /\ cmd[o].script \in {"trafficBlue", "trafficGreen"}
        /\ cmd[o].status = "done" /\ ~used.overlapped
        => {loaded, upstream, colorFile} = {cmd[o].target}

=============================================================================

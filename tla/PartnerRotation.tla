--------------------------- MODULE PartnerRotation ---------------------------
(***************************************************************************)
(* The rotation of one partner's key while requests are on their way.  The  *)
(* settings and the registry made from them are cached per process, so that *)
(* a change of the environment reaches a process when it restarts.  Every   *)
(* request is one the partner made: it signs with the key, or the single    *)
(* secret, it has deployed.                                                 *)
(***************************************************************************)
EXTENDS PartnerHmac

CONSTANTS
  Processes,
  Client, Keys, FirstKey,
  Window,        \* how long a promotion leaves the old key valid
  MaxTime,       \* bound on the clock
  MaxSent        \* bound on the requests the partner sends

ASSUME RotationAssumptions ==
  /\ AllowedSkew \in Nat /\ Window \in Nat /\ FirstKey \in Keys
  /\ None # Unparsable /\ {None, Unparsable} \cap Int = {}
  /\ {None, "not_hex"} \cap (Keys \cup {"single"}) = {}
  /\ None \notin {"s-current", "s-previous", "s-next", "report_invalid"}

VARIABLES
  now,
  env,      \* the environment: [mode, secrets, entries]
  loaded,   \* the settings of every process
  signing,  \* [form, key] the partner signs with
  wire,     \* the requests on their way
  sent,
  decision  \* what the last step decided, if anything: the reason

vars == <<now, env, loaded, signing, wire, sent, decision>>

Id(k) == <<Client, k>>

Init ==
  /\ now = 0
  /\ env \in [mode : {"single", "partner"}, secrets : {[c \in {Client} |-> "single"]},
              entries : {[i \in {Id(FirstKey)} |-> Entry(FirstKey, "current", None, TRUE)]}]
  /\ loaded = [p \in Processes |-> env]
  /\ signing = [form |-> env.mode, key |-> FirstKey]
  /\ wire = {} /\ sent = 0
  /\ decision = None

(* what the policy of docs/49, sections 6 and 7, admits under given settings *)
Admits(settings, r, t) ==
  \/ settings.mode = "single" /\ r.form = "single"
  \/ /\ settings.mode = "partner" /\ r.form = "partner"
     /\ r.id \in DOMAIN settings.entries
     /\ LET e == settings.entries[r.id] IN
        /\ e.client_enabled
        /\ e.status = "current" \/ (e.status = "previous" /\ e.until # Unparsable /\ t <= e.until)

-----------------------------------------------------------------------------
(* Operators and the partner: they are outside the code *)

WithStatus(status) == {i \in DOMAIN env.entries : env.entries[i].status = status}

(* the steps of docs/28, section 3; a human types the end of the window *)
ChangeEnv(entries) ==
  /\ env' = [env EXCEPT !.entries = entries]
  /\ decision' = None /\ UNCHANGED <<now, loaded, signing, wire, sent>>

StageNext(k) ==
  /\ Id(k) \notin DOMAIN env.entries /\ WithStatus("next") = {}
  /\ ChangeEnv([i \in DOMAIN env.entries \cup {Id(k)} |->
                  IF i = Id(k) THEN Entry(k, "next", None, TRUE) ELSE env.entries[i]])

Promote ==
  /\ WithStatus("next") # {}
  /\ \E until \in {now + Window, Unparsable} :
       ChangeEnv([i \in DOMAIN env.entries |->
         CASE env.entries[i].status = "next" -> [env.entries[i] EXCEPT !.status = "current"]
           [] env.entries[i].status = "current" ->
                [env.entries[i] EXCEPT !.status = "previous", !.until = until]
           [] OTHER -> env.entries[i]])

Revoke ==
  \E i \in WithStatus("previous") :
    ChangeEnv([env.entries EXCEPT ![i].status = "revoked", ![i].until = None])

DisableClient ==
  /\ \E i \in DOMAIN env.entries : env.entries[i].client_enabled
  /\ ChangeEnv([i \in DOMAIN env.entries |-> [env.entries[i] EXCEPT !.client_enabled = FALSE]])

EnablePartnerAuth ==
  /\ env.mode = "single"
  /\ env' = [env EXCEPT !.mode = "partner"]
  /\ decision' = None /\ UNCHANGED <<now, loaded, signing, wire, sent>>

(* the partner deploys a key, be it too early or too late *)
SwitchKey ==
  /\ \E i \in WithStatus("next") \cup WithStatus("current") :
       signing' = [form |-> "partner", key |-> i[2]]
  /\ signing' # signing
  /\ decision' = None /\ UNCHANGED <<now, env, loaded, wire, sent>>

(* a request remembers whether every process admitted it when it was sent *)
Send ==
  /\ sent < MaxSent
  /\ LET r == [form |-> signing.form, id |-> Id(signing.key), timestamp |-> now, nonce |-> TRUE,
               signature |-> IF signing.form = "single" THEN "single" ELSE signing.key]
     IN wire' = wire \cup {[field \in DOMAIN r \cup {"admitted"} |->
                  IF field = "admitted" THEN \A p \in Processes : Admits(loaded[p], r, now)
                  ELSE r[field]]}
  /\ sent' = sent + 1
  /\ decision' = None /\ UNCHANGED <<now, env, loaded, signing>>

Tick ==
  /\ now < MaxTime
  /\ now' = now + 1
  /\ decision' = None /\ UNCHANGED <<env, loaded, signing, wire, sent>>

-----------------------------------------------------------------------------
(* The service *)

Restart(p) ==
  /\ loaded[p] # env
  /\ loaded' = [loaded EXCEPT ![p] = env]
  /\ decision' = None /\ UNCHANGED <<now, env, signing, wire, sent>>

Verify(p, r) ==
  /\ decision' = VerifyExternalRequestSignature(loaded[p], r, now)
  /\ wire' = wire \ {r}
  /\ UNCHANGED <<now, env, loaded, signing, sent>>

(* the smoke command of the drill *)
Smoke ==
  /\ decision' = IF ReportIsValid THEN "report_valid" ELSE "report_invalid"
  /\ UNCHANGED <<now, env, loaded, signing, wire, sent>>

Next ==
  \/ \E k \in Keys : StageNext(k)
  \/ Promote \/ Revoke \/ DisableClient \/ EnablePartnerAuth
  \/ SwitchKey \/ Send \/ Tick
  \/ \E p \in Processes : Restart(p) \/ \E r \in wire : Verify(p, r)
  \/ Smoke

Spec == Init /\ [][Next]_vars

-----------------------------------------------------------------------------
(* Properties *)

Fresh(r, t) == t - r.timestamp <= 2 * AllowedSkew

(* verify_external_request_signature: a rotation loses no valid traffic.  A    *)
(* fresh request that every process admitted when it was sent, and that the    *)
(* environment admits when it arrives, is accepted by whichever process it     *)
(* reaches, however old the settings of that process are.                      *)
NoValidTrafficLost ==
  [][\A r \in wire \ wire' :
       r.admitted /\ Fresh(r, now) /\ Admits(env, r, now) => Accepted(decision')]_vars

(* every process knows that the key is out: revoked, disabled or past its      *)
(* window                                                                      *)
Out(k) ==
  \A p \in Processes :
    /\ loaded[p].mode = "partner"
    /\ Id(k) \in DOMAIN loaded[p].entries
    /\ LET e == loaded[p].entries[Id(k)] IN
       \/ ~e.client_enabled
       \/ e.status = "revoked"
       \/ e.status = "previous" /\ (e.until = Unparsable \/ now > e.until)

(* Once a key is out, no restart, promotion or later request makes any process *)
(* accept it again (verify_partner_hmac_request): rotation does not end in a   *)
(* permanent pair of keys.                                                     *)
OutStaysOut ==
  [][\A k \in Keys :
       Out(k) => /\ Out(k)'
                 /\ \A r \in wire \ wire' : r.id = Id(k) => ~Accepted(decision')]_vars

(* a staged key writes nothing: whatever a process accepts was promoted in the *)
(* environment before, even when the partner deploys its new key too early.    *)
StagedKeyNeverWrites ==
  [][\A r \in wire \ wire' :
       decision' \in Accepting => env.entries[r.id].status # "next"]_vars

(* the drill's report is one its validator accepts. *)
DrillPasses == decision # "report_invalid"

=============================================================================

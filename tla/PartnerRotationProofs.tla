------------------------ MODULE PartnerRotationProofs ------------------------
(***************************************************************************)
(* What a rotation promises, for any number of processes and keys, any      *)
(* window and any skew: the settings of a process are an earlier state of   *)
(* the environment, and a key only ever moves forward in its life.          *)
(***************************************************************************)
EXTENDS PartnerRotation, TLAPS

KeyStatus == {"next", "current", "previous", "revoked"}

KeyEntry == [secret : Keys, status : KeyStatus, until : Int \cup {None, Unparsable},
             client_enabled : BOOLEAN]

EntryOK(i, e) ==
  /\ e \in KeyEntry /\ i = Id(e.secret)
  /\ e.status = "previous" <=> e.until # None

SettingsOK(s) ==
  /\ s = [mode |-> s.mode, secrets |-> s.secrets, entries |-> s.entries]
  /\ s.mode \in {"single", "partner"} /\ s.secrets = [c \in {Client} |-> "single"]
  /\ \A i \in DOMAIN s.entries : EntryOK(i, s.entries[i])

(* a key's life: staged, current, previous, revoked *)
Forward(old, new) ==
  \/ old = new \/ old = "next" \/ new = "revoked"
  \/ old = "current" /\ new = "previous"

OlderEntry(e, f) ==
  /\ e.secret = f.secret
  /\ f.client_enabled => e.client_enabled
  /\ Forward(e.status, f.status)
  /\ e.status = "previous" /\ f.status = "previous" => e.until = f.until

(* s is an earlier state of the environment than t *)
Older(s, t) ==
  /\ s.mode = "partner" => t.mode = "partner"
  /\ DOMAIN s.entries \subseteq DOMAIN t.entries
  /\ \A i \in DOMAIN s.entries : OlderEntry(s.entries[i], t.entries[i])

(* a request is one the partner made; if it was admitted with a key, every   *)
(* process has known that key as promoted since                              *)
RequestOK(r) ==
  /\ r.form \in {"single", "partner"} /\ r.nonce = TRUE
  /\ r.timestamp \in Nat /\ r.timestamp <= now
  /\ \E k \in Keys : r.id = Id(k) /\ r.signature = IF r.form = "single" THEN "single" ELSE k
  /\ r.admitted /\ r.form = "partner" =>
       \A p \in Processes :
         /\ loaded[p].mode = "partner" /\ r.id \in DOMAIN loaded[p].entries
         /\ loaded[p].entries[r.id].status # "next"

RotationInv ==
  /\ now \in Nat
  /\ SettingsOK(env)
  /\ loaded = [p \in Processes |-> loaded[p]]
  /\ \A p \in Processes : SettingsOK(loaded[p]) /\ Older(loaded[p], env)
  /\ signing.form \in {"single", "partner"} /\ signing.key \in Keys
  /\ \A r \in wire : RequestOK(r)

-----------------------------------------------------------------------------
(* Settings grow older *)

(* Settings are no younger than themselves *)
LEMMA OlderReflexive ==
  ASSUME NEW s PROVE Older(s, s)
BY Zenon DEF Older, OlderEntry, Forward

(* A key that moved forward twice has moved forward: its window stays the one *)
(* it was given                                                               *)
LEMMA OlderEntryTransitive ==
  ASSUME NEW e \in KeyEntry, NEW f \in KeyEntry, NEW g \in KeyEntry,
         OlderEntry(e, f), OlderEntry(f, g)
  PROVE  OlderEntry(e, g)
BY Zenon DEF OlderEntry, Forward, KeyEntry, KeyStatus

(* What is older than an older state is older *)
LEMMA OlderTransitive ==
  ASSUME NEW s, NEW t, NEW u, SettingsOK(s), SettingsOK(t), SettingsOK(u),
         Older(s, t), Older(t, u)
  PROVE  Older(s, u)
<1>1. /\ s.mode = "partner" => u.mode = "partner"
      /\ DOMAIN s.entries \subseteq DOMAIN u.entries
  BY Zenon DEF Older
<1>2. ASSUME NEW i \in DOMAIN s.entries PROVE OlderEntry(s.entries[i], u.entries[i])
  <2>1. i \in DOMAIN t.entries /\ i \in DOMAIN u.entries
    BY Zenon DEF Older
  <2>2. s.entries[i] \in KeyEntry /\ t.entries[i] \in KeyEntry /\ u.entries[i] \in KeyEntry
    BY Zenon, <2>1 DEF SettingsOK, EntryOK
  <2>3. OlderEntry(s.entries[i], t.entries[i]) /\ OlderEntry(t.entries[i], u.entries[i])
    BY Zenon, <2>1 DEF Older
  <2> QED
    BY Zenon, <2>2, <2>3, OlderEntryTransitive
<1> QED
  BY Zenon, <1>1, <1>2 DEF Older

(* An environment that moved forward keeps the invariant: the processes'      *)
(* settings are older than before                                             *)
LEMMA EnvForward ==
  ASSUME RotationInv, SettingsOK(env'), Older(env, env'),
         UNCHANGED <<now, loaded, signing, wire>>
  PROVE  RotationInv'
<1>1. ASSUME NEW p \in Processes PROVE SettingsOK(loaded'[p]) /\ Older(loaded'[p], env')
  <2>1. loaded'[p] = loaded[p] /\ SettingsOK(loaded[p]) /\ Older(loaded[p], env) /\ SettingsOK(env)
    BY Zenon DEF RotationInv
  <2> QED
    BY Zenon, <2>1, OlderTransitive
<1>2. ASSUME NEW r \in wire' PROVE RequestOK(r)'
  BY Zenon DEF RotationInv, RequestOK
<1> QED
  BY Zenon, <1>1, <1>2 DEF RotationInv

(* A change of the entries that moves every key forward or adds one           *)
LEMMA EntriesForward ==
  ASSUME RotationInv, NEW entries, ChangeEnv(entries),
         DOMAIN env.entries \subseteq DOMAIN entries,
         \A i \in DOMAIN entries : EntryOK(i, entries[i]),
         \A i \in DOMAIN env.entries : OlderEntry(env.entries[i], entries[i])
  PROVE  RotationInv'
<1>1. /\ env = [mode |-> env.mode, secrets |-> env.secrets, entries |-> env.entries]
      /\ env' = [env EXCEPT !.entries = entries]
  BY Zenon DEF RotationInv, SettingsOK, ChangeEnv
<1>2. env' = [mode |-> env.mode, secrets |-> env.secrets, entries |-> entries]
  BY Zenon, <1>1
<1>3. SettingsOK(env')
  BY Zenon, <1>2 DEF SettingsOK, RotationInv
<1>4. Older(env, env')
  BY Zenon, <1>2 DEF Older
<1> QED
  BY Zenon, <1>3, <1>4, EnvForward DEF ChangeEnv

-----------------------------------------------------------------------------
(* The steps *)

(* The first key is current everywhere *)
LEMMA RotationInit == Init => RotationInv
<1> SUFFICES ASSUME Init PROVE RotationInv
  OBVIOUS
<1> DEFINE first == [i \in {Id(FirstKey)} |-> Entry(FirstKey, "current", None, TRUE)]
<1>1. /\ env = [mode |-> env.mode, secrets |-> env.secrets, entries |-> env.entries]
      /\ env.mode \in {"single", "partner"} /\ env.secrets = [c \in {Client} |-> "single"]
      /\ env.entries = first
  BY Zenon DEF Init
<1>2. EntryOK(Id(FirstKey), Entry(FirstKey, "current", None, TRUE))
  BY Zenon, RotationAssumptions DEF EntryOK, KeyEntry, KeyStatus, Entry
<1>3. SettingsOK(env)
  BY Zenon, <1>1, <1>2 DEF SettingsOK
<1>4. ASSUME NEW p \in Processes PROVE loaded[p] = env /\ Older(loaded[p], env)
  BY Zenon, OlderReflexive DEF Init
<1>5. loaded = [p \in Processes |-> loaded[p]]
  BY Zenon DEF Init
<1>6. signing.form \in {"single", "partner"} /\ signing.key \in Keys /\ now \in Nat /\ wire = {}
  BY Zenon, <1>1, RotationAssumptions DEF Init
<1> QED
  BY Zenon, <1>3, <1>4, <1>5, <1>6 DEF RotationInv

(* A new key is staged beside the others *)
LEMMA StageNextInv ==
  ASSUME RotationInv, NEW k \in Keys, StageNext(k) PROVE RotationInv'
<1> DEFINE entries == [i \in DOMAIN env.entries \cup {Id(k)} |->
                         IF i = Id(k) THEN Entry(k, "next", None, TRUE) ELSE env.entries[i]]
<1>1. ChangeEnv(entries) /\ Id(k) \notin DOMAIN env.entries
  BY Zenon DEF StageNext
<1>2. \A i \in DOMAIN env.entries : EntryOK(i, env.entries[i])
  BY Zenon DEF RotationInv, SettingsOK
<1>3. EntryOK(Id(k), Entry(k, "next", None, TRUE))
  BY Zenon, RotationAssumptions DEF EntryOK, KeyEntry, KeyStatus, Entry
<1>4. \A i \in DOMAIN entries : EntryOK(i, entries[i])
  BY Zenon, <1>2, <1>3
<1>5. \A i \in DOMAIN env.entries : OlderEntry(env.entries[i], entries[i])
  BY Zenon, <1>1 DEF OlderEntry, Forward
<1>6. DOMAIN env.entries \subseteq DOMAIN entries
  OBVIOUS
<1> HIDE DEF entries
<1> QED
  BY Zenon, <1>1, <1>4, <1>5, <1>6, EntriesForward

(* The staged key becomes current and the current one previous, with a window *)
LEMMA PromoteInv ==
  ASSUME RotationInv, Promote PROVE RotationInv'
<1> DEFINE promoted(e, until) ==
             CASE e.status = "next" -> [e EXCEPT !.status = "current"]
               [] e.status = "current" -> [e EXCEPT !.status = "previous", !.until = until]
               [] OTHER -> e
           entries(until) == [i \in DOMAIN env.entries |-> promoted(env.entries[i], until)]
<1>1. PICK until \in {now + Window, Unparsable} : ChangeEnv(entries(until))
  BY Zenon DEF Promote
<1>2. until \in Int \cup {Unparsable} /\ until # None
  BY RotationAssumptions DEF RotationInv
<1>3. ASSUME NEW i, NEW e, EntryOK(i, e)
      PROVE  EntryOK(i, promoted(e, until)) /\ OlderEntry(e, promoted(e, until))
  <2>1. CASE e.status = "next"
    BY Zenon, <1>3, <2>1 DEF EntryOK, KeyEntry, KeyStatus, OlderEntry, Forward
  <2>2. CASE e.status = "current"
    BY Zenon, <1>2, <1>3, <2>2 DEF EntryOK, KeyEntry, KeyStatus, OlderEntry, Forward
  <2>3. CASE e.status \notin {"next", "current"}
    BY Zenon, <1>3, <2>3 DEF OlderEntry, Forward
  <2> QED
    BY Zenon, <2>1, <2>2, <2>3
<1>4. \A i \in DOMAIN env.entries : EntryOK(i, env.entries[i])
  BY Zenon DEF RotationInv, SettingsOK
<1>5. /\ DOMAIN entries(until) = DOMAIN env.entries
      /\ \A i \in DOMAIN env.entries : entries(until)[i] = promoted(env.entries[i], until)
  OBVIOUS
<1> HIDE DEF promoted, entries
<1>6. /\ DOMAIN env.entries \subseteq DOMAIN entries(until)
      /\ \A i \in DOMAIN entries(until) : EntryOK(i, entries(until)[i])
      /\ \A i \in DOMAIN env.entries : OlderEntry(env.entries[i], entries(until)[i])
  BY Zenon, <1>3, <1>4, <1>5
<1> QED
  BY Zenon, <1>1, <1>6, EntriesForward

(* A previous key is revoked *)
LEMMA RevokeInv ==
  ASSUME RotationInv, Revoke PROVE RotationInv'
<1>1. PICK j \in WithStatus("previous") :
        ChangeEnv([env.entries EXCEPT ![j].status = "revoked", ![j].until = None])
  BY Zenon DEF Revoke
<1> DEFINE entries == [env.entries EXCEPT ![j].status = "revoked", ![j].until = None]
           revoked == [env.entries[j] EXCEPT !.status = "revoked", !.until = None]
<1>2. j \in DOMAIN env.entries /\ \A i \in DOMAIN env.entries : EntryOK(i, env.entries[i])
  BY Zenon DEF RotationInv, SettingsOK, WithStatus
<1>3. EntryOK(j, revoked) /\ OlderEntry(env.entries[j], revoked)
  BY Zenon, <1>2 DEF EntryOK, KeyEntry, KeyStatus, OlderEntry, Forward
<1>4. /\ DOMAIN entries = DOMAIN env.entries /\ entries[j] = revoked
      /\ \A i \in DOMAIN env.entries \ {j} : entries[i] = env.entries[i]
  BY Zenon, <1>2
<1>5. ChangeEnv(entries)
  BY Zenon, <1>1
<1> HIDE DEF entries, revoked
<1>6. \A i \in DOMAIN env.entries : OlderEntry(env.entries[i], env.entries[i])
  BY Zenon DEF OlderEntry, Forward
<1>7. /\ DOMAIN env.entries \subseteq DOMAIN entries
      /\ \A i \in DOMAIN entries : EntryOK(i, entries[i])
      /\ \A i \in DOMAIN env.entries : OlderEntry(env.entries[i], entries[i])
  BY Zenon, <1>2, <1>3, <1>4, <1>6
<1> QED
  BY Zenon, <1>5, <1>7, EntriesForward

(* All of the client's keys are disabled *)
LEMMA DisableClientInv ==
  ASSUME RotationInv, DisableClient PROVE RotationInv'
<1> DEFINE entries == [i \in DOMAIN env.entries |->
                         [env.entries[i] EXCEPT !.client_enabled = FALSE]]
<1>1. ChangeEnv(entries)
  BY Zenon DEF DisableClient
<1>2. ASSUME NEW i, NEW e, EntryOK(i, e)
      PROVE  /\ EntryOK(i, [e EXCEPT !.client_enabled = FALSE])
             /\ OlderEntry(e, [e EXCEPT !.client_enabled = FALSE])
  BY Zenon, <1>2 DEF EntryOK, KeyEntry, OlderEntry, Forward
<1>3. \A i \in DOMAIN env.entries : EntryOK(i, env.entries[i])
  BY Zenon DEF RotationInv, SettingsOK
<1>4. /\ DOMAIN env.entries \subseteq DOMAIN entries
      /\ \A i \in DOMAIN entries : EntryOK(i, entries[i])
      /\ \A i \in DOMAIN env.entries : OlderEntry(env.entries[i], entries[i])
  BY Zenon, <1>2, <1>3
<1> HIDE DEF entries
<1> QED
  BY Zenon, <1>1, <1>4, EntriesForward

(* The single secret gives way to partner authentication, and never back *)
LEMMA EnablePartnerAuthInv ==
  ASSUME RotationInv, EnablePartnerAuth PROVE RotationInv'
<1>1. env' = [mode |-> "partner", secrets |-> env.secrets, entries |-> env.entries]
  BY Zenon DEF EnablePartnerAuth, RotationInv, SettingsOK
<1>2. SettingsOK(env')
  BY Zenon, <1>1 DEF SettingsOK, RotationInv
<1>3. Older(env, env')
  BY Zenon, <1>1 DEF Older, OlderEntry, Forward
<1> QED
  BY Zenon, <1>2, <1>3, EnvForward DEF EnablePartnerAuth

(* The partner deploys one of its keys *)
LEMMA SwitchKeyInv ==
  ASSUME RotationInv, SwitchKey PROVE RotationInv'
<1>1. PICK i \in WithStatus("next") \cup WithStatus("current") :
        signing' = [form |-> "partner", key |-> i[2]]
  BY Zenon DEF SwitchKey
<1>2. i = Id(env.entries[i].secret) /\ env.entries[i].secret \in Keys
  BY Zenon DEF WithStatus, RotationInv, SettingsOK, EntryOK, KeyEntry
<1>3. signing'.form \in {"single", "partner"} /\ signing'.key \in Keys
  BY <1>1, <1>2 DEF Id
<1>4. UNCHANGED <<now, env, loaded, wire>>
  BY Zenon DEF SwitchKey
<1>5. ASSUME NEW r \in wire' PROVE RequestOK(r)'
  BY Zenon, <1>4 DEF RotationInv, RequestOK
<1> QED
  BY Zenon, <1>3, <1>4, <1>5 DEF RotationInv

(* The clock moves on *)
LEMMA TickInv ==
  ASSUME RotationInv, Tick PROVE RotationInv'
<1>1. now' \in Nat /\ \A t \in Nat : t <= now => t <= now'
  BY DEF Tick, RotationInv
<1>2. UNCHANGED <<env, loaded, signing, wire>>
  BY Zenon DEF Tick
<1>3. ASSUME NEW r \in wire' PROVE RequestOK(r)'
  BY Zenon, <1>1, <1>2 DEF RotationInv, RequestOK
<1> QED
  BY Zenon, <1>1, <1>2, <1>3 DEF RotationInv

(* A request that every process admits carries a key that all know as         *)
(* promoted                                                                   *)
LEMMA SendInv ==
  ASSUME RotationInv, Send PROVE RotationInv'
<1> DEFINE r == [form |-> signing.form, id |-> Id(signing.key), timestamp |-> now,
                 nonce |-> TRUE,
                 signature |-> IF signing.form = "single" THEN "single" ELSE signing.key]
           new == [field \in DOMAIN r \cup {"admitted"} |->
                     IF field = "admitted" THEN \A p \in Processes : Admits(loaded[p], r, now)
                     ELSE r[field]]
<1>1. wire' = wire \cup {new} /\ UNCHANGED <<now, env, loaded, signing>>
  BY Zenon DEF Send
<1>2. /\ new.form = r.form /\ new.id = r.id /\ new.timestamp = r.timestamp
      /\ new.nonce = r.nonce /\ new.signature = r.signature
      /\ new.admitted = \A p \in Processes : Admits(loaded[p], r, now)
  OBVIOUS
<1>3. /\ r.form = signing.form /\ r.id = Id(signing.key) /\ r.timestamp = now
      /\ r.nonce = TRUE
      /\ r.signature = IF signing.form = "single" THEN "single" ELSE signing.key
  OBVIOUS
<1> HIDE DEF r, new
<1>4. ASSUME new.admitted, new.form = "partner", NEW p \in Processes
      PROVE  /\ loaded[p].mode = "partner" /\ new.id \in DOMAIN loaded[p].entries
             /\ loaded[p].entries[new.id].status # "next"
  <2>1. Admits(loaded[p], r, now) /\ r.form = "partner" /\ r.id = new.id
    BY Zenon, <1>2, <1>4
  <2> QED
    BY Zenon, <2>1 DEF Admits
<1>5. RequestOK(new)
  <2>1. now \in Nat /\ now <= now /\ signing.form \in {"single", "partner"} /\ signing.key \in Keys
    BY DEF RotationInv
  <2> QED
    BY Zenon, <1>2, <1>3, <1>4, <2>1 DEF RequestOK
<1>6. ASSUME NEW q, RequestOK(q) PROVE RequestOK(q)'
  BY Zenon, <1>1, <1>6 DEF RequestOK
<1>7. ASSUME NEW q \in wire' PROVE RequestOK(q)'
  BY Zenon, <1>1, <1>5, <1>6 DEF RotationInv
<1> QED
  BY Zenon, <1>1, <1>7 DEF RotationInv

(* A restarted process has the newest settings; what it knew as promoted is   *)
(* not staged in them                                                         *)
LEMMA RestartInv ==
  ASSUME RotationInv, NEW p \in Processes, Restart(p) PROVE RotationInv'
<1>1. /\ loaded' = [loaded EXCEPT ![p] = env] /\ UNCHANGED <<now, env, signing, wire>>
  BY Zenon DEF Restart
<1>2. /\ loaded = [q \in Processes |-> loaded[q]]
      /\ SettingsOK(env) /\ \A q \in Processes : SettingsOK(loaded[q]) /\ Older(loaded[q], env)
  BY Zenon DEF RotationInv
<1>3. /\ loaded'[p] = env /\ \A q \in Processes \ {p} : loaded'[q] = loaded[q]
      /\ loaded' = [q \in Processes |-> loaded'[q]]
  BY Zenon, <1>1, <1>2
<1>4. ASSUME NEW q \in Processes PROVE SettingsOK(loaded'[q]) /\ Older(loaded'[q], env')
  BY Zenon, <1>1, <1>2, <1>3, OlderReflexive
<1>5. ASSUME NEW i \in DOMAIN loaded[p].entries, loaded[p].entries[i].status # "next"
      PROVE  i \in DOMAIN env.entries /\ env.entries[i].status # "next"
  <2>1. i \in DOMAIN env.entries /\ Forward(loaded[p].entries[i].status, env.entries[i].status)
    BY Zenon, <1>2 DEF Older, OlderEntry
  <2> QED
    BY Zenon, <1>5, <2>1 DEF Forward
<1>6. loaded[p].mode = "partner" => env.mode = "partner"
  BY Zenon, <1>2 DEF Older
<1>7. ASSUME NEW r \in wire' PROVE RequestOK(r)'
  <2>1. RequestOK(r)
    BY Zenon, <1>1 DEF RotationInv
  <2>2. ASSUME r.admitted, r.form = "partner", NEW q \in Processes
        PROVE  /\ loaded'[q].mode = "partner" /\ r.id \in DOMAIN loaded'[q].entries
               /\ loaded'[q].entries[r.id].status # "next"
    <3>1. \A o \in Processes :
            /\ loaded[o].mode = "partner" /\ r.id \in DOMAIN loaded[o].entries
            /\ loaded[o].entries[r.id].status # "next"
      BY Zenon, <2>1, <2>2 DEF RequestOK
    <3>2. CASE q = p
      BY Zenon, <1>3, <1>5, <1>6, <3>1, <3>2
    <3>3. CASE q # p
      BY Zenon, <1>3, <3>1, <3>3
    <3> QED
      BY Zenon, <3>2, <3>3
  <2> QED
    BY Zenon, <1>1, <2>1, <2>2 DEF RequestOK
<1> QED
  BY Zenon, <1>1, <1>2, <1>3, <1>4, <1>7 DEF RotationInv

(* Every step keeps the invariant *)
LEMMA RotationNext == RotationInv /\ [Next]_vars => RotationInv'
<1> SUFFICES ASSUME RotationInv, [Next]_vars PROVE RotationInv'
  OBVIOUS
<1>1. ASSUME UNCHANGED <<now, env, loaded, signing>>, wire' \subseteq wire PROVE RotationInv'
  <2>1. ASSUME NEW r \in wire' PROVE RequestOK(r)'
    BY Zenon, <1>1 DEF RotationInv, RequestOK
  <2> QED
    BY Zenon, <1>1, <2>1 DEF RotationInv
<1>2. ASSUME NEW p \in Processes, NEW r \in wire, Verify(p, r) PROVE RotationInv'
  BY Zenon, <1>1, <1>2 DEF Verify
<1>3. CASE Smoke
  BY Zenon, <1>1, <1>3 DEF Smoke
<1>4. CASE UNCHANGED vars
  BY Zenon, <1>1, <1>4 DEF vars
<1> QED
  BY Zenon, <1>2, <1>3, <1>4, StageNextInv, PromoteInv, RevokeInv, DisableClientInv,
     EnablePartnerAuthInv, SwitchKeyInv, SendInv, TickInv, RestartInv DEF Next

(* The settings of every process are an earlier state of the environment      *)
(* (get_settings and the registry are cached per process), and every request  *)
(* that was admitted with a key is known by all as promoted                   *)
THEOREM RotationInvariant == Spec => []RotationInv
BY RotationInit, RotationNext, PTL DEF Spec

-----------------------------------------------------------------------------
(* The decision *)

(* The reasons that accept a key *)
LEMMA AcceptingReasons ==
  Accepting = {"current_secret", "previous_grace_window", "next_dry_run"}
BY DEF Accepting, Range, AcceptReason

(* Requests leave the wire one at a time, each with its decision *)
LEMMA OnlyVerifyTakes ==
  ASSUME [Next]_vars, NEW r \in wire \ wire'
  PROVE  \E p \in Processes : Verify(p, r)
<1>1. ASSUME NEW p \in Processes, NEW q \in wire, Verify(p, q)
      PROVE  \E o \in Processes : Verify(o, r)
  <2>1. q = r
    BY Zenon, <1>1 DEF Verify
  <2> QED
    BY Zenon, <1>1, <2>1
<1>2. CASE wire \subseteq wire'
  BY Zenon, <1>2
<1>3. \/ wire \subseteq wire'
      \/ \E p \in Processes : \E q \in wire : Verify(p, q)
  BY Zenon DEF Next, StageNext, Promote, Revoke, DisableClient, EnablePartnerAuth, SwitchKey, Send,
     Tick, Restart, Smoke, ChangeEnv, vars
<1> QED
  BY Zenon, <1>1, <1>2, <1>3

(* What partner authentication accepts is promoted, enabled and in its window *)
LEMMA AcceptedEntry ==
  ASSUME NEW s, SettingsOK(s), s.mode = "partner", NEW r, NEW t \in Nat,
         Accepted(VerifyExternalRequestSignature(s, r, t))
  PROVE  /\ r.form # "single" /\ r.id \in DOMAIN s.entries
         /\ s.entries[r.id].client_enabled /\ s.entries[r.id].status \in {"current", "previous"}
         /\ s.entries[r.id].status = "previous" =>
              s.entries[r.id].until # Unparsable /\ t <= s.entries[r.id].until
<1> DEFINE registry == FromConfig(s.entries)
           e == s.entries[r.id]
           reason == VerifyPartnerHmacRequest(registry, r, t, AllowedSkew, FALSE)
<1>1. Accepted(reason) /\ r.form # "single"
  BY Zenon, AcceptingReasons DEF VerifyExternalRequestSignature, Accepted
<1>2. /\ DOMAIN registry = {k \in DOMAIN s.entries : s.entries[k].until # Unparsable}
      /\ \A k \in DOMAIN registry : registry[k] = s.entries[k]
  BY Zenon DEF FromConfig, Restrict
<1> HIDE DEF registry
<1>3. /\ r.id \in DOMAIN registry
      /\ registry[r.id].client_enabled /\ registry[r.id].status \notin {"revoked", "next"}
      /\ registry[r.id].status = "previous" => PreviousWindowIsActive(registry[r.id], t)
  BY Zenon, <1>1, AcceptingReasons DEF VerifyPartnerHmacRequest, Accepted
<1>4. /\ r.id \in DOMAIN s.entries /\ e.until # Unparsable /\ registry[r.id] = e
      /\ e.status \in KeyStatus
  BY Zenon, <1>2, <1>3 DEF SettingsOK, EntryOK, KeyEntry
<1> QED
  BY Zenon, <1>1, <1>3, <1>4 DEF KeyStatus, PreviousWindowIsActive

(* A fresh request of the partner with a key that is promoted, enabled and in *)
(* its window is accepted                                                     *)
LEMMA AcceptsEntry ==
  ASSUME NEW s, SettingsOK(s), s.mode = "partner", NEW r, NEW t \in Nat, NEW k \in Keys,
         r.form = "partner", r.nonce = TRUE, r.timestamp \in Nat, r.timestamp <= t,
         t - r.timestamp <= 2 * AllowedSkew, r.id = Id(k), r.signature = k,
         r.id \in DOMAIN s.entries, s.entries[r.id].client_enabled,
         \/ s.entries[r.id].status = "current"
         \/ /\ s.entries[r.id].status = "previous" /\ s.entries[r.id].until # Unparsable
            /\ t <= s.entries[r.id].until
  PROVE  Accepted(VerifyExternalRequestSignature(s, r, t))
<1> DEFINE registry == FromConfig(s.entries)
           e == s.entries[r.id]
           reason == VerifyPartnerHmacRequest(registry, r, t, AllowedSkew, FALSE)
<1>1. /\ DOMAIN registry = {i \in DOMAIN s.entries : s.entries[i].until # Unparsable}
      /\ \A i \in DOMAIN registry : registry[i] = s.entries[i]
  BY Zenon DEF FromConfig, Restrict
<1>2. EntryOK(r.id, e)
  BY Zenon DEF SettingsOK
<1>3. e.until # Unparsable /\ e.secret = k /\ (e.status = "previous" => e.until # None)
  BY <1>2, RotationAssumptions DEF EntryOK, Id
<1>4. r.id \in DOMAIN registry /\ registry[r.id] = e
  BY Zenon, <1>1, <1>3
<1>5. ~(AbsDiff(r.timestamp, t) \div 2 > AllowedSkew)
  BY RotationAssumptions DEF AbsDiff
<1>6. /\ r.signature # None /\ r.signature # "not_hex" /\ r.timestamp # Unparsable
  BY RotationAssumptions
<1>7. VerifyExternalRequestSignature(s, r, t) = reason
  <2>1. DOMAIN registry # {} /\ r.form # "single"
    BY Zenon, <1>4
  <2> QED
    BY Zenon, <2>1 DEF VerifyExternalRequestSignature
<1> HIDE DEF registry
<1>8. reason = AcceptReason[e.status]
  BY Zenon, <1>3, <1>4, <1>5, <1>6 DEF VerifyPartnerHmacRequest, PreviousWindowIsActive
<1>9. Accepted(reason)
  <2>1. /\ AcceptReason["current"] = "current_secret"
        /\ AcceptReason["previous"] = "previous_grace_window"
    BY Zenon DEF AcceptReason
  <2>2. reason = "current_secret" \/ reason = "previous_grace_window"
    BY Zenon, <1>8, <2>1
  <2> HIDE DEF reason
  <2> QED
    BY Zenon, <2>2, AcceptingReasons DEF Accepted
<1> QED
  BY Zenon, <1>7, <1>9

-----------------------------------------------------------------------------
(* The promises *)

(* A key that every process knows to be out stays out: not for a restart, a   *)
(* promotion or a request is it accepted again (verify_partner_hmac_request)  *)
THEOREM OutStaysOutAlways == Spec => OutStaysOut
<1>1. ASSUME RotationInv, [Next]_vars, NEW k \in Keys, Out(k)
      PROVE  Out(k)' /\ \A r \in wire \ wire' : r.id = Id(k) => ~Accepted(decision')
  <2> DEFINE OutOf(s, t) ==
               /\ s.mode = "partner" /\ Id(k) \in DOMAIN s.entries
               /\ LET e == s.entries[Id(k)] IN
                  \/ ~e.client_enabled
                  \/ e.status = "revoked"
                  \/ e.status = "previous" /\ (e.until = Unparsable \/ t > e.until)
  <2>1. \A p \in Processes : SettingsOK(loaded[p]) /\ Older(loaded[p], env) /\ OutOf(loaded[p], now)
    BY Zenon, <1>1 DEF RotationInv, Out
  <2>2. now \in Nat /\ now' \in Nat /\ now' >= now
    <3>1. now' = now \/ now' = now + 1
      BY Zenon, <1>1 DEF Next, StageNext, Promote, Revoke, DisableClient, EnablePartnerAuth,
         SwitchKey, Send, Tick, Restart, Verify, Smoke, ChangeEnv, vars
    <3>2. now \in Nat
      BY Zenon, <1>1 DEF RotationInv
    <3> QED
      BY <3>1, <3>2
  <2>3. ASSUME NEW p \in Processes PROVE loaded'[p] = loaded[p] \/ loaded'[p] = env
    BY Zenon, <1>1 DEF RotationInv, Next, StageNext, Promote, Revoke, DisableClient,
       EnablePartnerAuth, SwitchKey, Send, Tick, Restart, Verify, Smoke, ChangeEnv, vars
  <2>4. ASSUME NEW s, NEW t, SettingsOK(s), SettingsOK(t), Older(s, t), OutOf(s, now)
        PROVE  OutOf(t, now')
    <3>1. /\ t.mode = "partner" /\ Id(k) \in DOMAIN t.entries
          /\ OlderEntry(s.entries[Id(k)], t.entries[Id(k)])
      BY Zenon, <2>4 DEF Older
    <3>2. EntryOK(Id(k), s.entries[Id(k)]) /\ EntryOK(Id(k), t.entries[Id(k)])
      BY Zenon, <2>4, <3>1 DEF SettingsOK
    <3> QED
      BY <2>2, <2>4, <3>1, <3>2, RotationAssumptions
         DEF OlderEntry, Forward, EntryOK, KeyEntry, KeyStatus
  <2>5. ASSUME NEW p \in Processes PROVE OutOf(loaded'[p], now')
    BY Zenon, <1>1, <2>1, <2>3, <2>4, OlderReflexive DEF RotationInv
  <2>6. ASSUME NEW r \in wire \ wire', r.id = Id(k), Accepted(decision') PROVE FALSE
    <3>1. PICK p \in Processes : Verify(p, r)
      BY Zenon, <1>1, OnlyVerifyTakes
    <3>2. Accepted(VerifyExternalRequestSignature(loaded[p], r, now))
      BY Zenon, <2>6, <3>1 DEF Verify
    <3>3. SettingsOK(loaded[p]) /\ OutOf(loaded[p], now)
      BY Zenon, <2>1
    <3>4. EntryOK(Id(k), loaded[p].entries[Id(k)])
      BY Zenon, <3>3 DEF SettingsOK
    <3>5. /\ loaded[p].entries[r.id].client_enabled
          /\ loaded[p].entries[r.id].status \in {"current", "previous"}
          /\ loaded[p].entries[r.id].status = "previous" =>
               /\ loaded[p].entries[r.id].until # Unparsable
               /\ now <= loaded[p].entries[r.id].until
      BY Zenon, <2>2, <3>2, <3>3, AcceptedEntry
    <3> QED
      BY <2>2, <2>6, <3>3, <3>4, <3>5, RotationAssumptions DEF EntryOK, KeyEntry
  <2> QED
    BY Zenon, <2>5, <2>6 DEF Out
<1>2. RotationInv /\ [Next]_vars
      => [\A k \in Keys :
            Out(k) => /\ Out(k)'
                      /\ \A r \in wire \ wire' : r.id = Id(k) => ~Accepted(decision')]_vars
  BY Zenon, <1>1
<1> QED BY <1>2, RotationInvariant, PTL DEF Spec, OutStaysOut

(* A staged key writes nothing, however early the partner deploys it: what a  *)
(* process accepts with a key was promoted in the environment before          *)
THEOREM StagedKeyNeverWritesAlways == Spec => StagedKeyNeverWrites
<1>1. ASSUME RotationInv, [Next]_vars, NEW r \in wire \ wire', decision' \in Accepting
      PROVE  env.entries[r.id].status # "next"
  <2>1. PICK p \in Processes : Verify(p, r)
    BY Zenon, <1>1, OnlyVerifyTakes
  <2>2. /\ SettingsOK(loaded[p]) /\ Older(loaded[p], env) /\ now \in Nat
        /\ Accepted(VerifyExternalRequestSignature(loaded[p], r, now))
        /\ VerifyExternalRequestSignature(loaded[p], r, now) \in Accepting
    BY Zenon, <1>1, <2>1 DEF RotationInv, Verify, Accepted
  <2>3. loaded[p].mode = "partner"
    BY Zenon, <2>2, AcceptingReasons DEF SettingsOK, VerifyExternalRequestSignature, VerifySingleSecret
  <2>4. /\ r.id \in DOMAIN loaded[p].entries
        /\ loaded[p].entries[r.id].status \in {"current", "previous"}
    BY Zenon, <2>2, <2>3, AcceptedEntry
  <2> QED
    BY Zenon, <2>2, <2>4 DEF Older, OlderEntry, Forward
<1>2. RotationInv /\ [Next]_vars
      => [\A r \in wire \ wire' :
            decision' \in Accepting => env.entries[r.id].status # "next"]_vars
  BY Zenon, <1>1
<1> QED BY <1>2, RotationInvariant, PTL DEF Spec, StagedKeyNeverWrites

(* A rotation loses no valid traffic: a fresh request that all processes      *)
(* admitted when it was sent, and that the environment admits when it         *)
(* arrives, is accepted wherever it arrives                                   *)
(* (verify_external_request_signature)                                        *)
THEOREM NoValidTrafficLostAlways == Spec => NoValidTrafficLost
<1>1. ASSUME RotationInv, [Next]_vars, NEW r \in wire \ wire',
             r.admitted, Fresh(r, now), Admits(env, r, now)
      PROVE  Accepted(decision')
  <2>1. PICK p \in Processes : Verify(p, r)
    BY Zenon, <1>1, OnlyVerifyTakes
  <2>2. /\ SettingsOK(env) /\ SettingsOK(loaded[p]) /\ Older(loaded[p], env) /\ now \in Nat
        /\ RequestOK(r) /\ decision' = VerifyExternalRequestSignature(loaded[p], r, now)
    BY Zenon, <1>1, <2>1 DEF RotationInv, Verify
  <2>3. PICK k \in Keys :
          r.id = Id(k) /\ r.signature = IF r.form = "single" THEN "single" ELSE k
    BY Zenon, <2>2 DEF RequestOK
  <2>4. /\ r.nonce = TRUE /\ r.timestamp \in Nat /\ r.timestamp <= now
        /\ now - r.timestamp <= 2 * AllowedSkew
    BY Zenon, <1>1, <2>2 DEF RequestOK, Fresh
  <2>5. CASE r.form = "single"
    <3>1. env.mode = "single" /\ loaded[p].mode = "single"
      BY Zenon, <1>1, <2>2, <2>5 DEF Admits, Older, SettingsOK
    <3>2. loaded[p].secrets = [c \in {Client} |-> "single"] /\ r.id[1] = Client
      BY <2>2, <2>3 DEF SettingsOK, Id
    <3>3. r.timestamp # Unparsable /\ ~(AbsDiff(r.timestamp, now) > 2 * AllowedSkew)
      BY <2>2, <2>4, RotationAssumptions DEF AbsDiff
    <3>4. decision' = "accepted"
      BY Zenon, <2>2, <2>3, <2>5, <3>1, <3>2, <3>3
         DEF VerifyExternalRequestSignature, VerifySingleSecret
    <3> QED
      BY Zenon, <3>4 DEF Accepted
  <2>6. CASE r.form = "partner"
    <3>1. /\ loaded[p].mode = "partner" /\ r.id \in DOMAIN loaded[p].entries
          /\ loaded[p].entries[r.id].status # "next"
      BY Zenon, <1>1, <2>2, <2>6 DEF RequestOK
    <3>2. /\ r.id \in DOMAIN env.entries /\ env.entries[r.id].client_enabled
          /\ \/ env.entries[r.id].status = "current"
             \/ /\ env.entries[r.id].status = "previous"
                /\ env.entries[r.id].until # Unparsable /\ now <= env.entries[r.id].until
      BY Zenon, <1>1, <2>6 DEF Admits
    <3>3. OlderEntry(loaded[p].entries[r.id], env.entries[r.id])
      BY Zenon, <2>2, <3>1 DEF Older
    <3>4. /\ loaded[p].entries[r.id].client_enabled
          /\ \/ loaded[p].entries[r.id].status = "current"
             \/ /\ loaded[p].entries[r.id].status = "previous"
                /\ loaded[p].entries[r.id].until # Unparsable
                /\ now <= loaded[p].entries[r.id].until
      BY Zenon, <3>1, <3>2, <3>3 DEF OlderEntry, Forward
    <3>5. r.signature = k
      BY Zenon, <2>3, <2>6
    <3> QED
      BY Zenon, <2>2, <2>3, <2>4, <2>6, <3>1, <3>4, <3>5, AcceptsEntry
  <2> QED
    BY Zenon, <2>2, <2>5, <2>6 DEF RequestOK
<1>2. RotationInv /\ [Next]_vars
      => [\A r \in wire \ wire' :
            r.admitted /\ Fresh(r, now) /\ Admits(env, r, now) => Accepted(decision')]_vars
  BY Zenon, <1>1
<1> QED BY <1>2, RotationInvariant, PTL DEF Spec, NoValidTrafficLost

-----------------------------------------------------------------------------
(* The drill *)

(* A request that is fresh and signed with the secret of its key is accepted  *)
(* when the key may be used                                                   *)
LEMMA AcceptsSigned ==
  ASSUME NEW registry, NEW r, NEW t, NEW skew, NEW dry,
         r.nonce, r.signature # None, r.signature # "not_hex", r.timestamp # Unparsable,
         ~(AbsDiff(r.timestamp, t) \div 2 > skew), r.id \in DOMAIN registry,
         registry[r.id].client_enabled, registry[r.id].secret = r.signature,
         \/ registry[r.id].status = "current"
         \/ registry[r.id].status = "previous" /\ PreviousWindowIsActive(registry[r.id], t)
         \/ registry[r.id].status = "next" /\ dry
  PROVE  VerifyPartnerHmacRequest(registry, r, t, skew, dry) \in Accepting
<1> DEFINE e == registry[r.id]
<1>1. /\ AcceptReason["current"] = "current_secret"
      /\ AcceptReason["previous"] = "previous_grace_window"
      /\ AcceptReason["next"] = "next_dry_run"
  BY DEF AcceptReason
<1>2. AcceptReason[e.status] \in Accepting
  BY Zenon, <1>1, AcceptingReasons
<1>3. e.status # "disabled" /\ e.status # "revoked" /\ ~(e.status = "next" /\ ~dry)
      /\ ~(e.status = "previous" /\ ~PreviousWindowIsActive(e, t))
  BY Zenon
<1> QED
  BY Zenon, <1>2, <1>3 DEF VerifyPartnerHmacRequest

(* A request is rejected for its nonce, its skew, its key or its signature,   *)
(* whatever else is right about it                                            *)
LEMMA RejectsUnsound ==
  ASSUME NEW registry, NEW r, NEW t, NEW skew, NEW dry,
         \/ ~r.nonce
         \/ AbsDiff(r.timestamp, t) \div 2 > skew
         \/ ~registry[r.id].client_enabled
         \/ registry[r.id].status = "revoked"
         \/ registry[r.id].status = "previous" /\ ~PreviousWindowIsActive(registry[r.id], t)
         \/ registry[r.id].secret # r.signature
  PROVE  VerifyPartnerHmacRequest(registry, r, t, skew, dry) \notin Accepting
BY Zenon, AcceptingReasons DEF VerifyPartnerHmacRequest

(* the times of the drill *)
JustNow == FixedNow - 0
LongAgo == FixedNow - 1200
WindowOpen == FixedNow + 600
WindowClosed == FixedNow - 2
DrillSkew == 300

(* The keys of the drill's registry *)
LEMMA DrillKeys ==
  /\ <<"bank-a", "current">> \in DOMAIN DrillRegistry
  /\ <<"bank-a", "previous">> \in DOMAIN DrillRegistry
  /\ <<"bank-a", "next">> \in DOMAIN DrillRegistry
  /\ DrillRegistry[<<"bank-a", "current">>] = Entry("s-current", "current", None, TRUE)
  /\ DrillRegistry[<<"bank-a", "previous">>] =
       Entry("s-previous", "previous", WindowOpen, TRUE)
  /\ DrillRegistry[<<"bank-a", "expired">>] =
       Entry("s-expired", "previous", WindowClosed, TRUE)
  /\ DrillRegistry[<<"bank-a", "revoked">>] = Entry("s-revoked", "revoked", None, TRUE)
  /\ DrillRegistry[<<"bank-a", "next">>] = Entry("s-next", "next", None, TRUE)
  /\ DrillRegistry[<<"bank-disabled", "current">>] =
       Entry("s-disabled", "disabled", None, FALSE)
BY DEF DrillRegistry, WindowOpen, WindowClosed

(* The windows and the ages of the drill, around its fixed time: a previous   *)
(* key has five minutes left or ended a second ago, and a skew of ten minutes *)
(* exceeds the five that are allowed                                          *)
LEMMA DrillTimes ==
  /\ \A e : e.until = WindowOpen => PreviousWindowIsActive(e, FixedNow)
  /\ \A e : e.until = WindowClosed => ~PreviousWindowIsActive(e, FixedNow)
  /\ ~(AbsDiff(JustNow, FixedNow) \div 2 > DrillSkew)
  /\ AbsDiff(LongAgo, FixedNow) \div 2 > DrillSkew
  /\ JustNow # Unparsable
BY RotationAssumptions DEF PreviousWindowIsActive, FixedNow, AbsDiff, JustNow, LongAgo,
   WindowOpen, WindowClosed, DrillSkew

(* The verifier's answer to a case *)
LEMMA CaseVerdict ==
  ASSUME NEW c
  PROVE  CaseReason(c) = VerifyPartnerHmacRequest(DrillRegistry, c.r, FixedNow, DrillSkew, c.dry)
BY DEF CaseReason, DrillSkew

(* The current key, the previous one in its window and, in a dry run, the     *)
(* staged one are accepted                                                    *)
LEMMA CaseAccepted ==
  ASSUME NEW c, c.r.nonce, c.r.timestamp = JustNow,
         \/ c.r.id = <<"bank-a", "current">> /\ c.r.signature = "s-current"
         \/ c.r.id = <<"bank-a", "previous">> /\ c.r.signature = "s-previous"
         \/ c.r.id = <<"bank-a", "next">> /\ c.r.signature = "s-next" /\ c.dry
  PROVE  CaseReason(c) \in Accepting
<1>1. PICK e : e = DrillRegistry[c.r.id]
  OBVIOUS
<1>2. c.r.signature # None /\ c.r.signature # "not_hex"
  BY Zenon, RotationAssumptions
<1>3. /\ c.r.id \in DOMAIN DrillRegistry
      /\ \/ e = Entry("s-current", "current", None, TRUE) /\ c.r.signature = "s-current"
         \/ /\ e = Entry("s-previous", "previous", WindowOpen, TRUE)
            /\ c.r.signature = "s-previous"
         \/ e = Entry("s-next", "next", None, TRUE) /\ c.r.signature = "s-next" /\ c.dry
  BY Zenon, <1>1, DrillKeys
<1>4. /\ e.client_enabled /\ e.secret = c.r.signature
      /\ \/ e.status = "current"
         \/ e.status = "previous" /\ e.until = WindowOpen
         \/ e.status = "next" /\ c.dry
  BY <1>3 DEF Entry
<1>5. \/ e.status = "current"
      \/ e.status = "previous" /\ PreviousWindowIsActive(e, FixedNow)
      \/ e.status = "next" /\ c.dry
  BY Zenon, <1>4, DrillTimes
<1>6. c.r.timestamp # Unparsable /\ ~(AbsDiff(c.r.timestamp, FixedNow) \div 2 > DrillSkew)
  BY Zenon, DrillTimes
<1>7. VerifyPartnerHmacRequest(DrillRegistry, c.r, FixedNow, DrillSkew, c.dry) \in Accepting
  BY Zenon, <1>1, <1>2, <1>3, <1>4, <1>5, <1>6, AcceptsSigned
<1> QED
  BY Zenon, <1>7, CaseVerdict

(* A key that is expired, revoked or of a disabled client, an old request, a  *)
(* missing nonce and a wrong signature are rejected                           *)
LEMMA CaseRejected ==
  ASSUME NEW c,
         \/ c.r.id = <<"bank-a", "expired">>
         \/ c.r.id = <<"bank-a", "revoked">>
         \/ c.r.id = <<"bank-disabled", "current">>
         \/ c.r.timestamp = LongAgo
         \/ ~c.r.nonce
         \/ c.r.id = <<"bank-a", "current">> /\ c.r.signature = "zeros"
  PROVE  CaseReason(c) \notin Accepting
<1>1. PICK e : e = DrillRegistry[c.r.id]
  OBVIOUS
<1>2. \/ e = Entry("s-expired", "previous", WindowClosed, TRUE)
      \/ e = Entry("s-revoked", "revoked", None, TRUE)
      \/ e = Entry("s-disabled", "disabled", None, FALSE)
      \/ AbsDiff(c.r.timestamp, FixedNow) \div 2 > DrillSkew
      \/ ~c.r.nonce
      \/ e = Entry("s-current", "current", None, TRUE) /\ c.r.signature = "zeros"
  BY Zenon, <1>1, DrillKeys, DrillTimes
<1>3. \/ ~c.r.nonce
      \/ AbsDiff(c.r.timestamp, FixedNow) \div 2 > DrillSkew
      \/ ~e.client_enabled
      \/ e.status = "revoked"
      \/ e.status = "previous" /\ e.until = WindowClosed
      \/ e.secret # c.r.signature
  BY <1>2 DEF Entry
<1>4. e.until = WindowClosed => ~PreviousWindowIsActive(e, FixedNow)
  BY Zenon, DrillTimes
<1>5. VerifyPartnerHmacRequest(DrillRegistry, c.r, FixedNow, DrillSkew, c.dry) \notin Accepting
  BY Zenon, <1>1, <1>3, <1>4, RejectsUnsound
<1> QED
  BY Zenon, <1>5, CaseVerdict

(* The cases that the drill expects to be accepted (build_report)             *)
LEMMA ExpectedCases ==
  ASSUME NEW name \in {"current_secret_success", "previous_secret_inside_window_success",
                       "next_secret_dry_run_success"},
         NEW c, c = DrillCases[name]
  PROVE  c.expected = TRUE /\ CaseReason(c) \in Accepting
<1>1. CASE name = "current_secret_success"
  <2>1. PICK d : d = DrillCases["current_secret_success"]
    OBVIOUS
  <2>2. /\ d.expected = TRUE /\ d.r.nonce = TRUE /\ d.r.timestamp = FixedNow - 0
        /\ d.r.id = <<"bank-a", "current">> /\ d.r.signature = "s-current"
    BY ONLY <2>1 DEF DrillCases
  <2>3. d.r.timestamp = JustNow
    BY Zenon, <2>2 DEF JustNow
  <2> QED
    BY Zenon, <1>1, <2>1, <2>2, <2>3, CaseAccepted
<1>2. CASE name = "previous_secret_inside_window_success"
  <2>1. PICK d : d = DrillCases["previous_secret_inside_window_success"]
    OBVIOUS
  <2>2. /\ d.expected = TRUE /\ d.r.nonce = TRUE /\ d.r.timestamp = FixedNow - 0
        /\ d.r.id = <<"bank-a", "previous">> /\ d.r.signature = "s-previous"
    BY ONLY <2>1 DEF DrillCases
  <2>3. d.r.timestamp = JustNow
    BY Zenon, <2>2 DEF JustNow
  <2> QED
    BY Zenon, <1>2, <2>1, <2>2, <2>3, CaseAccepted
<1>3. CASE name = "next_secret_dry_run_success"
  <2>1. PICK d : d = DrillCases["next_secret_dry_run_success"]
    OBVIOUS
  <2>2. /\ d.expected = TRUE /\ d.r.nonce = TRUE /\ d.r.timestamp = FixedNow - 0
        /\ d.r.id = <<"bank-a", "next">> /\ d.r.signature = "s-next" /\ d.dry = TRUE
    BY ONLY <2>1 DEF DrillCases
  <2>3. d.r.timestamp = JustNow
    BY Zenon, <2>2 DEF JustNow
  <2> QED
    BY Zenon, <1>3, <2>1, <2>2, <2>3, CaseAccepted
<1> QED
  BY Zenon, <1>1, <1>2, <1>3

(* The cases that the drill expects to be rejected (build_report)             *)
LEMMA UnexpectedCases ==
  ASSUME NEW name \in {"previous_secret_expired_reject", "revoked_secret_reject",
                       "disabled_client_reject", "timestamp_skew_reject",
                       "missing_nonce_reject", "invalid_signature_reject"},
         NEW c, c = DrillCases[name]
  PROVE  c.expected = FALSE /\ CaseReason(c) \notin Accepting
<1>1. CASE name = "previous_secret_expired_reject"
  <2>1. PICK d : d = DrillCases["previous_secret_expired_reject"]
    OBVIOUS
  <2>2. d.expected = FALSE /\ d.r.id = <<"bank-a", "expired">>
    BY ONLY <2>1 DEF DrillCases
  <2> QED
    BY Zenon, <1>1, <2>1, <2>2, CaseRejected
<1>2. CASE name = "revoked_secret_reject"
  <2>1. PICK d : d = DrillCases["revoked_secret_reject"]
    OBVIOUS
  <2>2. d.expected = FALSE /\ d.r.id = <<"bank-a", "revoked">>
    BY ONLY <2>1 DEF DrillCases
  <2> QED
    BY Zenon, <1>2, <2>1, <2>2, CaseRejected
<1>3. CASE name = "disabled_client_reject"
  <2>1. PICK d : d = DrillCases["disabled_client_reject"]
    OBVIOUS
  <2>2. d.expected = FALSE /\ d.r.id = <<"bank-disabled", "current">>
    BY ONLY <2>1 DEF DrillCases
  <2> QED
    BY Zenon, <1>3, <2>1, <2>2, CaseRejected
<1>4. CASE name = "timestamp_skew_reject"
  <2>1. PICK d : d = DrillCases["timestamp_skew_reject"]
    OBVIOUS
  <2>2. d.expected = FALSE
    BY ONLY <2>1 DEF DrillCases
  <2>3. d.r.timestamp = LongAgo
    BY ONLY <2>1 DEF DrillCases, LongAgo
  <2>4. CaseReason(d) \notin Accepting
    BY Zenon, <2>3, CaseRejected
  <2>5. c = d
    BY Zenon, <1>4, <2>1
  <2> QED
    BY Zenon, <2>2, <2>4, <2>5
<1>5. CASE name = "missing_nonce_reject"
  <2>1. PICK d : d = DrillCases["missing_nonce_reject"]
    OBVIOUS
  <2>2. d.expected = FALSE /\ d.r.nonce = FALSE
    BY ONLY <2>1 DEF DrillCases
  <2> QED
    BY Zenon, <1>5, <2>1, <2>2, CaseRejected
<1>6. CASE name = "invalid_signature_reject"
  <2>1. PICK d : d = DrillCases["invalid_signature_reject"]
    OBVIOUS
  <2>2. d.expected = FALSE /\ d.r.id = <<"bank-a", "current">> /\ d.r.signature = "zeros"
    BY ONLY <2>1 DEF DrillCases
  <2> QED
    BY Zenon, <1>6, <2>1, <2>2, CaseRejected
<1> QED
  BY Zenon, <1>1, <1>2, <1>3, <1>4, <1>5, <1>6

(* The drill's report is one its validator accepts: all nine cases of the     *)
(* rotation end as the catalogue expects (build_report,                       *)
(* validate_report_payload)                                                   *)
LEMMA DrillReport == ReportIsValid
<1>1. ASSUME NEW name \in DOMAIN DrillCases
      PROVE  (CaseReason(DrillCases[name]) \in Accepting) = DrillCases[name].expected
  <2>1. PICK c : c = DrillCases[name]
    OBVIOUS
  <2>2. \/ name \in {"current_secret_success", "previous_secret_inside_window_success",
                     "next_secret_dry_run_success"}
        \/ name \in {"previous_secret_expired_reject", "revoked_secret_reject",
                     "disabled_client_reject", "timestamp_skew_reject",
                     "missing_nonce_reject", "invalid_signature_reject"}
    BY DEF DrillCases
  <2>3. \/ c.expected = TRUE /\ CaseReason(c) \in Accepting
        \/ c.expected = FALSE /\ CaseReason(c) \notin Accepting
    BY Zenon, <2>1, <2>2, ExpectedCases, UnexpectedCases
  <2>4. \/ c.expected = TRUE /\ (CaseReason(c) \in Accepting) = TRUE
        \/ c.expected = FALSE /\ (CaseReason(c) \in Accepting) = FALSE
    BY <2>3
  <2> QED
    BY Zenon, <2>1, <2>4
<1> QED
  BY Zenon, <1>1 DEF ReportIsValid

(* What a process answers to a request is not what the drill reports *)
LEMMA NoReport ==
  ASSUME NEW s, SettingsOK(s), NEW r, NEW t
  PROVE  VerifyExternalRequestSignature(s, r, t) # "report_invalid"
<1> DEFINE registry == FromConfig(s.entries)
<1>1. \A k \in DOMAIN registry : k \in DOMAIN s.entries /\ registry[k] = s.entries[k]
  BY Zenon DEF FromConfig, Restrict
<1>2. \A k \in DOMAIN registry : registry[k].status \in KeyStatus
  BY Zenon, <1>1 DEF SettingsOK, EntryOK, KeyEntry
<1>3. /\ AcceptReason["current"] = "current_secret"
      /\ AcceptReason["previous"] = "previous_grace_window"
      /\ AcceptReason["next"] = "next_dry_run"
  BY DEF AcceptReason
<1> HIDE DEF registry
<1>4. VerifyPartnerHmacRequest(registry, r, t, AllowedSkew, FALSE) # "report_invalid"
  BY Zenon, <1>2, <1>3 DEF VerifyPartnerHmacRequest, KeyStatus
<1> QED
  BY Zenon, <1>4 DEF VerifyExternalRequestSignature, VerifySingleSecret, registry

(* The drill's report is valid, whatever the rotation has come to             *)
THEOREM DrillPassesAlways == Spec => []DrillPasses
<1>1. Init => DrillPasses
  BY Zenon, RotationAssumptions DEF Init, DrillPasses
<1>2. RotationInv /\ DrillPasses /\ [Next]_vars => DrillPasses'
  <2> SUFFICES ASSUME RotationInv, DrillPasses, [Next]_vars PROVE decision' # "report_invalid"
    BY Zenon DEF DrillPasses
  <2>1. CASE Smoke
    BY Zenon, <2>1, DrillReport DEF Smoke
  <2>2. CASE \E p \in Processes : \E r \in wire : Verify(p, r)
    <3>1. PICK p \in Processes, r \in wire :
            decision' = VerifyExternalRequestSignature(loaded[p], r, now)
      BY Zenon, <2>2 DEF Verify
    <3> QED
      BY Zenon, <3>1, NoReport DEF RotationInv
  <2>3. CASE decision' = None \/ decision' = decision
    BY Zenon, <2>3, RotationAssumptions DEF DrillPasses
  <2> QED
    BY Zenon, <2>1, <2>2, <2>3 DEF Next, StageNext, Promote, Revoke, DisableClient,
       EnablePartnerAuth, SwitchKey, Send, Tick, Restart, ChangeEnv, vars
<1> QED BY <1>1, <1>2, RotationInvariant, PTL DEF Spec

=============================================================================

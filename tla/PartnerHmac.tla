----------------------------- MODULE PartnerHmac -----------------------------
(***************************************************************************)
(* How a process decides whether a write request is signed by its partner,  *)
(* as operators, and the drill that exercises the decisions.  A signature   *)
(* is the secret it was made with: two signatures of one request are equal  *)
(* if and only if the secrets are.  Times are in half seconds, so that the  *)
(* truncation of a skew to whole seconds shows.                             *)
(***************************************************************************)
EXTENDS Integers, Functions

CONSTANTS
  AllowedSkew,   \* in seconds
  Production,    \* whether app_env says so
  None,          \* what is not given: a header, a time
  Unparsable     \* a time that is not a timestamp

(* entries: [secret, status, until, client_enabled] by <<client, key>>; an *)
(* entry whose time cannot be parsed is dropped                            *)
FromConfig(entries) ==
  Restrict(entries, {k \in DOMAIN entries : entries[k].until # Unparsable})

AbsDiff(t, u) == IF t > u THEN t - u ELSE u - t

(* mutant: the last moment of the window is outside *)
PreviousWindowIsOpen(secret, now) == secret.until # None /\ now < secret.until

(* mutant: a window, once given, does not end *)
PreviousWindowIsEndless(secret, now) == secret.until # None

PreviousWindowIsActive(secret, now) == secret.until # None /\ now <= secret.until

AcceptReason ==
  [current |-> "current_secret", previous |-> "previous_grace_window", next |-> "next_dry_run"]

(* the first reason to reject, or the reason to accept *)
VerifyPartnerHmacRequest(registry, r, now, skew, allow_next) ==
  LET secret == registry[r.id] IN
  IF ~r.nonce THEN "missing_nonce"
  ELSE IF r.signature = None THEN "missing_signature"
  ELSE IF r.signature = "not_hex" THEN "invalid_signature_format"
  ELSE IF r.timestamp = Unparsable THEN "invalid_timestamp"
  ELSE IF AbsDiff(r.timestamp, now) \div 2 > skew THEN "timestamp_skew_exceeded"
  ELSE IF r.id \notin DOMAIN registry
  THEN IF \E k \in DOMAIN registry : k[1] = r.id[1] THEN "unknown_key" ELSE "unknown_client"
  ELSE IF ~secret.client_enabled \/ secret.status = "disabled" THEN "disabled_client"
  ELSE IF secret.status = "revoked" THEN "revoked_key"
  ELSE IF secret.status = "next" /\ ~allow_next THEN "next_not_allowed"
  ELSE IF secret.status = "previous" /\ ~PreviousWindowIsActive(secret, now)
  THEN "previous_expired"
  ELSE IF secret.secret # r.signature THEN "invalid_signature"
  ELSE AcceptReason[secret.status]

Accepting == Range(AcceptReason)

(* the single-secret path; here the skew is not truncated *)
VerifySingleSecret(secrets, r, now) ==
  IF r.id[1] \notin DOMAIN secrets THEN "unknown_client"
  ELSE IF r.timestamp = Unparsable THEN "invalid_timestamp"
  ELSE IF AbsDiff(r.timestamp, now) > 2 * AllowedSkew THEN "expired_timestamp"
  ELSE IF r.signature # secrets[r.id[1]] THEN "invalid_signature"
  ELSE "accepted"

(* mutant: the write API honours the dry-run flag *)
VerifyWithDryRun(settings, r, now) ==
  IF settings.mode = "partner" /\ r.form = "partner"
  THEN VerifyPartnerHmacRequest(FromConfig(settings.entries), r, now, AllowedSkew, TRUE)
  ELSE "invalid_signature"

(* the dependency of the write API.  settings: [mode, secrets, entries]; a   *)
(* request of the single form lacks X-Key-Id and X-Nonce, and what the two   *)
(* forms sign differs                                                        *)
VerifyExternalRequestSignature(settings, r, now) ==
  IF settings.mode = "partner"
  THEN IF r.form = "single" THEN "missing_header"
       ELSE IF DOMAIN FromConfig(settings.entries) = {} THEN "misconfigured"
       ELSE VerifyPartnerHmacRequest(FromConfig(settings.entries), r, now, AllowedSkew, FALSE)
  ELSE IF settings.mode = "off" THEN IF Production THEN "misconfigured" ELSE "accepted"
  ELSE IF r.form = "partner" THEN "invalid_signature"
  ELSE VerifySingleSecret(settings.secrets, r, now)

Accepted(reason) == reason = "accepted" \/ reason \in Accepting

-----------------------------------------------------------------------------
(* The rotation drill *)

FixedNow == 10000

Entry(secret, status, until, enabled) ==
  [secret |-> secret, status |-> status, until |-> until, client_enabled |-> enabled]

DrillRegistry ==
  LET id(k) == <<"bank-a", k>>
      keys == [current |-> Entry("s-current", "current", None, TRUE),
               previous |-> Entry("s-previous", "previous", FixedNow + 600, TRUE),
               expired |-> Entry("s-expired", "previous", FixedNow - 2, TRUE),
               revoked |-> Entry("s-revoked", "revoked", None, TRUE),
               next |-> Entry("s-next", "next", None, TRUE)]
  IN [i \in {id(k) : k \in DOMAIN keys} \cup {<<"bank-disabled", "current">>} |->
        IF i[1] = "bank-a" THEN keys[i[2]] ELSE Entry("s-disabled", "disabled", None, FALSE)]

(* the nine required cases: what differs from a plain request with the current *)
(* key, and the result that is expected                                        *)
DrillCases ==
  LET case(client, key, secret, age, nonce, dry, expected) ==
        [r |-> [form |-> "partner", id |-> <<client, key>>, signature |-> secret,
                timestamp |-> FixedNow - age, nonce |-> nonce],
         dry |-> dry, expected |-> expected]
  IN [current_secret_success |-> case("bank-a", "current", "s-current", 0, TRUE, FALSE, TRUE),
      previous_secret_inside_window_success |->
        case("bank-a", "previous", "s-previous", 0, TRUE, FALSE, TRUE),
      previous_secret_expired_reject |->
        case("bank-a", "expired", "s-expired", 0, TRUE, FALSE, FALSE),
      revoked_secret_reject |-> case("bank-a", "revoked", "s-revoked", 0, TRUE, FALSE, FALSE),
      disabled_client_reject |->
        case("bank-disabled", "current", "s-disabled", 0, TRUE, FALSE, FALSE),
      timestamp_skew_reject |-> case("bank-a", "current", "s-current", 1200, TRUE, FALSE, FALSE),
      missing_nonce_reject |-> case("bank-a", "current", "s-current", 0, FALSE, FALSE, FALSE),
      invalid_signature_reject |-> case("bank-a", "current", "zeros", 0, TRUE, FALSE, FALSE),
      next_secret_dry_run_success |-> case("bank-a", "next", "s-next", 0, TRUE, TRUE, TRUE)]

(* build_report, and validate_report_payload: the validator compares results *)
(* only, so that a rejection for another reason than the named one is valid  *)
CaseReason(c) == VerifyPartnerHmacRequest(DrillRegistry, c.r, FixedNow, 300, c.dry)

ReportIsValid ==
  \A name \in DOMAIN DrillCases :
    LET c == DrillCases[name] IN (CaseReason(c) \in Accepting) = c.expected

=============================================================================

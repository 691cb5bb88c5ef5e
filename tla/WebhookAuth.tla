----------------------------- MODULE WebhookAuth -----------------------------
(***************************************************************************)
(* Whether a webhook request is authentic (internal/webhook/auth.go).  A   *)
(* header that is absent is "" or <<>>; a MAC is the record of what it     *)
(* covers, the text of the timestamp included, and of its key.             *)
(***************************************************************************)
EXTENDS Integers, Sequences

CONSTANTS
    Tolerance,       \* seconds a signed timestamp may be away from now
    Seconds          \* the texts that strconv.ParseInt reads, and as what

ASSUME ToleranceAssumption == Tolerance \in Nat
ASSUME SecondsAssumption == Seconds \in [DOMAIN Seconds -> Int] /\ "" \notin DOMAIN Seconds

\* secretAuth.Authenticate
SecretMatches(secret, token) == secret # "" /\ token = secret

MAC(key, id, ts, body) == [key |-> key, id |-> id, ts |-> ts, body |-> body]

\* Mutant: a timestamp of the future is never refused.
FreshOneSided(now, ts) == now - ts <= Tolerance

Fresh(now, ts) == now - ts <= Tolerance /\ ts - now <= Tolerance

\* signingTokenAuth.Authenticate: one of the signatures is the expected one.
SignatureMatches(key, now, r) ==
    /\ r.id # "" /\ r.ts # "" /\ r.signatures # <<>>
    /\ r.ts \in DOMAIN Seconds
    /\ Fresh(now, Seconds[r.ts])
    /\ \E i \in DOMAIN r.signatures : r.signatures[i] = MAC(key, r.id, r.ts, r.body)
=============================================================================

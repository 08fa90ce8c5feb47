---------------------------- MODULE HmacVerifier ----------------------------
(***************************************************************************)
(* internal/adapters/hmac/verifier.go: the checks that decide whether a    *)
(* request was signed by its caller, in the order the code makes them.     *)
(*                                                                         *)
(* A request is a record.  The fields that matter here are                 *)
(*   envelope   the first fault met while the body is read, the required   *)
(*              headers are collected and the timestamp is parsed, or      *)
(*              "ok";                                                      *)
(*   timestamp  the instant its signer wrote into it;                      *)
(*   kid        the key id it names;                                       *)
(*   canonical  the fault met while the signed headers are put in          *)
(*              canonical form, or "ok";                                   *)
(*   secret     the secret under which its signature is right for exactly  *)
(*              this canonical request (NoSecret: under none).             *)
(***************************************************************************)
EXTENDS Integers

CONSTANTS
    Keys,    \* Keys[c] = [active, previous], each [kid, secret]
    Skew     \* clockSkew, the tolerated distance of a timestamp

ASSUME SkewAssumption == Skew \in Nat

NoSecret == "no_secret"

\* A connector without a previous key. No request names the empty key id: the
\* required headers are never empty.
NoKey == [kid |-> "", secret |-> NoSecret]

EnvelopeFaults == {"payload_too_large", "hmac_verification_failed",
                   "missing_hmac_header", "malformed_signed_header",
                   "unsigned_required_hmac_header", "invalid_hmac_timestamp"}

CanonicalFaults == {"missing_hmac_header", "malformed_signed_header"}

\* Everything hmacErrorCode can say of a request, and payload_too_large.
VerifyFaults == EnvelopeFaults \union CanonicalFaults \union
    {"stale_hmac_timestamp", "unknown_hmac_key", "invalid_hmac_signature"}

\* Mutant: the absolute value is missing, timestamps of the future are accepted.
Distance_Signed(a, b) == a - b

\* The duration between two instants, v.now().Sub(timestamp).Abs().
Distance(a, b) == IF a < b THEN b - a ELSE a - b

\* The secret of a key id; the active key wins over the previous one.
lookupKey(c, kid) ==
    IF Keys[c].active.kid = kid THEN Keys[c].active.secret
    ELSE IF Keys[c].previous.kid = kid THEN Keys[c].previous.secret
    ELSE NoSecret

\* The verdict on request m of connector c when the wall clock reads now: "ok",
\* or the code of the first check that fails.
Verify(c, m, now) ==
    IF m.envelope # "ok" THEN m.envelope
    ELSE IF Distance(now, m.timestamp) > Skew THEN "stale_hmac_timestamp"
    ELSE IF lookupKey(c, m.kid) = NoSecret THEN "unknown_hmac_key"
    ELSE IF m.canonical # "ok" THEN m.canonical
    ELSE IF lookupKey(c, m.kid) # m.secret THEN "invalid_hmac_signature"
    ELSE "ok"
=============================================================================

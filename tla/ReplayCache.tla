---------------------------- MODULE ReplayCache ----------------------------
(***************************************************************************)
(* replayCache of internal/ports/httpapi/server.go: a map from replay keys *)
(* to the instant at which they may be forgotten, shared by every          *)
(* connector of the process and lost when the process ends.                *)
(***************************************************************************)
EXTENDS Integers, Sequences

CONSTANT Ttl     \* how long a key is kept

ASSUME TtlAssumption == Ttl \in Nat

\* The key is one string: the parts joined with colons, none of them escaped.
\* Request ids and nonces are sequences of words, so that a colon may be one.
replayKey(m) ==
    <<m.connector, ":", m.kid, ":">> \o m.requestID \o <<":">> \o m.nonce

\* The entries that survive the sweep at the start of Remember.
Unexpired(entries, now) ==
    [k \in {k \in DOMAIN entries : ~ (now > entries[k])} |-> entries[k]]

\* Is the key known, once the sweep of the instant now is done?
Known(entries, key, now) == key \in DOMAIN Unexpired(entries, now)

\* The map that Remember leaves: swept, and with the key added if it was not
\* known. A known key keeps its old expiry.
Remembered(entries, key, now) ==
    LET kept == Unexpired(entries, now)
    IN  [k \in DOMAIN kept \union {key} |->
            IF k \in DOMAIN kept THEN kept[k] ELSE now + Ttl]
=============================================================================

-------------------------- MODULE MCVerifyPassword --------------------------
(* Small instances of VerifyPassword for TLC. *)
EXTENDS VerifyPassword, TLC

CONSTANTS
    c1, c2,     \* connector ids
    Nonces      \* nonces of otherwise identical requests

\* Authrim's keys: c1 is in the middle of a key rotation, c2 is not.
MCKeys == (c1 :> [active   |-> [kid |-> "k2", secret |-> "s2"],
                  previous |-> [kid |-> "k1", secret |-> "s1"]])
       @@ (c2 :> [active   |-> [kid |-> "k1", secret |-> "s3"],
                  previous |-> NoKey])

\* A well-formed request of connector c1, signed with its active key.
Good(nonce, stamp) ==
    [connector |-> c1, envelope |-> "ok", timestamp |-> stamp, kid |-> "k2",
     canonical |-> "ok", secret |-> "s2", requestID |-> <<"q">>,
     nonce |-> <<nonce>>, body |-> "valid"]

WithBody(m, body) == [m EXCEPT !.body = body]

\* Replays: two requests that differ in timestamp and key.
ReplayMessages ==
    {Good("n1", 2), [Good("n2", 3) EXCEPT !.kid = "k1", !.secret = "s1"]}

\* Storms: as many distinct requests as handlers, with a body or without.
StormMessages == {Good(n, 0) : n \in Nonces}
                    \union {WithBody(Good(n, 0), "malformed") : n \in Nonces}

\* Traffic of two connectors, authenticated or not, of every body class.
ForC2(m) == [m EXCEPT !.connector = c2, !.kid = "k1", !.secret = "s3"]

MixedMessages ==
    LET m == Good("n1", 0)
    IN  {m, WithBody(m, "malformed"),               \* one key, two bodies
         ForC2(m), ForC2(WithBody(m, "mismatch")),
         [m EXCEPT !.secret = "s3"],                 \* signed by the other tenant
         Good("n2", 0),                              \* competes for the semaphore
         [m EXCEPT !.connector = "unconfigured"]}

\* Forgeries: requests of c1 with a signature under no key of c1.
ForgedMessages == {[Good("n1", 0) EXCEPT !.secret = "s3"], Good("n2", 0)}

\* Two requests whose ids and nonces differ, and whose joined keys do not.
ColonMessages ==
    {[Good("b", 0) EXCEPT !.requestID = <<"q", ":", "a">>],
     [Good("b", 0) EXCEPT !.nonce = <<"a", ":", "b">>]}

CapacityOne == [c \in Connectors |-> 1]
CapacityTwo == [c \in Connectors |-> 2]

LimitOne == [k \in StormKinds |-> 1]
LimitTwo == [k \in StormKinds |-> 2]

Symmetric == Permutations(Requests) \union Permutations(Nonces)
=============================================================================

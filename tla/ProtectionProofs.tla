-------------------------- MODULE ProtectionProofs --------------------------
(***************************************************************************)
(* What the operators of the replay cache and of the storm counters return.*)
(***************************************************************************)
EXTENDS ReplayCache, StormProtection, TLAPS

\* Remember keeps the cache a map from keys to instants.
LEMMA RememberedType ==
    ASSUME NEW K, NEW e, DOMAIN e \subseteq K, e \in [DOMAIN e -> Nat],
           NEW key \in K, NEW now \in Nat
    PROVE  /\ DOMAIN Remembered(e, key, now) \subseteq K
           /\ Remembered(e, key, now) \in
                 [DOMAIN Remembered(e, key, now) -> Nat]
BY TtlAssumption DEF Remembered, Unexpired

\* Remember never shortens the life of a key before it has expired, and keeps a
\* new key for Ttl.
LEMMA RememberedKeeps ==
    ASSUME NEW e, NEW key, NEW now
    PROVE  /\ \A k \in DOMAIN e :
                 ~ (now > e[k]) => /\ k \in DOMAIN Remembered(e, key, now)
                                   /\ Remembered(e, key, now)[k] = e[k]
           /\ ~ Known(e, key, now) =>
                 /\ key \in DOMAIN Remembered(e, key, now)
                 /\ Remembered(e, key, now)[key] = now + Ttl
           /\ key \in DOMAIN e /\ ~ (now > e[key]) => Known(e, key, now)
           /\ Known(e, key, now) => key \in DOMAIN e
           /\ DOMAIN Remembered(e, key, now) \subseteq DOMAIN e \union {key}
BY DEF Remembered, Known, Unexpired

\* Recording an event keeps a storm state well formed.
LEMMA RecordType ==
    ASSUME NEW s \in StormState, NEW kind \in StormKinds, NEW now \in Nat
    PROVE  Record(s, kind, now) \in StormState
<1>1. Limit[kind] \in Nat /\ Window \in Nat /\ Block \in Nat
    BY StormAssumption
<1> QED
    BY <1>1 DEF Record, WindowOver, StormState, Never
=============================================================================

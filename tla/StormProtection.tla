-------------------------- MODULE StormProtection --------------------------
(***************************************************************************)
(* internal/ports/httpapi/storm.go (and its twin in the relay adapter):    *)
(* per-connector counters of replays, malformed requests and directory     *)
(* errors.  A counter that reaches its limit inside one window blocks the  *)
(* connector for a while.                                                  *)
(*                                                                         *)
(* Each method reads the clock BEFORE it takes the mutex, so the instant   *)
(* now that it works with may be older than the state it finds: now is a   *)
(* parameter here and the callers choose it.                               *)
(***************************************************************************)
EXTENDS Integers

CONSTANTS
    Window,   \* policy.WindowMS
    Block,    \* policy.BlockMS
    Limit     \* Limit[kind], the kind's threshold

StormKinds == {"malformed_request", "replay", "directory_error"}

\* What newConnectorStorms and the configuration's validation leave: every
\* value is positive.
ASSUME StormAssumption ==
    /\ Window \in Nat \ {0}
    /\ Block \in Nat \ {0}
    /\ Limit \in [StormKinds -> Nat \ {0}]

Never == -1      \* the zero time.Time

\* A kind that is missing from the map reads as the zero stormState.
ZeroState == [windowStart |-> Never, count |-> 0, blockedUntil |-> Never]

StormState == [windowStart : Nat \union {Never},
               count : Nat,
               blockedUntil : Nat \union {Never}]

\* blocked: is the kind blocked at the instant now?
Blocked(state, now) == state.blockedUntil # Never /\ now < state.blockedUntil

\* The window is over, or was never opened.
WindowOver(state, now) ==
    state.windowStart = Never \/ now - state.windowStart > Window

\* record: count one more event, seen at the instant now. A finished window is
\* replaced by one that starts now; the block is (re)started from now whenever
\* the count has reached the limit, and otherwise left as it is.
Record(state, kind, now) ==
    LET over  == WindowOver(state, now)
        count == (IF over THEN 0 ELSE state.count) + 1
    IN  [windowStart  |-> IF over THEN now ELSE state.windowStart,
         count        |-> count,
         blockedUntil |-> IF count >= Limit[kind] THEN now + Block
                                                  ELSE state.blockedUntil]
=============================================================================

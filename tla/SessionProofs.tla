---------------------------- MODULE SessionProofs ----------------------------
(***************************************************************************)
(* The steps of a relay connection keep its types.                         *)
(***************************************************************************)
EXTENDS RelaySession, TLAPS

\* The delay stays between its bounds, whatever the sequence of connections (Run).
LEMMA SessionTypes ==
    ASSUME SessionTypeOK,
           \/ DialSucceeds \/ ChallengeAnswered \/ Authenticated \/ Wake
           \/ PeerFlips \/ SessionFails \/ SessionStops \/ Elapse
    PROVE  SessionTypeOK'
<1>1. /\ ReconnectMin \in Nat /\ ReconnectMax \in Nat /\ backoff \in Nat
      /\ ReconnectMin <= backoff /\ backoff <= ReconnectMax
    BY ReconnectAssumption DEF SessionTypeOK
<1>2. CASE DialSucceeds \/ ChallengeAnswered \/ Authenticated \/ PeerFlips
    BY <1>2 DEF SessionTypeOK, DialSucceeds, ChallengeAnswered, Authenticated,
            Forward, PeerFlips, RunLocations, Connected
<1>3. CASE SessionFails \/ SessionStops
    BY <1>1, <1>3 DEF SessionTypeOK, SessionFails, SessionStops, EndSession,
            RunLocations
<1>4. CASE Wake
    BY <1>1, <1>4 DEF SessionTypeOK, Wake, RunLocations
<1>5. CASE Elapse
    BY <1>1, <1>5 DEF SessionTypeOK, Elapse
<1> QED
    BY <1>2, <1>3, <1>4, <1>5
==============================================================================

---------------------------- MODULE RelaySession ----------------------------
(***************************************************************************)
(* Run, runOnce and authenticate of internal/adapters/relay/client.go: the *)
(* life of the relay client's connection to Authrim.  Run dials, answers a *)
(* challenge, reads verify requests until the connection ends, sleeps and  *)
(* dials again.                                                            *)
(*                                                                         *)
(* The actions are about the connection only; the modules that use it say  *)
(* what a step does to the requests in flight.  Whether Authrim, the       *)
(* network and the connection, if there is one, are well is peerUp: while  *)
(* they are, a dial succeeds, a challenge is compatible and current, the   *)
(* handshake is accepted and the connection stays; while they are not, any *)
(* of these may fail, or simply not happen: no read has a timeout.         *)
(***************************************************************************)
EXTENDS Integers

CONSTANTS
    ReconnectMin,    \* config.ReconnectMin
    ReconnectMax     \* config.ReconnectMax

\* What applyDefaults and validateRelay leave.
ASSUME ReconnectAssumption ==
    /\ ReconnectMin \in Nat \ {0}
    /\ ReconnectMax \in Nat
    /\ ReconnectMin <= ReconnectMax

VARIABLES
    stopping,    \* serve has cancelled the context
    peerUp,      \* Authrim, the network and the connection are well
    run,         \* where Run is
    backoff,     \* the delay after the current connection
    left         \* what is left of the current delay

session == <<stopping, peerUp, run, backoff, left>>

\* A connection is open.
Connected == {"challenge", "ack", "serving"}

RunLocations == {"off", "dialing", "sleeping", "returned"} \union Connected

\* NewClient and the first lines of Run.
SessionBegins ==
    /\ run' = "dialing"
    /\ backoff' = ReconnectMin
    /\ left' = 0

\* One step forward of runOnce, which the peer has to make possible.
Forward(from, to) ==
    /\ run = from /\ ~ stopping /\ peerUp
    /\ run' = to
    /\ UNCHANGED <<stopping, peerUp, backoff, left>>

\* websocket.Dial.
DialSucceeds == Forward("dialing", "challenge")

\* authenticate reads a challenge and writes the signed response.
ChallengeAnswered == Forward("challenge", "ack")

\* authenticate reads auth.ok.
Authenticated == Forward("ack", "serving")

\* runOnce has returned, and its deferred call has closed the connection.
EndSession(l) ==
    /\ run' = l
    /\ left' = IF l = "sleeping" THEN backoff ELSE 0
    /\ UNCHANGED <<stopping, peerUp, backoff>>

\* Mutant: a handshake that is refused is final.
SessionFails_GivesUp ==
    /\ run \in {"dialing"} \union Connected /\ ~ stopping /\ ~ peerUp
    /\ EndSession(IF run \in {"challenge", "ack"} THEN "returned" ELSE "sleeping")

\* The dial, the handshake or a read fails: the peer is not there, refuses,
\* sends a challenge that has expired or is of another version, sends what is not
\* JSON or too large, or hangs up.
SessionFails ==
    /\ run \in {"dialing"} \union Connected /\ ~ stopping /\ ~ peerUp
    /\ EndSession("sleeping")

\* The context is cancelled: dial, read and sleep return at once, and so does
\* Run.
SessionStops ==
    /\ stopping
    /\ run \in {"dialing", "sleeping"} \union Connected
    /\ EndSession("returned")

\* Mutant: the delay has no maximum.
Wake_Uncapped ==
    /\ run = "sleeping" /\ left = 0
    /\ run' = "dialing"
    /\ backoff' = 2 * backoff
    /\ UNCHANGED <<stopping, peerUp, left>>

\* The delay is over. It doubles up to its maximum after every connection,
\* however long that lasted, and never shrinks again.
Wake ==
    /\ run = "sleeping" /\ left = 0
    /\ run' = "dialing"
    /\ backoff' = IF 2 * backoff > ReconnectMax THEN ReconnectMax ELSE 2 * backoff
    /\ UNCHANGED <<stopping, peerUp, left>>

\* One unit of the delay passes.
Elapse ==
    /\ left' = IF left > 0 THEN left - 1 ELSE 0
    /\ UNCHANGED <<stopping, peerUp, run, backoff>>

\* Authrim or the network comes or goes.
PeerFlips ==
    /\ peerUp' = ~ peerUp
    /\ UNCHANGED <<stopping, run, backoff, left>>

\* The types of a session.
SessionTypeOK ==
    /\ stopping \in BOOLEAN /\ peerUp \in BOOLEAN
    /\ run \in RunLocations
    /\ backoff \in ReconnectMin .. ReconnectMax
    /\ left \in 0 .. ReconnectMax
=============================================================================

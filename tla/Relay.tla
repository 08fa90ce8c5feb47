------------------------------- MODULE Relay -------------------------------
(***************************************************************************)
(* internal/adapters/relay/client.go: how the relay client processes the   *)
(* verify requests of its connection (see RelaySession).  Each request has *)
(* a goroutine of its own, which uses the context of the whole process and *)
(* so outlives the connection it came by.  The replay cache, the semaphore *)
(* and the storm counters belong to the client: they survive every         *)
(* connection and are lost with the process.                               *)
(*                                                                         *)
(* The client serves one connector, whose tenant and connector ids every   *)
(* valid request carries: a request is known by its request id alone, and  *)
(* copies of it that differ in the message id are copies.                  *)
(*                                                                         *)
(* Frames that are not verify requests of a compatible version are read    *)
(* and ignored, which changes nothing.                                     *)
(***************************************************************************)
EXTENDS FiniteSets, ReplayCache, StormProtection, RelaySession

CONSTANTS
    Requests,           \* goroutines of handleVerifyRequest, each used once
    Messages,           \* the verify requests Authrim may send
    NoMessage,
    Nobody,             \* writeMu is free
    Capacity,           \* config.Concurrency
    DirectoryOutcomes,  \* what the directory may answer
    MaxLag,             \* longest pause between two steps of a handler
    MaxClock            \* bound: time stops here

Verdicts == {"success", "failure", "policy_required"}

DirectoryFailures == {"directory_error", "source_unavailable"}

ASSUME RelayTimeAssumption ==
    /\ MaxLag \in Nat
    /\ MaxClock \in Nat

ASSUME RelayCapacityAssumption == Capacity \in Nat \ {0}

ASSUME RelayRequestsAssumption ==
    /\ IsFiniteSet(Requests)
    /\ Nobody \notin Requests

ASSUME RelayMessagesAssumption ==
    /\ NoMessage \notin Messages
    /\ \A m \in Messages : m.valid \in BOOLEAN

ASSUME RelayOutcomesAssumption ==
    DirectoryOutcomes \subseteq Verdicts \union DirectoryFailures

VARIABLES
    clock,       \* the monotonic clock
    pc,          \* where each handler is
    msg,         \* its request
    attached,    \* its connection is still the client's connection
    since,       \* the instant of its previous step, while it runs
    admitted,    \* the instant at which its key was taken, or Never
    answer,      \* the code of its answer
    fate,        \* what became of the answer
    entries,     \* the replay cache
    tokens,      \* how full the semaphore is
    storms,      \* storms[kind]
    writer       \* who holds writeMu

protection == <<entries, tokens, storms>>

vars == <<clock, session, pc, msg, attached, since, admitted, answer, fate,
          protection, writer>>

-----------------------------------------------------------------------------
(* Where a handler is *)

\* Holding a token: release is deferred by processVerifyRequest, which returns
\* before the answer is written.
Holding == {"acquired", "in_directory", "record_directory", "resetting",
            "releasing"}

\* Runnable: neither the directory nor the connection is waited for.
Running == {"received", "record_malformed", "storm_checked", "record_replay",
            "remembered"} \union (Holding \ {"in_directory"})

Locations == {"idle", "in_directory", "answering", "writing", "done"}
                \union Running

\* The answers of a request whose key was not taken, and of one whose key was.
RefusedCodes == {"malformed_request_storm_limited", "invalid_relay_request",
                 "replay_storm_limited", "replay_detected"}

AdmittedCodes == {"connector_rate_limited", "directory_error_storm_limited"}
                    \union Verdicts \union DirectoryFailures

-----------------------------------------------------------------------------
(* The connection *)

Init ==
    /\ clock = 0
    /\ stopping = FALSE
    /\ peerUp \in BOOLEAN
    /\ run = "dialing"
    /\ backoff = ReconnectMin
    /\ left = 0
    /\ pc = [r \in Requests |-> "idle"]
    /\ msg = [r \in Requests |-> NoMessage]
    /\ attached = [r \in Requests |-> FALSE]
    /\ since = [r \in Requests |-> 0]
    /\ admitted = [r \in Requests |-> Never]
    /\ answer = [r \in Requests |-> "none"]
    /\ fate = [r \in Requests |-> "pending"]
    /\ entries = [k \in {} |-> 0]
    /\ tokens = 0
    /\ storms = [k \in StormKinds |-> ZeroState]
    /\ writer = Nobody

handlers == <<pc, msg, since, admitted, answer, fate, writer>>

\* Mutant: the replay cache belongs to the connection.
SessionGoesOn_Forgets ==
    /\ \/ ChallengeAnswered \/ Authenticated \/ Wake \/ PeerFlips
       \/ DialSucceeds
    /\ entries' = IF run = "dialing" /\ run' = "challenge" THEN [k \in {} |-> 0]
                                                         ELSE entries
    /\ UNCHANGED <<clock, attached, handlers, tokens, storms>>

\* Connecting, and connecting again, touches nothing that the handlers use.
SessionGoesOn ==
    /\ DialSucceeds \/ ChallengeAnswered \/ Authenticated \/ Wake \/ PeerFlips
    /\ UNCHANGED <<clock, attached, handlers, protection>>

\* serve receives a signal and cancels the context (cancelServe).
Cancel ==
    /\ ~ stopping
    /\ stopping' = TRUE
    /\ UNCHANGED <<clock, peerUp, run, backoff, left, attached, handlers,
                   protection>>

\* The connection ends and is closed. Its handlers go on.
SessionEnds ==
    /\ SessionFails \/ SessionStops
    /\ attached' = [r \in Requests |-> FALSE]
    /\ UNCHANGED <<clock, handlers, protection>>

-----------------------------------------------------------------------------
(* handleVerifyRequest *)

\* The handler goes on to location l.
Goto(r, l) ==
    /\ pc' = [pc EXCEPT ![r] = l]
    /\ since' = [since EXCEPT ![r] = IF l \in Running THEN clock ELSE 0]

\* The handler will answer with a code, and goes on to location l.
Answer(r, code, l) ==
    /\ answer' = [answer EXCEPT ![r] = code]
    /\ Goto(r, l)

Continue(r, l) == Goto(r, l) /\ UNCHANGED answer

\* The instants that an operation of r may have read before it got its lock.
Sampled(r) == since[r] .. clock

\* runOnce reads a verify request and starts its goroutine.
Receive(r, m) ==
    /\ run = "serving"
    /\ pc[r] = "idle"
    /\ msg' = [msg EXCEPT ![r] = m]
    /\ attached' = [attached EXCEPT ![r] = TRUE]
    /\ Continue(r, "received")
    /\ UNCHANGED <<clock, session, admitted, fate, protection, writer>>

\* validVerifyRequest, then the storm check that goes with its outcome. None of
\* this is under the semaphore.
Screen(r) ==
    /\ pc[r] = "received"
    /\ \E now \in Sampled(r) :
          IF msg[r].valid
          THEN IF Blocked(storms["replay"], now)
               THEN Answer(r, "replay_storm_limited", "answering")
               ELSE Continue(r, "storm_checked")
          ELSE IF Blocked(storms["malformed_request"], now)
               THEN Answer(r, "malformed_request_storm_limited", "answering")
               ELSE Continue(r, "record_malformed")
    /\ UNCHANGED <<clock, session, msg, attached, admitted, fate, protection,
                   writer>>

\* recordStorm(kind) and the answer that follows.
RecordStorm(r, kind, code, l) ==
    /\ \E now \in Sampled(r) :
          storms' = [storms EXCEPT ![kind] = Record(@, kind, now)]
    /\ Answer(r, code, l)
    /\ UNCHANGED <<clock, session, msg, attached, admitted, fate, entries, tokens,
                   writer>>

\* Mutant: the key is taken before the request is known to be valid.
RecordMalformed_TakesKey(r) ==
    /\ pc[r] = "record_malformed"
    /\ \E now \in Sampled(r) :
          /\ storms' = [storms EXCEPT !["malformed_request"] =
                           Record(@, "malformed_request", now)]
          /\ entries' = Remembered(entries, msg[r].requestID, now)
    /\ Answer(r, "invalid_relay_request", "answering")
    /\ UNCHANGED <<clock, session, msg, attached, admitted, fate, tokens, writer>>

RecordMalformed(r) ==
    /\ pc[r] = "record_malformed"
    /\ RecordStorm(r, "malformed_request", "invalid_relay_request", "answering")

\* replay.Remember(relayReplayKey): the key is taken now, whatever becomes of the
\* request and of its answer.
Remember(r) ==
    /\ pc[r] = "storm_checked"
    /\ \E now \in Sampled(r) :
          LET key == msg[r].requestID
          IN  /\ entries' = Remembered(entries, key, now)
              /\ IF Known(entries, key, now)
                 THEN Continue(r, "record_replay") /\ UNCHANGED admitted
                 ELSE /\ Continue(r, "remembered")
                      /\ admitted' = [admitted EXCEPT ![r] = clock]
    /\ UNCHANGED <<clock, session, msg, attached, fate, tokens, storms, writer>>

RecordReplay(r) ==
    /\ pc[r] = "record_replay"
    /\ RecordStorm(r, "replay", "replay_detected", "answering")

\* A send on the limit channel that never waits.
Acquire(r) ==
    /\ pc[r] = "remembered"
    /\ IF tokens < Capacity
       THEN tokens' = tokens + 1 /\ Continue(r, "acquired")
       ELSE Answer(r, "connector_rate_limited", "answering") /\ UNCHANGED tokens
    /\ UNCHANGED <<clock, session, msg, attached, admitted, fate, entries, storms,
                   writer>>

\* Mutant: the early return does not run the deferred release.
CheckDirectoryStorm_KeepsToken(r) ==
    /\ pc[r] = "acquired"
    /\ \E now \in Sampled(r) :
          IF Blocked(storms["directory_error"], now)
          THEN Answer(r, "directory_error_storm_limited", "answering")
          ELSE Continue(r, "in_directory")
    /\ UNCHANGED <<clock, session, msg, attached, admitted, fate, protection,
                   writer>>

\* stormBlocked(directory_error), then the directory is called.
CheckDirectoryStorm(r) ==
    /\ pc[r] = "acquired"
    /\ \E now \in Sampled(r) :
          IF Blocked(storms["directory_error"], now)
          THEN Answer(r, "directory_error_storm_limited", "releasing")
          ELSE Continue(r, "in_directory")
    /\ UNCHANGED <<clock, session, msg, attached, admitted, fate, protection,
                   writer>>

\* The directory returns, or the deadline of RequestTimeout or the end of serve
\* cancels the call.
DirectoryReturn(r) ==
    /\ pc[r] = "in_directory"
    /\ \E outcome \in DirectoryOutcomes :
          Answer(r, outcome,
                 IF outcome \in DirectoryFailures THEN "record_directory"
                                                  ELSE "resetting")
    /\ UNCHANGED <<clock, session, msg, attached, admitted, fate, protection,
                   writer>>

RecordDirectoryError(r) ==
    /\ pc[r] = "record_directory"
    /\ RecordStorm(r, "directory_error", answer[r], "releasing")

\* resetStorm(directory_error).
ResetDirectoryErrors(r) ==
    /\ pc[r] = "resetting"
    /\ storms' = [storms EXCEPT !["directory_error"] = ZeroState]
    /\ Continue(r, "releasing")
    /\ UNCHANGED <<clock, session, msg, attached, admitted, fate, entries, tokens,
                   writer>>

\* Mutant: the count of a panicking call is returned twice.
Release_Twice(r) ==
    /\ pc[r] = "releasing"
    /\ tokens' = tokens - 2
    /\ Continue(r, "answering")
    /\ UNCHANGED <<clock, session, msg, attached, admitted, fate, entries, storms,
                   writer>>

\* Mutant: the token is returned under writeMu.
Release_UnderLock(r) ==
    /\ pc[r] = "releasing"
    /\ writer = Nobody
    /\ tokens' = tokens - 1
    /\ Continue(r, "answering")
    /\ UNCHANGED <<clock, session, msg, attached, admitted, fate, entries, storms,
                   writer>>

\* processVerifyRequest returns and its deferred release runs.
Release(r) ==
    /\ pc[r] = "releasing"
    /\ tokens' = tokens - 1
    /\ Continue(r, "answering")
    /\ UNCHANGED <<clock, session, msg, attached, admitted, fate, entries, storms,
                   writer>>

\* writeJSON takes writeMu, which the handlers of all connections share.
LockWriter(r) ==
    /\ pc[r] = "answering"
    /\ writer = Nobody
    /\ writer' = r
    /\ Continue(r, "writing")
    /\ UNCHANGED <<clock, session, msg, attached, admitted, fate, protection>>

\* Mutant: writeMu stays locked when the write fails.
WriteEnds_KeepsLock(r) ==
    /\ pc[r] = "writing"
    /\ \/ /\ attached[r]
          /\ fate' = [fate EXCEPT ![r] = "sent"]
          /\ writer' = Nobody
       \/ /\ ~ attached[r] \/ ~ peerUp \/ stopping
          /\ fate' = [fate EXCEPT ![r] = "dropped"]
          /\ UNCHANGED writer
    /\ Continue(r, "done")
    /\ UNCHANGED <<clock, session, msg, attached, admitted, protection>>

\* The write to the connection the request came by, and the unlock. An error is
\* dropped together with the answer.
WriteEnds(r) ==
    /\ pc[r] = "writing"
    /\ \/ /\ attached[r]
          /\ fate' = [fate EXCEPT ![r] = "sent"]
       \/ /\ ~ attached[r] \/ ~ peerUp \/ stopping
          /\ fate' = [fate EXCEPT ![r] = "dropped"]
    /\ writer' = Nobody
    /\ Continue(r, "done")
    /\ UNCHANGED <<clock, session, msg, attached, admitted, protection>>

\* The handler's own steps, none of which waits, in the order of the code.
Process(r) ==
    \/ Screen(r)
    \/ RecordMalformed(r)
    \/ Remember(r)
    \/ RecordReplay(r)
    \/ Acquire(r)
    \/ CheckDirectoryStorm(r)
    \/ RecordDirectoryError(r)
    \/ ResetDirectoryErrors(r)
    \/ Release(r)

-----------------------------------------------------------------------------
(* The specification *)

\* Time passes, but no runnable handler is left waiting for more than MaxLag.
Tick ==
    /\ clock < MaxClock
    /\ \A r \in Requests : pc[r] \in Running => clock - since[r] < MaxLag
    /\ clock' = clock + 1
    /\ Elapse
    /\ UNCHANGED <<attached, handlers, protection>>

Next ==
    \/ SessionGoesOn
    \/ SessionEnds
    \/ \E r \in Requests :
          \/ \E m \in Messages : Receive(r, m)
          \/ Process(r)
          \/ DirectoryReturn(r)
          \/ LockWriter(r)
          \/ WriteEnds(r)
    \/ Tick
    \/ Cancel

Spec == Init /\ [][Next]_vars

\* The scheduler runs what can run, the mutex is handed on (sync.Mutex does not
\* starve a waiter), a directory call ends, and a write ends when the peer reads or
\* the connection is closed. A directory call has a deadline, but StartTLS is outside
\* it (dialEndpoint of ldap/client.go): with start_tls the directory is assumed to
\* answer that, or to close the connection.
Fairness ==
    \A r \in Requests :
        /\ WF_vars(Process(r))
        /\ WF_vars(DirectoryReturn(r))
        /\ SF_vars(LockWriter(r))
        /\ WF_vars((peerUp \/ ~ attached[r] \/ stopping) /\ WriteEnds(r))

FairSpec == Spec /\ Fairness

-----------------------------------------------------------------------------
(* Properties *)

\* The state has its types (Client and the variables of Run and the handlers).
TypeOK ==
    /\ clock \in 0 .. MaxClock
    /\ SessionTypeOK
    /\ pc \in [Requests -> Locations]
    /\ msg \in [Requests -> Messages \union {NoMessage}]
    /\ attached \in [Requests -> BOOLEAN]
    /\ since \in [Requests -> 0 .. clock]
    /\ admitted \in [Requests -> {Never} \union 0 .. clock]
    /\ answer \in [Requests -> {"none"} \union RefusedCodes \union AdmittedCodes]
    /\ fate \in [Requests -> {"pending", "sent", "dropped"}]
    /\ DOMAIN entries \subseteq {m.requestID : m \in Messages}
    /\ entries \in [DOMAIN entries -> Nat]
    /\ tokens \in Nat
    /\ storms \in [StormKinds -> StormState]
    /\ writer \in Requests \union {Nobody}

\* Copies of one request are admitted at most once within a cache lifetime (less
\* the pause of a handler), however they are spread over connections: an answer
\* that was lost with its connection does not get the directory asked again
\* (relayReplayKey, Remember; the cache is the Client's, not the connection's).
AtMostOncePerTtl ==
    \A r, q \in Requests :
        /\ r # q
        /\ admitted[r] # Never /\ admitted[q] # Never
        /\ msg[r].requestID = msg[q].requestID
        => \/ admitted[r] - admitted[q] > Ttl - MaxLag
           \/ admitted[q] - admitted[r] > Ttl - MaxLag

\* A request is refused as a replay only if a copy of it was admitted: an invalid
\* request never uses up the id of a valid one.
NoFalseReplay ==
    \A r \in Requests :
        answer[r] = "replay_detected" =>
            \E q \in Requests \ {r} :
                /\ admitted[q] # Never
                /\ msg[q].requestID = msg[r].requestID

Holders == {r \in Requests : pc[r] \in Holding}

\* The semaphore counts the handlers between its send and the deferred receive,
\* on every path out of processVerifyRequest and over any number of connections.
TokensConserved == tokens = Cardinality(Holders) /\ tokens <= Capacity

\* A full semaphore has room again later, even when the peer stops reading and
\* every handler is stuck behind writeMu: no token is held during a write.
CapacityRecovers == tokens = Capacity ~> tokens < Capacity

\* A request is answered on its connection unless the connection ends or the peer
\* fails: handlers that share writeMu do not wait for each other for ever.
EveryRequestAnswered ==
    \A r \in Requests :
        pc[r] = "received" ~>
            fate[r] = "sent" \/ ~ attached[r] \/ ~ peerUp \/ stopping
=============================================================================

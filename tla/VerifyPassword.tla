--------------------------- MODULE VerifyPassword ---------------------------
(***************************************************************************)
(* internal/ports/httpapi/server.go: POST /v1/auth/verify-password.        *)
(*                                                                         *)
(* net/http runs one handler goroutine per request.  The handlers share a  *)
(* replay cache, and per connector a counting semaphore and the storm      *)
(* counters; each of the three is locked for a single operation only, so   *)
(* what one operation decided may be stale at the next.  A step of the     *)
(* model is one such operation with the local work that follows it.        *)
(*                                                                         *)
(* Time.  clock is Go's monotonic clock, which the replay cache and the    *)
(* storm counters use.  Request timestamps carry no monotonic reading, so  *)
(* the HMAC check uses the wall clock, which an administrator or NTP may   *)
(* set: it is clock + offset.  An operation that reads the clock before it *)
(* takes its lock works with any instant between the handler's previous    *)
(* step and now.  MaxLag bounds how long a runnable handler stays between  *)
(* two steps; the directory may take any time.                             *)
(***************************************************************************)
EXTENDS FiniteSets, HmacVerifier, ReplayCache, StormProtection

CONSTANTS
    Connectors,         \* the configured connector ids
    Requests,           \* handler invocations, each used once
    Messages,           \* the signed requests that callers may send
    NoMessage,          \* "nothing received yet"
    Capacity,           \* Capacity[c], the size of the connector's semaphore
    DirectoryOutcomes,  \* what the directory may answer
    MaxLag,             \* longest pause between two steps of a handler
    MaxStep,            \* the wall clock is at most this far ahead of clock
    MaxClock            \* bound: time stops here

BodyClasses == {"malformed", "mismatch", "valid"}

Verdicts == {"success", "failure", "policy_required"}

DirectoryFailures == {"directory_error", "source_unavailable"}

ASSUME TimeAssumption ==
    /\ MaxLag \in Nat
    /\ MaxStep \in Nat
    /\ MaxClock \in Nat

\* A key outlives the requests that carry it: the code keeps keys for 300 s and
\* tolerates 120 s of skew, which leaves 60 s for the steps of the wall clock and
\* the two pauses between the HMAC check and Remember.
ASSUME ReplayWindowAssumption == 2 * Skew + MaxStep + 2 * MaxLag <= Ttl

ASSUME CapacityAssumption == Capacity \in [Connectors -> Nat \ {0}]

ASSUME RequestsAssumption == IsFiniteSet(Requests)

ASSUME MessagesAssumption ==
    /\ NoMessage \notin Messages
    /\ \A m \in Messages :
          /\ m.timestamp \in Int
          /\ m.envelope \in EnvelopeFaults \union {"ok"}
          /\ m.canonical \in CanonicalFaults \union {"ok"}
          /\ m.body \in BodyClasses

ASSUME OutcomesAssumption ==
    DirectoryOutcomes \subseteq Verdicts \union DirectoryFailures

VARIABLES
    clock,     \* the monotonic clock
    offset,    \* how far the wall clock is ahead of it
    pc,        \* where each handler is
    msg,       \* the request it handles
    since,     \* the instant of its previous step, while it runs
    verdict,   \* what the directory said to it
    response,  \* the code it answered with
    entries,   \* the replay cache
    tokens,    \* tokens[c]: how full the semaphore of c is
    storms     \* storms[c][kind]

vars == <<clock, offset, pc, msg, since, verdict, response, entries, tokens,
          storms>>

protection == <<entries, tokens, storms>>

wallClock == clock + offset

-----------------------------------------------------------------------------
(* Where a handler is *)

\* Authenticated, and not yet past the replay cache.
Arriving == {"verified", "storm_checked"}

\* Holding a token of the connector's semaphore (release is deferred).
Holding == {"acquired", "record_malformed", "authorised", "in_directory",
            "record_directory", "resetting", "releasing"}

\* Runnable: only the directory is waited for.
Running == Arriving \union {"record_replay", "remembered"}
              \union (Holding \ {"in_directory"})

\* "gone": its process has ended.
Finished == {"done", "gone"}

Locations == {"idle", "in_directory"} \union Running \union Finished

\* The answers a request gets before the replay cache has taken its key, and
\* those it gets after.
UnauthenticatedCodes == {"unknown_connector"} \union VerifyFaults

RefusedCodes == UnauthenticatedCodes \union
                   {"replay_storm_limited", "replay_detected"}

AdmittedCodes ==
    {"connector_rate_limited", "malformed_request_storm_limited",
     "malformed_request", "tenant_connector_mismatch",
     "directory_error_storm_limited"} \union Verdicts \union DirectoryFailures

Responses == {"none"} \union RefusedCodes \union AdmittedCodes

-----------------------------------------------------------------------------
(* Steps of a handler *)

Init ==
    /\ clock = 0
    /\ offset \in 0 .. MaxStep
    /\ pc = [r \in Requests |-> "idle"]
    /\ msg = [r \in Requests |-> NoMessage]
    /\ since = [r \in Requests |-> 0]
    /\ verdict = [r \in Requests |-> "none"]
    /\ response = [r \in Requests |-> "none"]
    /\ entries = [k \in {} |-> 0]
    /\ tokens = [c \in Connectors |-> 0]
    /\ storms = [c \in Connectors |-> [k \in StormKinds |-> ZeroState]]

\* The handler goes on to location l.
Goto(r, l) ==
    /\ pc' = [pc EXCEPT ![r] = l]
    /\ since' = [since EXCEPT ![r] = IF l \in Finished THEN 0 ELSE clock]

\* The handler answers with a code and goes on to location l.
Answer(r, code, l) ==
    /\ response' = [response EXCEPT ![r] = code]
    /\ Goto(r, l)

Continue(r, l) == Goto(r, l) /\ UNCHANGED response

\* The instants that an operation of r may have read before it got its lock.
Sampled(r) == since[r] .. clock

\* Mutant: the key is remembered before the signature is verified.
Arrive_RemembersFirst(r, m) ==
    /\ pc[r] = "idle"
    /\ msg' = [msg EXCEPT ![r] = m]
    /\ LET code == IF m.connector \in Connectors
                   THEN Verify(m.connector, m, wallClock)
                   ELSE "unknown_connector"
       IN  IF code = "ok"
           THEN Continue(r, "verified") /\ UNCHANGED entries
           ELSE /\ Answer(r, code, "done")
                /\ entries' = Remembered(entries, replayKey(m), clock)
    /\ UNCHANGED <<clock, offset, verdict, tokens, storms>>

\* Mutant: a failed HMAC check counts as a malformed request.
Arrive_CountsFailures(r, m) ==
    /\ pc[r] = "idle"
    /\ msg' = [msg EXCEPT ![r] = m]
    /\ LET c    == m.connector
           code == IF c \in Connectors THEN Verify(c, m, wallClock)
                                       ELSE "unknown_connector"
       IN  IF code = "ok"
           THEN Continue(r, "verified") /\ UNCHANGED storms
           ELSE /\ Answer(r, code, "done")
                /\ IF c \in Connectors
                   THEN storms' = [storms EXCEPT ![c]["malformed_request"] =
                                      Record(@, "malformed_request", clock)]
                   ELSE UNCHANGED storms
    /\ UNCHANGED <<clock, offset, verdict, entries, tokens>>

\* Looks up the connector of the request and verifies its signature. Nothing
\* shared is touched whatever the outcome.
Arrive(r, m) ==
    /\ pc[r] = "idle"
    /\ msg' = [msg EXCEPT ![r] = m]
    /\ LET code == IF m.connector \in Connectors
                   THEN Verify(m.connector, m, wallClock)
                   ELSE "unknown_connector"
       IN  IF code = "ok" THEN Continue(r, "verified")
                          ELSE Answer(r, code, "done")
    /\ UNCHANGED <<clock, offset, verdict, protection>>

\* stormBlocked(replay): a connector under a replay storm takes nothing.
CheckReplayStorm(r) ==
    /\ pc[r] = "verified"
    /\ \E now \in Sampled(r) :
          IF Blocked(storms[msg[r].connector]["replay"], now)
          THEN Answer(r, "replay_storm_limited", "done")
          ELSE Continue(r, "storm_checked")
    /\ UNCHANGED <<clock, offset, msg, verdict, protection>>

\* replay.Remember: the key is taken now, whatever becomes of the request
\* later. The answer to a duplicate is written before the replay is recorded.
Remember(r) ==
    /\ pc[r] = "storm_checked"
    /\ \E now \in Sampled(r) :
          LET key == replayKey(msg[r])
          IN  /\ entries' = Remembered(entries, key, now)
              /\ IF Known(entries, key, now)
                 THEN Answer(r, "replay_detected", "record_replay")
                 ELSE Continue(r, "remembered")
    /\ UNCHANGED <<clock, offset, msg, verdict, tokens, storms>>

\* recordStorm(kind), then on to location l.
RecordStorm(r, kind, l) ==
    /\ \E now \in Sampled(r) :
          storms' = [storms EXCEPT ![msg[r].connector][kind] =
                        Record(@, kind, now)]
    /\ Continue(r, l)
    /\ UNCHANGED <<clock, offset, msg, verdict, entries, tokens>>

RecordReplay(r) ==
    /\ pc[r] = "record_replay"
    /\ RecordStorm(r, "replay", "done")

\* Mutant: off by one, the semaphore takes one more.
Acquire_OffByOne(r) ==
    /\ pc[r] = "remembered"
    /\ LET c == msg[r].connector
       IN  IF tokens[c] <= Capacity[c]
           THEN /\ tokens' = [tokens EXCEPT ![c] = @ + 1]
                /\ Continue(r, "acquired")
           ELSE /\ Answer(r, "connector_rate_limited", "done")
                /\ UNCHANGED tokens
    /\ UNCHANGED <<clock, offset, msg, verdict, entries, storms>>

\* acquire: a send on the connector's channel that never waits.
Acquire(r) ==
    /\ pc[r] = "remembered"
    /\ LET c == msg[r].connector
       IN  IF tokens[c] < Capacity[c]
           THEN /\ tokens' = [tokens EXCEPT ![c] = @ + 1]
                /\ Continue(r, "acquired")
           ELSE /\ Answer(r, "connector_rate_limited", "done")
                /\ UNCHANGED tokens
    /\ UNCHANGED <<clock, offset, msg, verdict, entries, storms>>

\* Mutant: the return on a mismatch bypasses the deferred release.
Decode_KeepsToken(r) ==
    /\ pc[r] = "acquired"
    /\ \E now \in Sampled(r) :
          IF Blocked(storms[msg[r].connector]["malformed_request"], now)
          THEN Answer(r, "malformed_request_storm_limited", "releasing")
          ELSE CASE msg[r].body = "malformed" ->
                      Answer(r, "malformed_request", "record_malformed")
                 [] msg[r].body = "mismatch" ->
                      Answer(r, "tenant_connector_mismatch", "done")
                 [] msg[r].body = "valid" -> Continue(r, "authorised")
    /\ UNCHANGED <<clock, offset, msg, verdict, protection>>

\* Mutant: the storm check is missing.
Decode_Unchecked(r) ==
    /\ pc[r] = "acquired"
    /\ CASE msg[r].body = "malformed" ->
               Answer(r, "malformed_request", "record_malformed")
         [] msg[r].body = "mismatch" ->
               Answer(r, "tenant_connector_mismatch", "releasing")
         [] msg[r].body = "valid" -> Continue(r, "authorised")
    /\ UNCHANGED <<clock, offset, msg, verdict, protection>>

\* stormBlocked(malformed), then the body is decoded and compared with the
\* tenant, the connector and the signed request id. The answer to a malformed
\* body is written before it is recorded.
Decode(r) ==
    /\ pc[r] = "acquired"
    /\ \E now \in Sampled(r) :
          IF Blocked(storms[msg[r].connector]["malformed_request"], now)
          THEN Answer(r, "malformed_request_storm_limited", "releasing")
          ELSE CASE msg[r].body = "malformed" ->
                      Answer(r, "malformed_request", "record_malformed")
                 [] msg[r].body = "mismatch" ->
                      Answer(r, "tenant_connector_mismatch", "releasing")
                 [] msg[r].body = "valid" -> Continue(r, "authorised")
    /\ UNCHANGED <<clock, offset, msg, verdict, protection>>

RecordMalformed(r) ==
    /\ pc[r] = "record_malformed"
    /\ RecordStorm(r, "malformed_request", "releasing")

\* stormBlocked(directory_error), then the directory is called.
CheckDirectoryStorm(r) ==
    /\ pc[r] = "authorised"
    /\ \E now \in Sampled(r) :
          IF Blocked(storms[msg[r].connector]["directory_error"], now)
          THEN Answer(r, "directory_error_storm_limited", "releasing")
          ELSE Continue(r, "in_directory")
    /\ UNCHANGED <<clock, offset, msg, verdict, protection>>

\* The directory returns, or the request's context ends the call. A failure is
\* answered before it is recorded; a verdict resets the counter before it is
\* answered.
DirectoryReturn(r) ==
    /\ pc[r] = "in_directory"
    /\ \E outcome \in DirectoryOutcomes :
          IF outcome \in DirectoryFailures
          THEN /\ Answer(r, outcome, "record_directory")
               /\ UNCHANGED verdict
          ELSE /\ verdict' = [verdict EXCEPT ![r] = outcome]
               /\ Continue(r, "resetting")
    /\ UNCHANGED <<clock, offset, msg, protection>>

RecordDirectoryError(r) ==
    /\ pc[r] = "record_directory"
    /\ RecordStorm(r, "directory_error", "releasing")

\* Mutant: the handler returns without writing the verdict.
ResetDirectoryErrors_Silent(r) ==
    /\ pc[r] = "resetting"
    /\ storms' = [storms EXCEPT ![msg[r].connector]["directory_error"] =
                     ZeroState]
    /\ Continue(r, "releasing")
    /\ UNCHANGED <<clock, offset, msg, verdict, entries, tokens>>

\* resetStorm(directory_error) forgets count, window and block alike.
ResetDirectoryErrors(r) ==
    /\ pc[r] = "resetting"
    /\ storms' = [storms EXCEPT ![msg[r].connector]["directory_error"] =
                     ZeroState]
    /\ Answer(r, verdict[r], "releasing")
    /\ UNCHANGED <<clock, offset, msg, verdict, entries, tokens>>

\* Mutant: released explicitly and once more by the deferred call.
Release_Twice(r) ==
    /\ pc[r] = "releasing"
    /\ tokens' = [tokens EXCEPT ![msg[r].connector] = @ - 2]
    /\ Continue(r, "done")
    /\ UNCHANGED <<clock, offset, msg, verdict, entries, storms>>

\* Mutant: the reset is deferred too, and runs whatever the directory said.
Release_Resets(r) ==
    /\ pc[r] = "releasing"
    /\ tokens' = [tokens EXCEPT ![msg[r].connector] = @ - 1]
    /\ storms' = [storms EXCEPT ![msg[r].connector]["directory_error"] =
                     ZeroState]
    /\ Continue(r, "done")
    /\ UNCHANGED <<clock, offset, msg, verdict, entries>>

\* The deferred release, run however the handler returns.
Release(r) ==
    /\ pc[r] = "releasing"
    /\ tokens' = [tokens EXCEPT ![msg[r].connector] = @ - 1]
    /\ Continue(r, "done")
    /\ UNCHANGED <<clock, offset, msg, verdict, entries, storms>>

\* The handler's own steps, in the order of the code.
Handle(r) ==
    \/ CheckReplayStorm(r)
    \/ Remember(r)
    \/ RecordReplay(r)
    \/ Acquire(r)
    \/ Decode(r)
    \/ RecordMalformed(r)
    \/ CheckDirectoryStorm(r)
    \/ RecordDirectoryError(r)
    \/ ResetDirectoryErrors(r)
    \/ Release(r)

-----------------------------------------------------------------------------
(* The environment *)

\* Time passes, but no runnable handler is left waiting for more than MaxLag.
Tick ==
    /\ clock < MaxClock
    /\ \A r \in Requests : pc[r] \in Running => clock - since[r] < MaxLag
    /\ clock' = clock + 1
    /\ UNCHANGED <<offset, pc, msg, since, verdict, response, protection>>

\* The wall clock is set.
WallStep ==
    /\ \E o \in 0 .. MaxStep : o # offset /\ offset' = o
    /\ UNCHANGED <<clock, pc, msg, since, verdict, response, protection>>

\* The process ends, crashing or not, and is started again: everything the
\* handlers share is in memory. NewHandler starts from empty.
Restart ==
    /\ \E r \in Requests : pc[r] \notin {"idle", "gone"}
    /\ pc' = [r \in Requests |-> IF pc[r] = "idle" THEN "idle" ELSE "gone"]
    /\ msg' = [r \in Requests |-> NoMessage]
    /\ since' = [r \in Requests |-> 0]
    /\ verdict' = [r \in Requests |-> "none"]
    /\ response' = [r \in Requests |-> "none"]
    /\ entries' = [k \in {} |-> 0]
    /\ tokens' = [c \in Connectors |-> 0]
    /\ storms' = [c \in Connectors |-> [k \in StormKinds |-> ZeroState]]
    /\ UNCHANGED <<clock, offset>>

\* Every handler invocation of the bounded model is used up.
Exhausted ==
    /\ \A r \in Requests : pc[r] \in Finished
    /\ UNCHANGED vars

Next ==
    \/ \E r \in Requests :
          \/ \E m \in Messages : Arrive(r, m)
          \/ Handle(r)
          \/ DirectoryReturn(r)
    \/ Tick
    \/ WallStep
    \/ Restart
    \/ Exhausted

Spec == Init /\ [][Next]_vars

\* The Go scheduler runs every runnable handler, and the directory call ends. Its
\* context carries a deadline, which every exchange with the directory heeds except
\* StartTLS (dialEndpoint of ldap/client.go): with start_tls it is an assumption
\* about the directory that it answers this one, or closes the connection.
Fairness == \A r \in Requests : WF_vars(Handle(r)) /\ WF_vars(DirectoryReturn(r))

FairSpec == Spec /\ Fairness

-----------------------------------------------------------------------------
(* Properties *)

\* The state has its types (handler and its fields).
TypeOK ==
    /\ clock \in 0 .. MaxClock
    /\ offset \in 0 .. MaxStep
    /\ pc \in [Requests -> Locations]
    /\ msg \in [Requests -> Messages \union {NoMessage}]
    /\ since \in [Requests -> 0 .. clock]
    /\ verdict \in [Requests -> Verdicts \union {"none"}]
    /\ response \in [Requests -> Responses]
    /\ DOMAIN entries \subseteq {replayKey(m) : m \in Messages}
    /\ entries \in [DOMAIN entries -> Nat]
    /\ tokens \in [Connectors -> Nat]
    /\ storms \in [Connectors -> [StormKinds -> StormState]]

\* The replay cache let the request through.
Admitted(r) ==
    \/ pc[r] \in {"remembered"} \union Holding
    \/ pc[r] = "done" /\ response[r] \in AdmittedCodes

\* One signed request is admitted at most once in the life of a process, however
\* its copies interleave, whatever the cache forgets and wherever the wall clock
\* is set in between: replayCache.Remember together with the HMAC clock skew.
AtMostOnce ==
    \A r, q \in Requests :
        Admitted(r) /\ Admitted(q) /\ msg[r] = msg[q] => r = q

\* A request is called a replay only if another request with the same key was
\* admitted by the cache: nothing that verifyPassword refuses before Remember, a
\* failed authentication or a replay storm, has used up the key. (What it refuses
\* afterwards has, also where it marks the refusal retryable: a retry needs a new
\* request id or nonce.)
NoFalseReplay ==
    \A r \in Requests :
        response[r] = "replay_detected" =>
            \E q \in Requests \ {r} :
                Admitted(q) /\ replayKey(msg[q]) = replayKey(msg[r])

\* The handlers of connector c between acquire and the deferred release.
Holders(c) == {r \in Requests : pc[r] \in Holding /\ msg[r].connector = c}

\* A token is held by exactly the handlers between acquire and release, on every
\* path out of verifyPassword, and never more of them than the limit: none leaks
\* and none is returned twice or to another connector.
TokensConserved ==
    \A c \in Connectors :
        /\ tokens[c] = Cardinality(Holders(c))
        /\ tokens[c] <= Capacity[c]

\* A block outlasts the window that led to it. The defaults, 30 s and 10 s, are far
\* from the edge; the configuration is free to choose otherwise.
BlockOutlastsWindow == Window + MaxLag < Block

\* The storm check and the record are separate operations, and every handler past
\* the check may still fail after the limit is reached. What is counted beyond
\* the limit in one window is nevertheless at most what the semaphore lets into
\* the section between them (connectorStorms.blocked and record), provided that
\* BlockOutlastsWindow.
StormOvershootBounded ==
    \A c \in Connectors, k \in {"malformed_request", "directory_error"} :
        storms[c][k].count <= Limit[k] - 1 + Capacity[c]

\* The requests of connector c whose answer was recorded as an event of a kind.
Recorded(c, kind) ==
    {r \in Requests :
        /\ pc[r] \in {"releasing", "done"}
        /\ msg[r].connector = c
        /\ response[r] \in CASE kind = "replay" -> {"replay_detected"}
                            [] kind = "malformed_request" -> {"malformed_request"}
                            [] kind = "directory_error" -> DirectoryFailures}

\* A storm counter counts only authenticated requests of its own connector, each
\* of them once: failures of the HMAC check, requests for other connectors and
\* refusals by a storm leave it alone, so they cannot block a connector.
StormCountsJustified ==
    \A c \in Connectors, k \in StormKinds :
        storms[c][k].count <= Cardinality(Recorded(c, k))

\* A verdict of the directory for connector c is about to be answered.
VerdictAnswered(c) ==
    \E r \in Requests : /\ pc[r] = "resetting" /\ pc'[r] = "releasing"
                        /\ msg[r].connector = c
                        /\ response'[r] \in Verdicts

ProcessEnded == \E r \in Requests : pc[r] # "gone" /\ pc'[r] = "gone"

\* A block runs its time. Two handlers that record at once may read the clock in
\* one order and take the lock in the other, which moves the end of a block back
\* by at most MaxLag; beyond that only a verdict of the directory lifts a
\* directory_error block, and only the end of the process any other.
BlocksNotCutShort ==
    [][\A c \in Connectors, k \in StormKinds :
          storms'[c][k].blockedUntil < storms[c][k].blockedUntil - MaxLag =>
              \/ ProcessEnded
              \/ k = "directory_error" /\ VerdictAnswered(c)]_vars

\* The requests of connector c that failed the HMAC check.
HmacFailures(c) ==
    {r \in Requests :
        /\ response[r] \in VerifyFaults \ {"payload_too_large"}
        /\ msg[r].connector = c}

\* As docs/configuration.md has it, repeated HMAC failures of one connector are
\* blocked for a while: within one window no more of them are answered as such
\* than the most generous limit. verifyPassword keeps no such counter.
HmacFailuresLimited ==
    clock <= Window =>
        \A c \in Connectors : \E k \in StormKinds :
            Cardinality(HmacFailures(c)) <= Limit[k]

\* As docs/production-hardening.md has it, the replay cache is keyed by connector
\* id, key id, request id and nonce: a request is called a replay only if another
\* with these four parts was admitted. replayKey joins them without escaping.
ReplayKeyedByParts ==
    \A r \in Requests :
        response[r] = "replay_detected" =>
            \E q \in Requests \ {r} :
                /\ Admitted(q)
                /\ msg[q].connector = msg[r].connector /\ msg[q].kid = msg[r].kid
                /\ msg[q].requestID = msg[r].requestID
                /\ msg[q].nonce = msg[r].nonce

\* Every authenticated request is answered, unless its process ends first.
EveryCallerAnswered ==
    \A r \in Requests :
        pc[r] = "verified" ~> (response[r] # "none" \/ pc[r] = "gone")

\* A connector whose semaphore is full has room again later: no path through
\* verifyPassword keeps its token for good.
CapacityRecovers ==
    \A c \in Connectors : tokens[c] = Capacity[c] ~> tokens[c] < Capacity[c]
-----------------------------------------------------------------------------
(* What the handlers implement *)

\* Signed with a key of its connector, and about that connector's tenant.
GenuineMessages ==
    {m \in Messages :
        /\ m.connector \in Connectors
        /\ m.envelope = "ok" /\ m.canonical = "ok" /\ m.body = "valid"
        /\ lookupKey(m.connector, m.kid) = m.secret
        /\ m.secret # NoSecret}

\* The handler has asked the directory.
Asked(r) ==
    \/ pc[r] \in {"in_directory", "record_directory", "resetting"}
    \/ pc[r] \in {"releasing", "done"}
          /\ response[r] \in Verdicts \union DirectoryFailures

phaseOf ==
    [r \in Requests |->
        CASE pc[r] \in {"idle", "remembered", "acquired", "authorised"} \union Arriving
                -> "waiting"
          [] pc[r] \in {"in_directory", "resetting"} -> "consulting"
          [] pc[r] = "gone" -> "gone"
          [] OTHER -> "answered"]

questionOf == [r \in Requests |-> IF Asked(r) THEN msg[r] ELSE NoMessage]

Gate == INSTANCE DirectoryGate WITH
           phase <- phaseOf, question <- questionOf, Genuine <- GenuineMessages

\* verifyPassword keeps the promise of DirectoryGate: its checks, made one after
\* the other by concurrent handlers on state that others change, amount to one
\* atomic decision to ask the directory.
ImplementsGate == Gate!Spec
=============================================================================

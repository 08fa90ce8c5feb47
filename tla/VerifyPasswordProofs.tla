------------------------ MODULE VerifyPasswordProofs ------------------------
(***************************************************************************)
(* Theorems about VerifyPassword, for any number of connectors, handlers   *)
(* and requests and any values of the limits and times.                    *)
(***************************************************************************)
EXTENDS VerifyPassword, ProtectionProofs, FiniteSetTheorems, TLAPS

-----------------------------------------------------------------------------
(* The operators *)

\* Verify says "ok" or names a fault; "ok" means that the timestamp is within the
\* skew and the signature is right under a key of the connector.
LEMMA VerifyVerdict ==
    ASSUME NEW c, NEW m \in Messages, NEW now \in Int
    PROVE  /\ Verify(c, m, now) \in VerifyFaults \union {"ok"}
           /\ Verify(c, m, now) = "ok" =>
                 /\ m.envelope = "ok" /\ m.canonical = "ok"
                 /\ lookupKey(c, m.kid) = m.secret /\ m.secret # NoSecret
                 /\ m.timestamp - Skew <= now /\ now <= m.timestamp + Skew
<1>1. m.timestamp \in Int /\ Skew \in Int
    BY MessagesAssumption, SkewAssumption
<1>2. Distance(now, m.timestamp) <= Skew =>
          m.timestamp - Skew <= now /\ now <= m.timestamp + Skew
    BY <1>1 DEF Distance
<1>3. Distance(now, m.timestamp) \in Int
    BY <1>1 DEF Distance
<1>4. Verify(c, m, now) \in VerifyFaults \union {"ok"}
    BY MessagesAssumption DEF Verify, VerifyFaults
<1>5. ASSUME Verify(c, m, now) = "ok"
      PROVE  /\ m.envelope = "ok" /\ m.canonical = "ok"
             /\ lookupKey(c, m.kid) = m.secret /\ m.secret # NoSecret
             /\ ~ (Distance(now, m.timestamp) > Skew)
    BY <1>5, MessagesAssumption DEF Verify, EnvelopeFaults, CanonicalFaults
<1> QED
    BY <1>1, <1>2, <1>3, <1>4, <1>5

-----------------------------------------------------------------------------
(* Types *)

\* The request was signed with a key of the configured connector it names.
Authentic(m) ==
    /\ m.connector \in Connectors
    /\ m.envelope = "ok" /\ m.canonical = "ok"
    /\ lookupKey(m.connector, m.kid) = m.secret /\ m.secret # NoSecret

Typed ==
    /\ clock \in Nat /\ clock <= MaxClock
    /\ offset \in Nat /\ offset <= MaxStep
    /\ pc \in [Requests -> Locations]
    /\ msg \in [Requests -> Messages \union {NoMessage}]
    /\ since \in [Requests -> Nat]
    /\ \A r \in Requests : since[r] <= clock
    /\ verdict \in [Requests -> Verdicts \union {"none"}]
    /\ response \in [Requests -> Responses]
    /\ DOMAIN entries \subseteq {replayKey(m) : m \in Messages}
    /\ entries \in [DOMAIN entries -> Nat]
    /\ tokens \in [Connectors -> Int]
    /\ storms \in [Connectors -> [StormKinds -> StormState]]

\* What a handler that has got so far knows of its request.
Informed(r) ==
    /\ pc[r] \notin {"idle", "gone"} => msg[r] \in Messages
    /\ pc[r] \notin {"idle", "gone", "done"} => Authentic(msg[r])
    /\ pc[r] = "resetting" => verdict[r] \in Verdicts
    /\ pc[r] \in {"authorised", "in_directory", "record_directory", "resetting"} =>
          msg[r].body = "valid"
    /\ pc[r] \in {"idle", "gone", "verified", "storm_checked", "remembered",
                  "acquired", "authorised", "in_directory", "resetting"} =>
          response[r] = "none"
    /\ pc[r] = "record_replay" => response[r] = "replay_detected"
    /\ pc[r] = "record_malformed" => response[r] = "malformed_request"
    /\ pc[r] = "record_directory" => response[r] \in DirectoryFailures
    /\ pc[r] = "releasing" => response[r] \in AdmittedCodes

Base == Typed /\ \A r \in Requests : Informed(r)

\* What every step of a handler r changes of the handlers' own state.
LEMMA GotoEffect ==
    ASSUME Typed, NEW r \in Requests, NEW l \in Locations, Goto(r, l)
    PROVE  /\ pc' \in [Requests -> Locations]
           /\ pc'[r] = l
           /\ since' \in [Requests -> Nat]
           /\ since'[r] = (IF l \in Finished THEN 0 ELSE clock)
           /\ since'[r] <= clock
           /\ \A q \in Requests : since'[q] <= clock
           /\ \A q \in Requests \ {r} : pc'[q] = pc[q] /\ since'[q] = since[q]
BY DEF Typed, Goto

LEMMA SampledType ==
    ASSUME Typed, NEW r \in Requests, NEW now \in Sampled(r)
    PROVE  now \in Nat /\ since[r] <= now /\ now <= clock
BY DEF Typed, Sampled

LEMMA InitBase == Init => Base
<1> SUFFICES ASSUME Init PROVE Base
    OBVIOUS
<1>1. clock \in Nat /\ clock <= MaxClock /\ offset \in Nat /\ offset <= MaxStep
    BY TimeAssumption DEF Init
<1>2. ZeroState \in StormState
    BY DEF ZeroState, StormState, Never
<1>3. Typed
    BY <1>1, <1>2 DEF Init, Typed, Locations, Responses
<1> QED
    BY <1>3 DEF Base, Informed, Init

\* A step that leaves another handler's state alone leaves it as informed.
LEMMA OthersInformed ==
    ASSUME NEW q \in Requests, Informed(q), pc'[q] = pc[q], msg'[q] = msg[q],
           verdict'[q] = verdict[q], response'[q] = response[q]
    PROVE  Informed(q)'
BY DEF Informed, Authentic

LEMMA ArriveBase ==
    ASSUME Base, NEW r \in Requests, NEW m \in Messages, Arrive(r, m)
    PROVE  Base'
<1> DEFINE code == IF m.connector \in Connectors
                   THEN Verify(m.connector, m, wallClock)
                   ELSE "unknown_connector"
<1>1. wallClock \in Int
    BY DEF Base, Typed, wallClock
<1>2. /\ code \in UnauthenticatedCodes \union {"ok"}
      /\ code = "ok" => Authentic(m)
    BY <1>1, VerifyVerdict DEF UnauthenticatedCodes, Authentic
<1>3. CASE code = "ok"
  <2>1. Goto(r, "verified") /\ response' = response
      BY <1>3 DEF Arrive, Continue
  <2>2. Typed'
      BY <2>1, GotoEffect DEF Arrive, Typed, Base, protection, Locations,
            Running, Arriving
  <2>3. Informed(r)'
      BY <2>1, <1>2, <1>3, GotoEffect
         DEF Arrive, Base, Typed, Informed, Authentic, Locations, Running, Arriving
  <2> QED
      BY <2>1, <2>2, <2>3, GotoEffect, OthersInformed
         DEF Arrive, Base, Typed, Locations, Running, Arriving
<1>4. CASE code # "ok"
  <2>1. Goto(r, "done") /\ response' = [response EXCEPT ![r] = code]
      BY <1>4 DEF Arrive, Answer
  <2> HIDE DEF code
  <2>2. Typed'
      BY <2>1, <1>2, <1>4, GotoEffect DEF Arrive, Typed, Base, protection, Locations,
            Finished, Responses, RefusedCodes
  <2>3. Informed(r)'
      BY <2>1, GotoEffect DEF Arrive, Base, Typed, Informed, Locations, Finished
  <2> QED
      BY <2>1, <2>2, <2>3, GotoEffect, OthersInformed
         DEF Arrive, Base, Typed, Locations, Finished
<1> QED
    BY <1>3, <1>4

\* What is left to show for a step of handler r that is already running.
LEMMA HandlerStepBase ==
    ASSUME Base, NEW r \in Requests, NEW l \in Locations, Goto(r, l),
           UNCHANGED <<clock, offset, msg>>,
           verdict' \in [Requests -> Verdicts \union {"none"}],
           response' \in [Requests -> Responses],
           \A q \in Requests \ {r} : verdict'[q] = verdict[q] /\ response'[q] = response[q],
           DOMAIN entries' \subseteq {replayKey(m) : m \in Messages},
           entries' \in [DOMAIN entries' -> Nat],
           tokens' \in [Connectors -> Int],
           storms' \in [Connectors -> [StormKinds -> StormState]],
           Informed(r)'
    PROVE  Base'
<1>1. Typed'
    BY GotoEffect DEF Base, Typed
<1>2. ASSUME NEW q \in Requests \ {r} PROVE Informed(q)'
    BY GotoEffect, OthersInformed DEF Base
<1> QED
    BY <1>1, <1>2 DEF Base

\* The storm checks choose between an answer and going on.
LEMMA CheckReplayStormBase ==
    ASSUME Base, NEW r \in Requests, CheckReplayStorm(r)
    PROVE  Base'
<1>1. \/ Answer(r, "replay_storm_limited", "done")
      \/ Continue(r, "storm_checked")
    BY DEF CheckReplayStorm
<1>2. CASE Answer(r, "replay_storm_limited", "done")
    BY <1>2, GotoEffect, HandlerStepBase
       DEF CheckReplayStorm, Answer, Base, Typed, Informed, Authentic,
           protection, Locations, Finished, Responses, RefusedCodes
<1>3. CASE Continue(r, "storm_checked")
    BY <1>3, GotoEffect, HandlerStepBase
       DEF CheckReplayStorm, Continue, Base, Typed, Informed, Authentic,
           protection, Locations, Running, Arriving
<1> QED
    BY <1>1, <1>2, <1>3

LEMMA RememberBase ==
    ASSUME Base, NEW r \in Requests, Remember(r)
    PROVE  Base'
<1>1. PICK now \in Sampled(r) :
          /\ entries' = Remembered(entries, replayKey(msg[r]), now)
          /\ \/ Answer(r, "replay_detected", "record_replay")
             \/ Continue(r, "remembered")
    BY DEF Remember
<1>2. now \in Nat
    BY SampledType DEF Base
<1>3. replayKey(msg[r]) \in {replayKey(m) : m \in Messages}
    BY DEF Base, Informed, Remember
<1>4. /\ DOMAIN entries' \subseteq {replayKey(m) : m \in Messages}
      /\ entries' \in [DOMAIN entries' -> Nat]
    BY <1>1, <1>2, <1>3, RememberedType DEF Base, Typed
<1>5. CASE Answer(r, "replay_detected", "record_replay")
  <2>1. Informed(r)'
      BY <1>5, GotoEffect DEF Remember, Answer, Base, Typed, Informed, Authentic,
            Locations, Running
  <2> QED
      BY <1>4, <1>5, <2>1, HandlerStepBase
         DEF Remember, Answer, Base, Typed, Locations, Running, Responses, RefusedCodes
<1>6. CASE Continue(r, "remembered")
  <2>1. Informed(r)'
      BY <1>6, GotoEffect DEF Remember, Continue, Base, Typed, Informed, Authentic,
            Locations, Running
  <2> QED
      BY <1>4, <1>6, <2>1, HandlerStepBase
         DEF Remember, Continue, Base, Typed, Locations, Running
<1> QED
    BY <1>1, <1>5, <1>6

\* Recording an event changes one storm state and nothing else that is shared.
LEMMA RecordStormBase ==
    ASSUME Base, NEW r \in Requests, NEW kind \in StormKinds,
           NEW l \in {"done", "releasing"}, RecordStorm(r, kind, l),
           \/ pc[r] = "record_replay" /\ l = "done"
           \/ pc[r] \in {"record_malformed", "record_directory"}
    PROVE  Base'
<1>1. PICK now \in Sampled(r) :
          storms' = [storms EXCEPT ![msg[r].connector][kind] =
                        Record(storms[msg[r].connector][kind], kind, now)]
    BY DEF RecordStorm
<1>2. now \in Nat
    BY SampledType DEF Base
<1>3. msg[r].connector \in Connectors
    BY DEF Base, Informed, Authentic
<1>4. storms' \in [Connectors -> [StormKinds -> StormState]]
    BY <1>1, <1>2, <1>3, RecordType DEF Base, Typed
<1>5. Goto(r, l) /\ l \in Locations
    BY DEF RecordStorm, Continue, Locations, Finished, Running, Holding
<1>6. Informed(r)'
    BY <1>5, GotoEffect
       DEF RecordStorm, Continue, Base, Informed, Authentic, AdmittedCodes
<1> QED
    BY <1>4, <1>5, <1>6, HandlerStepBase DEF RecordStorm, Continue, Base, Typed

LEMMA AcquireBase ==
    ASSUME Base, NEW r \in Requests, Acquire(r)
    PROVE  Base'
<1>1. msg[r].connector \in Connectors
    BY DEF Base, Informed, Authentic, Acquire
<1>2. \/ Answer(r, "connector_rate_limited", "done")
      \/ Continue(r, "acquired")
    BY DEF Acquire
<1>3. tokens' \in [Connectors -> Int]
    BY <1>1 DEF Acquire, Base, Typed
<1> QED
    BY <1>2, <1>3, GotoEffect, HandlerStepBase
       DEF Acquire, Answer, Continue, Base, Typed, Informed, Authentic,
           Locations, Running, Holding, Finished, Responses, AdmittedCodes

LEMMA DecodeBase ==
    ASSUME Base, NEW r \in Requests, Decode(r)
    PROVE  Base'
<1>1. msg[r].body \in BodyClasses
    BY MessagesAssumption DEF Decode, Base, Informed
<1>2. \/ Answer(r, "malformed_request_storm_limited", "releasing")
      \/ Answer(r, "malformed_request", "record_malformed")
      \/ Answer(r, "tenant_connector_mismatch", "releasing")
      \/ Continue(r, "authorised") /\ msg[r].body = "valid"
    BY <1>1 DEF Decode, BodyClasses
<1>3. /\ UNCHANGED <<clock, offset, msg, verdict, entries, tokens, storms>>
      /\ response' \in [Requests -> Responses]
      /\ \A q \in Requests \ {r} : response'[q] = response[q]
    BY <1>2 DEF Decode, Answer, Continue, Base, Typed, protection, Responses, AdmittedCodes
<1>4. PICK l \in {"releasing", "record_malformed", "authorised"} :
          /\ Goto(r, l)
          /\ l = "releasing" => response'[r] \in AdmittedCodes
          /\ l = "record_malformed" => response'[r] = "malformed_request"
          /\ l = "authorised" => response'[r] = response[r] /\ msg[r].body = "valid"
    BY <1>2 DEF Answer, Continue, Base, Typed, AdmittedCodes
<1>5. l \in Locations
    BY DEF Locations, Running, Holding
<1>6. pc'[r] = l /\ msg'[r] = msg[r] /\ Authentic(msg[r]) /\ msg[r] \in Messages
      /\ response[r] = "none"
    BY <1>3, <1>4, <1>5, GotoEffect DEF Decode, Base, Informed
<1>7. Informed(r)'
    BY <1>4, <1>6 DEF Informed, Authentic
<1> QED
    BY <1>3, <1>4, <1>5, <1>7, HandlerStepBase DEF Base, Typed

LEMMA CheckDirectoryStormBase ==
    ASSUME Base, NEW r \in Requests, CheckDirectoryStorm(r)
    PROVE  Base'
<1>1. \/ Answer(r, "directory_error_storm_limited", "releasing")
      \/ Continue(r, "in_directory")
    BY DEF CheckDirectoryStorm
<1> QED
    BY <1>1, GotoEffect, HandlerStepBase
       DEF CheckDirectoryStorm, Answer, Continue, Base, Typed, Informed, Authentic,
           protection, Locations, Running, Holding, Finished, Responses, AdmittedCodes

LEMMA DirectoryReturnBase ==
    ASSUME Base, NEW r \in Requests, DirectoryReturn(r)
    PROVE  Base'
<1>1. PICK outcome \in DirectoryOutcomes :
          \/ /\ outcome \in DirectoryFailures
             /\ Answer(r, outcome, "record_directory") /\ verdict' = verdict
          \/ /\ outcome \in Verdicts
             /\ Continue(r, "resetting") /\ verdict' = [verdict EXCEPT ![r] = outcome]
    BY OutcomesAssumption DEF DirectoryReturn
<1> QED
    BY <1>1, GotoEffect, HandlerStepBase
       DEF DirectoryReturn, Answer, Continue, Base, Typed, Informed, Authentic,
           protection, Locations, Running, Holding, Finished, Responses, AdmittedCodes

LEMMA ResetDirectoryErrorsBase ==
    ASSUME Base, NEW r \in Requests, ResetDirectoryErrors(r)
    PROVE  Base'
<1>1. msg[r].connector \in Connectors /\ verdict[r] \in Verdicts
    BY DEF Base, Informed, Authentic, ResetDirectoryErrors
<1>2. ZeroState \in StormState
    BY DEF ZeroState, StormState, Never
<1>3. storms' \in [Connectors -> [StormKinds -> StormState]]
    BY <1>1, <1>2 DEF ResetDirectoryErrors, Base, Typed, StormKinds
<1> QED
    BY <1>1, <1>3, GotoEffect, HandlerStepBase
       DEF ResetDirectoryErrors, Answer, Base, Typed, Informed, Authentic,
           Locations, Running, Holding, Responses, AdmittedCodes

LEMMA ReleaseBase ==
    ASSUME Base, NEW r \in Requests, Release(r)
    PROVE  Base'
<1>1. msg[r].connector \in Connectors
    BY DEF Base, Informed, Authentic, Release
<1>2. tokens' \in [Connectors -> Int]
    BY <1>1 DEF Release, Base, Typed
<1> QED
    BY <1>2, GotoEffect, HandlerStepBase
       DEF Release, Continue, Base, Typed, Informed, Locations, Finished

LEMMA EnvironmentBase ==
    ASSUME Base, Tick \/ WallStep \/ Restart \/ UNCHANGED vars
    PROVE  Base'
<1>1. CASE Tick
    BY <1>1, TimeAssumption DEF Tick, Base, Typed, Informed, Authentic, protection
<1>2. CASE WallStep
    BY <1>2, TimeAssumption DEF WallStep, Base, Typed, Informed, Authentic, protection
<1>3. CASE Restart
  <2>1. ZeroState \in StormState
      BY DEF ZeroState, StormState, Never
  <2>2. Typed'
      BY <1>3, <2>1 DEF Restart, Base, Typed, Locations, Finished, Responses
  <2> QED
      BY <1>3, <2>2 DEF Restart, Base, Informed
<1>4. CASE UNCHANGED vars
    BY <1>4 DEF vars, Base, Typed, Informed, Authentic
<1> QED
    BY <1>1, <1>2, <1>3, <1>4

LEMMA NextBase == Base /\ [Next]_vars => Base'
<1> SUFFICES ASSUME Base, [Next]_vars PROVE Base'
    OBVIOUS
<1>1. ASSUME NEW r \in Requests, Handle(r) PROVE Base'
  <2>1. CASE RecordReplay(r)
      BY <2>1, RecordStormBase DEF RecordReplay, StormKinds
  <2>2. CASE RecordMalformed(r)
      BY <2>2, RecordStormBase DEF RecordMalformed, StormKinds
  <2>3. CASE RecordDirectoryError(r)
      BY <2>3, RecordStormBase DEF RecordDirectoryError, StormKinds
  <2> QED
      BY <1>1, <2>1, <2>2, <2>3, CheckReplayStormBase, RememberBase, AcquireBase,
         DecodeBase, CheckDirectoryStormBase, ResetDirectoryErrorsBase, ReleaseBase
         DEF Handle
<1> QED
    BY <1>1, ArriveBase, DirectoryReturnBase, EnvironmentBase DEF Next, Exhausted

LEMMA SpecBase == Spec => []Base
BY InitBase, NextBase, PTL DEF Spec

\* A step of handler r, seen from the others and from r.
LEMMA OnlyHandler ==
    ASSUME Base, NEW r \in Requests, Handle(r) \/ DirectoryReturn(r)
    PROVE  /\ msg' = msg
           /\ pc[r] \notin {"idle", "done", "gone"}
           /\ \A q \in Requests \ {r} : pc'[q] = pc[q] /\ response'[q] = response[q]
           /\ pc[r] = "releasing" => pc'[r] = "done" /\ response'[r] = response[r]
<1>1. ASSUME NEW l, NEW code, Answer(r, code, l) \/ Continue(r, l)
      PROVE  \A q \in Requests \ {r} : pc'[q] = pc[q] /\ response'[q] = response[q]
    BY <1>1 DEF Answer, Continue, Goto, Base, Typed
<1>2. CASE CheckReplayStorm(r) \/ Remember(r) \/ Acquire(r)
    BY <1>1, <1>2 DEF CheckReplayStorm, Remember, Acquire
<1>3. CASE RecordReplay(r) \/ RecordMalformed(r) \/ RecordDirectoryError(r)
    BY <1>1, <1>3 DEF RecordReplay, RecordMalformed, RecordDirectoryError, RecordStorm
<1>4. CASE Decode(r)
  <2>1. msg[r].body \in BodyClasses
      BY <1>4, MessagesAssumption DEF Decode, Base, Informed, Authentic
  <2> QED
      BY <1>1, <1>4, <2>1 DEF Decode, BodyClasses
<1>5. CASE CheckDirectoryStorm(r) \/ DirectoryReturn(r) \/ ResetDirectoryErrors(r)
    BY <1>1, <1>5 DEF CheckDirectoryStorm, DirectoryReturn, ResetDirectoryErrors
<1>6. CASE Release(r)
    BY <1>1, <1>6 DEF Release, Continue, Goto, Base, Typed
<1> QED
    BY <1>2, <1>3, <1>4, <1>5, <1>6 DEF Handle

-----------------------------------------------------------------------------
(* Tokens *)

LEMMA CapacityType ==
    ASSUME NEW c \in Connectors PROVE Capacity[c] \in Nat /\ Capacity[c] >= 1
BY CapacityAssumption

LEMMA HoldersFinite ==
    ASSUME NEW c PROVE IsFiniteSet(Holders(c)) /\ Cardinality(Holders(c)) \in Nat
<1>1. Holders(c) \in SUBSET Requests
    BY DEF Holders
<1> QED
    BY <1>1, FS_Subset, FS_CardinalityType, RequestsAssumption

\* A step in which no handler starts or stops holding a token.
LEMMA SameHolders ==
    ASSUME TokensConserved, UNCHANGED tokens,
           \A r \in Requests :
               /\ pc[r] \in Holding <=> pc'[r] \in Holding
               /\ pc[r] \in Holding => msg'[r] = msg[r]
    PROVE  TokensConserved'
<1>1. ASSUME NEW c PROVE Holders(c)' = Holders(c)
    BY DEF Holders, Holding
<1> QED
    BY <1>1 DEF TokensConserved

LEMMA AcquireTokens ==
    ASSUME Base, TokensConserved, NEW r \in Requests, Acquire(r)
    PROVE  TokensConserved'
<1>1. CASE tokens[msg[r].connector] >= Capacity[msg[r].connector]
  <2>1. Goto(r, "done") /\ UNCHANGED <<tokens, msg>>
      BY <1>1, CapacityType DEF Acquire, Answer, Base, Typed, Informed, Authentic
  <2> QED
      BY <2>1, SameHolders, GotoEffect
         DEF Base, Acquire, Holding, Locations, Finished
<1>2. CASE tokens[msg[r].connector] < Capacity[msg[r].connector]
  <2>1. PICK c \in Connectors : c = msg[r].connector
      BY DEF Acquire, Base, Informed, Authentic
  <2>2. Goto(r, "acquired") /\ tokens' = [tokens EXCEPT ![c] = tokens[c] + 1] /\ msg' = msg
      BY <1>2, <2>1 DEF Acquire, Continue
  <2>3. pc'[r] \in Holding /\ pc[r] \notin Holding
        /\ \A q \in Requests \ {r} : pc'[q] = pc[q]
      BY <2>2, GotoEffect DEF Base, Acquire, Holding, Locations, Running
  <2>4. Holders(c)' = Holders(c) \union {r} /\ r \notin Holders(c)
      BY <2>1, <2>2, <2>3 DEF Holders, Holding
  <2>5. Cardinality(Holders(c)') = Cardinality(Holders(c)) + 1
      BY <2>4, HoldersFinite, FS_AddElement
  <2>6. ASSUME NEW d \in Connectors \ {c} PROVE Holders(d)' = Holders(d)
      BY <2>1, <2>2, <2>3 DEF Holders, Holding
  <2>7. ASSUME NEW d \in Connectors
        PROVE  tokens'[d] = Cardinality(Holders(d)') /\ tokens'[d] <= Capacity[d]
    <3>1. CASE d = c
        BY <3>1, <1>2, <2>1, <2>2, <2>5, CapacityType
             , HoldersFinite DEF TokensConserved, Base, Typed
    <3>2. CASE d # c
        BY <3>2, <2>1, <2>2, <2>6 DEF TokensConserved, Base, Typed
    <3> QED
        BY <3>1, <3>2
  <2> QED
      BY <2>7 DEF TokensConserved
<1>3. tokens[msg[r].connector] \in Int /\ Capacity[msg[r].connector] \in Int
    BY CapacityType DEF Acquire, Base, Typed, Informed, Authentic
<1> QED
    BY <1>1, <1>2, <1>3

LEMMA ReleaseTokens ==
    ASSUME Base, TokensConserved, NEW r \in Requests, Release(r)
    PROVE  TokensConserved'
<1>1. PICK c \in Connectors : c = msg[r].connector
    BY DEF Release, Base, Informed, Authentic
<1>2. Goto(r, "done") /\ tokens' = [tokens EXCEPT ![c] = tokens[c] - 1] /\ msg' = msg
    BY <1>1 DEF Release, Continue
<1>3. pc[r] \in Holding /\ pc'[r] \notin Holding
      /\ \A q \in Requests \ {r} : pc'[q] = pc[q]
    BY <1>2, GotoEffect DEF Base, Release, Holding, Locations, Finished
<1>4. Holders(c)' = Holders(c) \ {r} /\ r \in Holders(c)
    BY <1>1, <1>2, <1>3 DEF Holders, Holding
<1>5. Cardinality(Holders(c)') = Cardinality(Holders(c)) - 1
    BY <1>4, HoldersFinite, FS_RemoveElement
<1>6. ASSUME NEW d \in Connectors \ {c} PROVE Holders(d)' = Holders(d)
    BY <1>1, <1>2, <1>3 DEF Holders, Holding
<1>7. ASSUME NEW d \in Connectors
      PROVE  tokens'[d] = Cardinality(Holders(d)') /\ tokens'[d] <= Capacity[d]
  <2>1. CASE d = c
      BY <2>1, <1>1, <1>2, <1>5, CapacityType, HoldersFinite
         DEF TokensConserved, Base, Typed
  <2>2. CASE d # c
      BY <2>2, <1>1, <1>2, <1>6 DEF TokensConserved, Base, Typed
  <2> QED
      BY <2>1, <2>2
<1> QED
    BY <1>7 DEF TokensConserved

LEMMA NextTokens == Base /\ TokensConserved /\ [Next]_vars => TokensConserved'
<1> SUFFICES ASSUME Base, TokensConserved, [Next]_vars PROVE TokensConserved'
    OBVIOUS
<1> USE DEF Base, Holding, Locations, Running, Arriving, Finished
<1>1. ASSUME NEW r \in Requests, NEW m \in Messages, Arrive(r, m)
      PROVE  TokensConserved'
  <2>1. Goto(r, "verified") \/ Goto(r, "done")
      BY <1>1 DEF Arrive, Continue, Answer
  <2> QED
      BY <1>1, <2>1, SameHolders, GotoEffect DEF Arrive, protection, Typed
<1>2. ASSUME NEW r \in Requests, CheckReplayStorm(r) PROVE TokensConserved'
    BY <1>2, SameHolders, GotoEffect DEF CheckReplayStorm, Continue, Answer, protection
<1>3. ASSUME NEW r \in Requests, Remember(r) PROVE TokensConserved'
  <2>1. Goto(r, "record_replay") \/ Goto(r, "remembered")
      BY <1>3 DEF Remember, Continue, Answer
  <2> QED
      BY <1>3, <2>1, SameHolders, GotoEffect DEF Remember
<1>4. ASSUME NEW r \in Requests, RecordReplay(r) PROVE TokensConserved'
    BY <1>4, SameHolders, GotoEffect DEF RecordReplay, RecordStorm, Continue
<1>5. ASSUME NEW r \in Requests, Decode(r) PROVE TokensConserved'
  <2>1. msg[r].body \in BodyClasses
      BY <1>5, MessagesAssumption DEF Decode, Informed
  <2>2. Goto(r, "releasing") \/ Goto(r, "record_malformed") \/ Goto(r, "authorised")
      BY <1>5, <2>1 DEF Decode, Continue, Answer, BodyClasses
  <2> QED
      BY <1>5, <2>2, SameHolders, GotoEffect DEF Decode, protection
<1>6. ASSUME NEW r \in Requests, RecordMalformed(r) PROVE TokensConserved'
    BY <1>6, SameHolders, GotoEffect DEF RecordMalformed, RecordStorm, Continue
<1>7. ASSUME NEW r \in Requests, CheckDirectoryStorm(r) PROVE TokensConserved'
    BY <1>7, SameHolders, GotoEffect
       DEF CheckDirectoryStorm, Continue, Answer, protection
<1>8. ASSUME NEW r \in Requests, DirectoryReturn(r) PROVE TokensConserved'
  <2>1. Goto(r, "record_directory") \/ Goto(r, "resetting")
      BY <1>8 DEF DirectoryReturn, Continue, Answer
  <2> QED
      BY <1>8, <2>1, SameHolders, GotoEffect DEF DirectoryReturn, protection
<1>9. ASSUME NEW r \in Requests, RecordDirectoryError(r) PROVE TokensConserved'
    BY <1>9, SameHolders, GotoEffect DEF RecordDirectoryError, RecordStorm, Continue
<1>10. ASSUME NEW r \in Requests, ResetDirectoryErrors(r) PROVE TokensConserved'
    BY <1>10, SameHolders, GotoEffect DEF ResetDirectoryErrors, Answer
<1>11. ASSUME Tick \/ WallStep \/ UNCHANGED vars PROVE TokensConserved'
    BY <1>11, SameHolders DEF Tick, WallStep, vars, protection
<1>12. ASSUME Restart PROVE TokensConserved'
  <2>1. ASSUME NEW c PROVE Holders(c)' = {}
      BY <1>12 DEF Restart, Holders
  <2>2. Cardinality({}) = 0
      BY FS_EmptySet
  <2>3. ASSUME NEW c \in Connectors
        PROVE  tokens'[c] = Cardinality(Holders(c)') /\ tokens'[c] <= Capacity[c]
    <3>1. tokens'[c] = 0
        BY <1>12 DEF Restart
    <3>2. Capacity[c] \in Nat
        BY CapacityType
    <3> QED
        BY <3>1, <3>2, <2>1, <2>2
  <2> QED
      BY <2>3 DEF TokensConserved
<1> QED
    BY <1>1, <1>2, <1>3, <1>4, <1>5, <1>6, <1>7, <1>8, <1>9, <1>10, <1>11, <1>12,
       AcquireTokens, ReleaseTokens DEF Next, Handle, Exhausted

\* No path through verifyPassword leaks a token of a connector's semaphore, or
\* returns one twice: the tokens taken are exactly the handlers between acquire
\* and the deferred release, and at most the limit.
THEOREM TokensConservedAlways == Spec => []TokensConserved
<1>1. Init => TokensConserved
  <2> SUFFICES ASSUME Init PROVE TokensConserved
      OBVIOUS
  <2>1. ASSUME NEW c PROVE Holders(c) = {}
      BY DEF Init, Holders, Holding
  <2>2. Cardinality({}) = 0
      BY FS_EmptySet
  <2>3. ASSUME NEW c \in Connectors
        PROVE  tokens[c] = Cardinality(Holders(c)) /\ tokens[c] <= Capacity[c]
    <3>1. tokens[c] = 0
        BY DEF Init
    <3>2. Capacity[c] \in Nat
        BY CapacityType
    <3> QED
        BY <3>1, <3>2, <2>1, <2>2
  <2> QED
      BY <2>3 DEF TokensConserved
<1> QED
    BY <1>1, NextTokens, SpecBase, PTL DEF Spec

\* Every variable keeps its type. That tokens never becomes negative (a receive
\* from an empty channel would block the handler for good) needs the above.
THEOREM TypeCorrect == Spec => []TypeOK
<1>1. Base /\ TokensConserved => TypeOK
  <2> SUFFICES ASSUME Base, TokensConserved PROVE TypeOK
      OBVIOUS
  <2>1. tokens \in [Connectors -> Nat]
      BY HoldersFinite DEF TokensConserved, Base, Typed
  <2>2. since \in [Requests -> 0 .. clock]
      BY DEF Base, Typed
  <2> QED
      BY <2>1, <2>2, TimeAssumption DEF Base, Typed, TypeOK
<1> QED
    BY <1>1, SpecBase, TokensConservedAlways, PTL

-----------------------------------------------------------------------------
(* Replays *)

\* No runnable handler is late, and between the HMAC check and Remember the
\* request is still within the skew of the check, plus the pauses.
Timely(r) ==
    /\ pc[r] \in Running => clock <= since[r] + MaxLag
    /\ pc[r] \in Arriving => msg[r].timestamp - Skew - MaxStep <= since[r]
    /\ pc[r] = "verified" => since[r] <= msg[r].timestamp + Skew
    /\ pc[r] = "storm_checked" => since[r] <= msg[r].timestamp + Skew + MaxLag

AllTimely == \A r \in Requests : Timely(r)

LEMMA OthersTimely ==
    ASSUME Base, AllTimely, NEW r \in Requests, NEW l \in Locations, Goto(r, l),
           clock' = clock, \A q \in Requests \ {r} : msg'[q] = msg[q]
    PROVE  \A q \in Requests \ {r} : Timely(q)'
BY GotoEffect DEF Base, AllTimely, Timely, Running, Arriving, Holding

LEMMA HandlerStepTimely ==
    ASSUME Base, AllTimely, NEW r \in Requests, NEW l \in Locations \ Arriving,
           Goto(r, l), UNCHANGED <<clock, msg>>
    PROVE  AllTimely'
<1>1. Timely(r)'
    BY GotoEffect, TimeAssumption
       DEF Base, Typed, Timely, Running, Arriving, Holding, Finished
<1> QED
    BY <1>1, OthersTimely DEF AllTimely

LEMMA NextTimely == Base /\ AllTimely /\ [Next]_vars => AllTimely'
<1> SUFFICES ASSUME Base, AllTimely, [Next]_vars PROVE AllTimely'
    OBVIOUS
<1>1. ASSUME NEW r \in Requests, NEW m \in Messages, Arrive(r, m)
      PROVE  AllTimely'
  <2>1. CASE Goto(r, "verified") /\ m.connector \in Connectors
             /\ Verify(m.connector, m, wallClock) = "ok"
    <3>1. /\ m.timestamp \in Int
          /\ m.timestamp - Skew <= clock + offset /\ clock + offset <= m.timestamp + Skew
        BY <2>1, VerifyVerdict, MessagesAssumption DEF wallClock, Base, Typed
    <3>2. /\ pc'[r] = "verified" /\ since'[r] = clock /\ clock' = clock
          /\ msg'[r] = m
        BY <2>1, <1>1, GotoEffect
           DEF Arrive, Base, Typed, Locations, Running, Arriving, Finished
    <3>3. Timely(r)'
        BY <3>1, <3>2, SkewAssumption, TimeAssumption
           DEF Timely, Base, Typed, Running, Arriving
    <3> QED
        BY <1>1, <2>1, <3>3, OthersTimely
           DEF AllTimely, Arrive, Base, Typed, Locations, Running, Arriving
  <2>2. CASE Goto(r, "done")
    <3>1. Timely(r)'
        BY <1>1, <2>2, GotoEffect
           DEF Timely, Arrive, Base, Locations, Running, Arriving, Holding, Finished
    <3> QED
        BY <1>1, <2>2, <3>1, OthersTimely
           DEF AllTimely, Arrive, Base, Typed, Locations, Finished
  <2> QED
      BY <1>1, <2>1, <2>2 DEF Arrive, Continue, Answer
<1>2. ASSUME NEW r \in Requests, CheckReplayStorm(r) PROVE AllTimely'
  <2>1. CASE Goto(r, "done")
      BY <1>2, <2>1, HandlerStepTimely
         DEF CheckReplayStorm, Locations, Finished, Arriving
  <2>2. CASE Goto(r, "storm_checked")
    <3>1. msg[r].timestamp \in Int
        BY <1>2, MessagesAssumption DEF CheckReplayStorm, Base, Informed
    <3>2. /\ pc'[r] = "storm_checked" /\ since'[r] = clock /\ clock' = clock
          /\ msg' = msg
        BY <1>2, <2>2, GotoEffect
           DEF CheckReplayStorm, Base, Locations, Running, Arriving, Finished
    <3>3. Timely(r)'
        BY <1>2, <3>1, <3>2, SkewAssumption, TimeAssumption
           DEF CheckReplayStorm, AllTimely, Timely, Base, Typed, Running, Arriving
    <3> QED
        BY <1>2, <2>2, <3>3, OthersTimely
           DEF AllTimely, CheckReplayStorm, Locations, Running, Arriving
  <2> QED
      BY <1>2, <2>1, <2>2 DEF CheckReplayStorm, Continue, Answer
<1>3. ASSUME NEW r \in Requests,
             \/ Remember(r) \/ RecordReplay(r) \/ Acquire(r) \/ RecordMalformed(r)
             \/ CheckDirectoryStorm(r) \/ DirectoryReturn(r)
             \/ RecordDirectoryError(r) \/ ResetDirectoryErrors(r) \/ Release(r)
      PROVE  AllTimely'
  <2>1. /\ \E l \in Locations \ Arriving : Goto(r, l)
        /\ UNCHANGED <<clock, msg>>
      BY <1>3 DEF Remember, RecordReplay, Acquire, RecordMalformed,
            CheckDirectoryStorm, DirectoryReturn, RecordDirectoryError,
            ResetDirectoryErrors, Release, RecordStorm, Continue, Answer, protection,
            Locations, Running, Arriving, Holding, Finished
  <2> QED
      BY <2>1, HandlerStepTimely
<1>4. ASSUME NEW r \in Requests, Decode(r) PROVE AllTimely'
  <2>1. msg[r].body \in BodyClasses
      BY <1>4, MessagesAssumption DEF Decode, Base, Informed
  <2>2. Goto(r, "releasing") \/ Goto(r, "record_malformed") \/ Goto(r, "authorised")
      BY <1>4, <2>1 DEF Decode, Continue, Answer, BodyClasses
  <2> QED
      BY <1>4, <2>2, HandlerStepTimely
         DEF Decode, Locations, Running, Arriving, Holding
<1>5. CASE Tick
    BY <1>5, TimeAssumption DEF Tick, Base, Typed, AllTimely, Timely
<1>6. CASE WallStep \/ UNCHANGED vars
    BY <1>6 DEF WallStep, vars, AllTimely, Timely
<1>7. CASE Restart
    BY <1>7 DEF Restart, AllTimely, Timely, Running, Arriving, Holding
<1> QED
    BY <1>1, <1>2, <1>3, <1>4, <1>5, <1>6, <1>7 DEF Next, Handle, Exhausted

LEMMA SpecTimely == Spec => []AllTimely
<1>1. Init => AllTimely
    BY DEF Init, AllTimely, Timely, Running, Arriving, Holding
<1> QED
    BY <1>1, NextTimely, SpecBase, PTL DEF Spec

\* The instant until which the cache must know a request: no copy of it passes
\* both the HMAC check and Remember later than this.
Due(m) == m.timestamp - Skew - MaxStep + Ttl

\* The cache knows every admitted request until it is due.
Kept ==
    \A r \in Requests : Admitted(r) =>
        \/ /\ replayKey(msg[r]) \in DOMAIN entries
           /\ entries[replayKey(msg[r])] >= Due(msg[r])
        \/ clock > Due(msg[r])

\* The cache knows only keys of admitted requests.
Backed ==
    \A k \in DOMAIN entries :
        \E q \in Requests : Admitted(q) /\ replayKey(msg[q]) = k

ReplayInv == Kept /\ Backed /\ AtMostOnce /\ NoFalseReplay

LEMMA DueType ==
    ASSUME NEW m \in Messages PROVE m.timestamp \in Int /\ Due(m) \in Int
BY MessagesAssumption, SkewAssumption, TimeAssumption, TtlAssumption DEF Due

\* A step that admits nobody and leaves the cache alone.
LEMMA QuietReplay ==
    ASSUME Base, ReplayInv, UNCHANGED entries, clock' \in Nat, clock <= clock',
           \A q \in Requests : Admitted(q)' <=> Admitted(q),
           \A q \in Requests : Admitted(q) => msg'[q] = msg[q],
           \A q \in Requests : response'[q] = "replay_detected" =>
               response[q] = "replay_detected" /\ msg'[q] = msg[q]
    PROVE  ReplayInv'
<1>1. Kept'
  <2> SUFFICES ASSUME NEW r \in Requests, Admitted(r)'
               PROVE  \/ /\ replayKey(msg'[r]) \in DOMAIN entries'
                         /\ entries'[replayKey(msg'[r])] >= Due(msg'[r])
                      \/ clock' > Due(msg'[r])
      BY DEF Kept, Due
  <2>1. Admitted(r) /\ msg'[r] = msg[r] /\ msg[r] \in Messages
      BY DEF Base, Informed, Admitted, Holding
  <2> QED
      BY <2>1, DueType DEF ReplayInv, Kept, Base, Typed
<1>2. Backed'
    BY DEF ReplayInv, Backed
<1>3. AtMostOnce'
    BY DEF ReplayInv, AtMostOnce
<1>4. NoFalseReplay'
    BY DEF ReplayInv, NoFalseReplay
<1> QED
    BY <1>1, <1>2, <1>3, <1>4 DEF ReplayInv

\* A step of one handler that does not change whether it is admitted.
LEMMA HandlerStepReplay ==
    ASSUME Base, ReplayInv, NEW r \in Requests, NEW l \in Locations, Goto(r, l),
           UNCHANGED <<clock, entries>>,
           \A q \in Requests \ {r} : msg'[q] = msg[q] /\ response'[q] = response[q],
           Admitted(r)' <=> Admitted(r),
           Admitted(r) => msg'[r] = msg[r],
           response'[r] # "replay_detected" \/ (response'[r] = response[r] /\ msg'[r] = msg[r])
    PROVE  ReplayInv'
<1>1. \A q \in Requests : Admitted(q)' <=> Admitted(q)
    BY GotoEffect DEF Base, Admitted, Holding, AdmittedCodes, Verdicts, DirectoryFailures
<1>2. \A q \in Requests : Admitted(q) => msg'[q] = msg[q]
    OBVIOUS
<1>3. \A q \in Requests : response'[q] = "replay_detected" =>
          response[q] = "replay_detected" /\ msg'[q] = msg[q]
    OBVIOUS
<1>4. clock' \in Nat /\ clock <= clock'
    BY DEF Base, Typed
<1> QED
    BY <1>1, <1>2, <1>3, <1>4, QuietReplay

\* The decisive step. If a copy had been admitted before, the cache would know
\* it still: it may forget the key only when the request is due, and by then the
\* copy that arrives would have failed the HMAC check.
LEMMA RememberReplay ==
    ASSUME Base, AllTimely, ReplayInv, NEW r \in Requests, Remember(r)
    PROVE  ReplayInv'
<1>0. PICK m \in Messages : m = msg[r]
    BY DEF Remember, Base, Informed
<1>1. PICK key : key = replayKey(m)
    OBVIOUS
<1>2. PICK now \in Sampled(r) :
          /\ entries' = Remembered(entries, key, now)
          /\ IF Known(entries, key, now)
             THEN Answer(r, "replay_detected", "record_replay")
             ELSE Continue(r, "remembered")
    BY <1>0, <1>1 DEF Remember
<1>3. /\ now \in Nat /\ since[r] <= now /\ now <= clock
      /\ clock' = clock /\ msg' = msg /\ pc[r] = "storm_checked"
    BY <1>2, SampledType DEF Base, Remember
<1>4. /\ Due(m) \in Int /\ clock <= Due(m) /\ m.timestamp - Skew - MaxStep <= now
      /\ now + Ttl >= Due(m)
    BY <1>0, <1>3, DueType, ReplayWindowAssumption, TimeAssumption, SkewAssumption,
       TtlAssumption
       DEF AllTimely, Timely, Base, Typed, Running, Arriving, Due
<1>5. ~ Admitted(r)
    BY <1>3 DEF Admitted, Holding
<1>6. Goto(r, "record_replay") \/ Goto(r, "remembered")
    BY <1>2 DEF Answer, Continue
<1>7. \A q \in Requests \ {r} : /\ Admitted(q)' <=> Admitted(q)
                                /\ response'[q] = response[q]
    BY <1>2, <1>6, GotoEffect
       DEF Base, Typed, Admitted, Answer, Continue, Holding, AdmittedCodes, Verdicts,
           DirectoryFailures, Locations, Running
<1>8. ASSUME NEW q \in Requests \ {r}, Admitted(q)
      PROVE  \/ /\ replayKey(msg[q]) \in DOMAIN entries'
                /\ entries'[replayKey(msg[q])] >= Due(msg[q])
             \/ clock > Due(msg[q])
  <2>1. msg[q] \in Messages
      BY <1>8 DEF Base, Informed, Admitted, Holding
  <2>2. CASE clock > Due(msg[q])
      BY <2>2
  <2>3. CASE /\ replayKey(msg[q]) \in DOMAIN entries
             /\ entries[replayKey(msg[q])] >= Due(msg[q])
    <3>1. entries[replayKey(msg[q])] \in Nat /\ Due(msg[q]) \in Int /\ clock \in Nat
        BY <2>1, <2>3, DueType DEF Base, Typed
    <3>2. CASE now > entries[replayKey(msg[q])]
        BY <1>3, <2>3, <3>1, <3>2
    <3>3. CASE ~ (now > entries[replayKey(msg[q])])
        BY <1>2, <2>3, <3>3, RememberedKeeps
    <3> QED
        BY <3>2, <3>3
  <2> QED
      BY <1>8, <2>2, <2>3 DEF ReplayInv, Kept
<1>9. DOMAIN entries' \subseteq DOMAIN entries \union {key}
    BY <1>2, RememberedKeeps
<1>10. CASE Known(entries, key, now)
  <2>1. Answer(r, "replay_detected", "record_replay")
      BY <1>2, <1>10
  <2>2. ~ Admitted(r)'
      BY <2>1, GotoEffect DEF Answer, Base, Admitted, Holding, Locations, Running
  <2>3. key \in DOMAIN entries
      BY <1>10, RememberedKeeps
  <2>4. PICK p \in Requests : Admitted(p) /\ replayKey(msg[p]) = key
      BY <2>3 DEF ReplayInv, Backed
  <2>5. Kept'
      BY <1>3, <1>7, <1>8, <2>2 DEF Kept, Due
  <2>6. Backed'
      BY <1>3, <1>5, <1>7, <1>9, <2>3 DEF ReplayInv, Backed
  <2>7. AtMostOnce'
      BY <1>3, <1>7, <2>2 DEF ReplayInv, AtMostOnce
  <2>8. NoFalseReplay'
      BY <1>0, <1>1, <1>3, <1>5, <1>7, <2>4 DEF ReplayInv, NoFalseReplay
  <2> QED
      BY <2>5, <2>6, <2>7, <2>8 DEF ReplayInv
<1>11. CASE ~ Known(entries, key, now)
  <2>1. Continue(r, "remembered")
      BY <1>2, <1>11
  <2>2. Admitted(r)' /\ response' = response /\ response[r] = "none"
      BY <2>1, <1>3, GotoEffect
         DEF Continue, Base, Informed, Admitted, Locations, Running
  <2>3. key \in DOMAIN entries' /\ entries'[key] = now + Ttl
      BY <1>2, <1>11, RememberedKeeps
  <2>4. Kept'
      BY <1>0, <1>1, <1>3, <1>4, <1>7, <1>8, <2>3 DEF Kept, Due
  <2>5. Backed'
    <3> SUFFICES ASSUME NEW k \in DOMAIN entries'
                 PROVE  \E q \in Requests : Admitted(q)' /\ replayKey(msg'[q]) = k
        BY DEF Backed
    <3>1. CASE k = key
        BY <3>1, <1>0, <1>1, <1>3, <2>2
    <3>2. CASE k # key
      <4>1. PICK q \in Requests : Admitted(q) /\ replayKey(msg[q]) = k
          BY <3>2, <1>9 DEF ReplayInv, Backed
      <4> QED
          BY <4>1, <1>3, <1>5, <1>7
    <3> QED
        BY <3>1, <3>2
  <2>6. ASSUME NEW q \in Requests \ {r}, Admitted(q) PROVE msg[q] # m
    <3> SUFFICES ASSUME msg[q] = m PROVE FALSE
        OBVIOUS
    <3>1. clock \in Nat /\ ~ (clock > Due(m))
        BY <1>4 DEF Base, Typed
    <3>2. key \in DOMAIN entries /\ entries[key] >= Due(m)
        BY <2>6, <3>1, <1>1 DEF ReplayInv, Kept
    <3>3. entries[key] \in Nat
        BY <3>2 DEF Base, Typed
    <3>4. ~ (now > entries[key])
        BY <1>3, <1>4, <3>1, <3>2, <3>3
    <3> QED
        BY <3>2, <3>4, <1>11, RememberedKeeps
  <2>7. AtMostOnce'
      BY <1>0, <1>3, <1>7, <2>6 DEF ReplayInv, AtMostOnce
  <2>8. NoFalseReplay'
      BY <1>3, <1>5, <1>7, <2>2 DEF ReplayInv, NoFalseReplay
  <2> QED
      BY <2>4, <2>5, <2>7, <2>8 DEF ReplayInv
<1> QED
    BY <1>10, <1>11

LEMMA NextReplay == Base /\ AllTimely /\ ReplayInv /\ [Next]_vars => ReplayInv'
<1> SUFFICES ASSUME Base, AllTimely, ReplayInv, [Next]_vars PROVE ReplayInv'
    OBVIOUS
<1>0. Base'
    BY NextBase
<1>1. ASSUME NEW r \in Requests, NEW m \in Messages, Arrive(r, m)
      PROVE  ReplayInv'
  <2>1. wallClock \in Int
      BY DEF Base, Typed, wallClock
  <2>2. \/ Goto(r, "verified") /\ response' = response
        \/ \E code \in UnauthenticatedCodes :
               Goto(r, "done") /\ response' = [response EXCEPT ![r] = code]
    <3> DEFINE code == IF m.connector \in Connectors
                       THEN Verify(m.connector, m, wallClock)
                       ELSE "unknown_connector"
    <3>1. code \in UnauthenticatedCodes \union {"ok"}
        BY <2>1, VerifyVerdict DEF UnauthenticatedCodes
    <3>2. IF code = "ok" THEN Continue(r, "verified") ELSE Answer(r, code, "done")
        BY <1>1 DEF Arrive
    <3> HIDE DEF code
    <3> QED
        BY <3>1, <3>2 DEF Continue, Answer
  <2>3. ~ Admitted(r) /\ ~ Admitted(r)' /\ response'[r] # "replay_detected"
        /\ \A q \in Requests \ {r} : response'[q] = response[q]
      BY <1>1, <2>2, GotoEffect
         DEF Arrive, Admitted, Base, Typed, Informed, Holding, Locations, Finished,
             Running, Arriving, UnauthenticatedCodes, VerifyFaults, EnvelopeFaults,
             CanonicalFaults, AdmittedCodes, Verdicts, DirectoryFailures
  <2> QED
      BY <1>1, <2>2, <2>3, HandlerStepReplay
         DEF Arrive, protection, Base, Typed, Locations, Finished, Running, Arriving
<1>2. ASSUME NEW r \in Requests, CheckReplayStorm(r) PROVE ReplayInv'
  <2>1. \/ Goto(r, "storm_checked") /\ response' = response
        \/ Goto(r, "done") /\ response' = [response EXCEPT ![r] = "replay_storm_limited"]
      BY <1>2 DEF CheckReplayStorm, Continue, Answer
  <2>2. ~ Admitted(r) /\ ~ Admitted(r)'
        /\ \A q \in Requests \ {r} : response'[q] = response[q]
      BY <1>2, <2>1, GotoEffect
         DEF CheckReplayStorm, Admitted, Base, Typed, Holding, Locations, Finished,
             Running, Arriving, AdmittedCodes, Verdicts, DirectoryFailures
  <2> QED
      BY <1>2, <2>1, <2>2, HandlerStepReplay
         DEF CheckReplayStorm, protection, Base, Typed, Locations, Finished, Running,
             Arriving
<1>3. ASSUME NEW r \in Requests, RecordReplay(r) PROVE ReplayInv'
  <2>1. Goto(r, "done") /\ response' = response /\ UNCHANGED <<clock, msg, entries>>
      BY <1>3 DEF RecordReplay, RecordStorm, Continue
  <2>2. ~ Admitted(r) /\ ~ Admitted(r)'
      BY <1>3, <2>1, GotoEffect
         DEF RecordReplay, Admitted, Base, Informed, Holding, Locations, Finished,
             AdmittedCodes, Verdicts, DirectoryFailures
  <2> QED
      BY <2>1, <2>2, HandlerStepReplay DEF Locations, Finished
<1>4. ASSUME NEW r \in Requests, Admitted(r), Handle(r) \/ DirectoryReturn(r)
      PROVE  ReplayInv'
  <2>1. pc[r] = "remembered" \/ pc[r] \in Holding
      BY <1>4 DEF Admitted, Handle, DirectoryReturn, CheckReplayStorm, Remember,
            RecordReplay, Acquire, Decode, RecordMalformed, CheckDirectoryStorm,
            RecordDirectoryError, ResetDirectoryErrors, Release
  <2>2. /\ UNCHANGED <<clock, msg, entries>>
        /\ \E l \in Locations : Goto(r, l)
        /\ \/ response' = response
           \/ \E code \in AdmittedCodes : response' = [response EXCEPT ![r] = code]
    <3>1. msg[r] \in Messages => msg[r].body \in BodyClasses
        BY MessagesAssumption
    <3>2. msg[r] \in Messages /\ (pc[r] = "resetting" => verdict[r] \in Verdicts)
        BY <2>1 DEF Base, Informed, Holding
    <3>3. CASE Acquire(r)
        BY <3>3 DEF Acquire, Continue, Answer, Locations, Running, Holding, Finished,
              AdmittedCodes
    <3>4. CASE Decode(r)
        BY <3>1, <3>2, <3>4 DEF Decode, Continue, Answer, Locations, Running, Holding,
              AdmittedCodes, BodyClasses, protection
    <3>5. CASE RecordMalformed(r) \/ RecordDirectoryError(r) \/ Release(r)
        BY <3>5 DEF RecordMalformed, RecordDirectoryError, Release, RecordStorm,
              Continue, Locations, Running, Holding, Finished
    <3>6. CASE CheckDirectoryStorm(r)
        BY <3>6 DEF CheckDirectoryStorm, Continue, Answer, Locations, Running, Holding,
              AdmittedCodes, protection
    <3>7. CASE DirectoryReturn(r)
        BY <3>7 DEF DirectoryReturn, Continue, Answer, Locations, Running, Holding,
              AdmittedCodes, protection
    <3>8. CASE ResetDirectoryErrors(r)
        BY <3>2, <3>8 DEF ResetDirectoryErrors, Answer, Locations, Running, Holding,
              AdmittedCodes
    <3> QED
        BY <1>4, <2>1, <3>3, <3>4, <3>5, <3>6, <3>7, <3>8
           DEF Handle, CheckReplayStorm, Remember, RecordReplay, Holding
  <2>3. ASSUME Acquire(r) PROVE Admitted(r)'
      BY <2>3, GotoEffect DEF Acquire, Continue, Answer, Admitted, Base, Typed,
            AdmittedCodes, Locations, Running, Holding, Finished
  <2>4. ASSUME Release(r) PROVE Admitted(r)'
      BY <2>4, GotoEffect DEF Release, Continue, Admitted, Base, Informed, Locations,
            Finished
  <2>5. ASSUME ~ Acquire(r), ~ Release(r) PROVE Admitted(r)'
    <3>1. msg[r] \in Messages => msg[r].body \in BodyClasses
        BY MessagesAssumption
    <3>2. msg[r] \in Messages
        BY <2>1 DEF Base, Informed, Holding
    <3>3. pc'[r] \in Holding
        BY <1>4, <2>1, <2>5, <3>1, <3>2
           DEF Handle, DirectoryReturn, CheckReplayStorm, Remember, RecordReplay, Decode,
               RecordMalformed, CheckDirectoryStorm, RecordDirectoryError,
               ResetDirectoryErrors, RecordStorm, Continue, Answer, Goto,
               Holding, BodyClasses, Base, Typed
    <3> QED
        BY <3>3 DEF Admitted, Holding
  <2>6. Admitted(r)'
      BY <2>3, <2>4, <2>5
  <2> QED
      BY <1>4, <2>2, <2>6, HandlerStepReplay DEF Base, Typed, AdmittedCodes, Verdicts,
            DirectoryFailures
<1>5. CASE Tick \/ WallStep \/ UNCHANGED vars
  <2>1. /\ UNCHANGED <<pc, msg, response, entries>> /\ clock' \in Nat
        /\ clock <= clock'
      BY <1>5 DEF Tick, WallStep, vars, protection, Base, Typed
  <2>2. \A q \in Requests : Admitted(q)' <=> Admitted(q)
      BY <2>1 DEF Admitted
  <2> QED
      BY <2>1, <2>2, QuietReplay
<1>6. CASE Restart
    BY <1>6 DEF Restart, ReplayInv, Kept, Backed, AtMostOnce, NoFalseReplay, Admitted,
          Holding
<1>7. ASSUME NEW r \in Requests, Handle(r) \/ DirectoryReturn(r)
      PROVE  Admitted(r) \/ CheckReplayStorm(r) \/ Remember(r) \/ RecordReplay(r)
    BY <1>7 DEF Handle, DirectoryReturn, Acquire, Decode, RecordMalformed,
          CheckDirectoryStorm, RecordDirectoryError, ResetDirectoryErrors, Release,
          Admitted, Holding
<1> QED
    BY <1>1, <1>2, <1>3, <1>4, <1>5, <1>6, <1>7, RememberReplay DEF Next, Exhausted

LEMMA SpecReplay == Spec => []ReplayInv
<1>1. Init => ReplayInv
    BY DEF Init, ReplayInv, Kept, Backed, AtMostOnce, NoFalseReplay, Admitted, Holding
<1> QED
    BY <1>1, NextReplay, SpecBase, SpecTimely, PTL DEF Spec

\* A signed request is admitted at most once in the life of a process. The
\* argument needs Ttl to cover twice the skew, the steps of the wall clock and
\* the two pauses of a handler between the HMAC check and Remember.
THEOREM AtMostOnceAlways == Spec => []AtMostOnce
<1>1. ReplayInv => AtMostOnce
    BY DEF ReplayInv
<1> QED
    BY <1>1, SpecReplay, PTL

\* A request is answered replay_detected only if another one with its key was
\* admitted: nothing but admission uses up a key.
THEOREM NoFalseReplayAlways == Spec => []NoFalseReplay
<1>1. ReplayInv => NoFalseReplay
    BY DEF ReplayInv
<1> QED
    BY <1>1, SpecReplay, PTL
-----------------------------------------------------------------------------
(* The handlers implement DirectoryGate *)

\* The phase of a call, read off where its handler is.
LEMMA Phases ==
    ASSUME Base, NEW r \in Requests
    PROVE  /\ phaseOf[r] = "waiting" <=>
                pc[r] \in {"idle", "verified", "storm_checked", "remembered", "acquired",
                           "authorised"}
           /\ phaseOf[r] = "consulting" <=> pc[r] \in {"in_directory", "resetting"}
           /\ phaseOf[r] = "gone" <=> pc[r] = "gone"
           /\ phaseOf[r] \in {"waiting", "consulting", "gone", "answered"}
           /\ questionOf[r] = IF Asked(r) THEN msg[r] ELSE NoMessage
BY DEF phaseOf, questionOf, Arriving

LEMMA PhasesNext ==
    ASSUME Base', NEW r \in Requests
    PROVE  /\ phaseOf'[r] = "waiting" <=>
                pc'[r] \in {"idle", "verified", "storm_checked", "remembered", "acquired",
                           "authorised"}
           /\ phaseOf'[r] = "consulting" <=> pc'[r] \in {"in_directory", "resetting"}
           /\ phaseOf'[r] = "gone" <=> pc'[r] = "gone"
           /\ phaseOf'[r] \in {"waiting", "consulting", "gone", "answered"}
           /\ questionOf'[r] = IF Asked(r)' THEN msg'[r] ELSE NoMessage
BY DEF phaseOf, questionOf, Arriving

\* What a step of handler r alone does to the state of the gate.
LEMMA GateStep ==
    ASSUME NEW r \in Requests,
           \A q \in Requests \ {r} :
               pc'[q] = pc[q] /\ msg'[q] = msg[q] /\ response'[q] = response[q]
    PROVE  /\ phaseOf' = [phaseOf EXCEPT ![r] = phaseOf'[r]]
           /\ questionOf' = [questionOf EXCEPT ![r] = questionOf'[r]]
<1>1. ASSUME NEW q \in Requests \ {r}
      PROVE  phaseOf'[q] = phaseOf[q] /\ questionOf'[q] = questionOf[q]
    BY <1>1 DEF phaseOf, questionOf, Asked, Arriving
<1>2. /\ phaseOf = [q \in Requests |-> phaseOf[q]]
      /\ phaseOf' = [q \in Requests |-> phaseOf'[q]]
    BY DEF phaseOf
<1>3. /\ questionOf = [q \in Requests |-> questionOf[q]]
      /\ questionOf' = [q \in Requests |-> questionOf'[q]]
    BY DEF questionOf
<1> QED
    BY <1>1, <1>2, <1>3

\* The moves other than asking the directory.
LEMMA GateMove ==
    ASSUME NEW r \in Requests, questionOf'[r] = questionOf[r],
           \A q \in Requests \ {r} :
               pc'[q] = pc[q] /\ msg'[q] = msg[q] /\ response'[q] = response[q],
           \/ phaseOf'[r] = phaseOf[r]
           \/ phaseOf[r] \in {"waiting", "consulting"} /\ phaseOf'[r] = "answered"
    PROVE  [Gate!Next]_(Gate!vars)
<1>1. /\ phaseOf' = [phaseOf EXCEPT ![r] = phaseOf'[r]]
      /\ questionOf' = [questionOf EXCEPT ![r] = questionOf'[r]]
    BY GateStep
<1>2. UNCHANGED questionOf
    BY <1>1 DEF questionOf
<1>3. CASE phaseOf'[r] = phaseOf[r]
  <2>1. UNCHANGED phaseOf
      BY <1>1, <1>3 DEF phaseOf
  <2> QED
      BY <1>2, <2>1 DEF Gate!vars
<1>4. CASE phaseOf[r] \in {"waiting", "consulting"} /\ phaseOf'[r] = "answered"
    BY <1>1, <1>2, <1>4 DEF Gate!Next, Gate!Conclude, Gate!Refuse
<1> QED
    BY <1>3, <1>4

\* The gate counts with the same Cardinality.
LEMMA GateCardinality == \A S : Gate!Cardinality(S) = Cardinality(S)
BY DEF Gate!Cardinality, Cardinality

\* A call that is let through to the directory is genuine, was not asked about
\* before, and finds the directory less busy than the semaphore allows: it holds a
\* token itself.
LEMMA GateConsult ==
    ASSUME Base, Base', TokensConserved, AtMostOnce, NEW r \in Requests,
           CheckDirectoryStorm(r), pc'[r] = "in_directory"
    PROVE  Gate!Next
<1> DEFINE m == msg[r]
           c == m.connector
<1>1. pc[r] = "authorised" /\ msg' = msg /\ UNCHANGED response
    BY DEF CheckDirectoryStorm, Answer, Continue, Goto, Base, Typed
<1>2. m \in Messages /\ m \in GenuineMessages /\ c \in Connectors
    BY <1>1 DEF Base, Informed, Authentic, GenuineMessages
<1>3. \A q \in Requests \ {r} : pc'[q] = pc[q]
    BY OnlyHandler DEF Handle
<1>4. /\ phaseOf' = [phaseOf EXCEPT ![r] = phaseOf'[r]]
      /\ questionOf' = [questionOf EXCEPT ![r] = questionOf'[r]]
    BY <1>1, <1>3, GateStep
<1>5. phaseOf[r] = "waiting" /\ phaseOf'[r] = "consulting" /\ questionOf'[r] = m
    BY <1>1, Phases, PhasesNext DEF Asked
<1>6. ASSUME NEW q \in Requests PROVE questionOf[q] # m
  <2>1. ~ Asked(r) /\ Admitted(r)
      BY <1>1 DEF Asked, Admitted, Holding
  <2>2. Asked(q) => Admitted(q)
      BY DEF Asked, Admitted, Holding, AdmittedCodes
  <2>3. NoMessage # m
      BY <1>2, MessagesAssumption
  <2> QED
      BY <2>1, <2>2, <2>3, Phases DEF AtMostOnce
<1>7. Cardinality(Gate!Consulting(c)) < Capacity[c]
  <2>1. r \in Holders(c)
      BY <1>1 DEF Holders, Holding
  <2>2. ASSUME NEW q \in Gate!Consulting(c) PROVE q \in Holders(c) \ {r}
    <3>1. q \in Requests /\ phaseOf[q] = "consulting" /\ questionOf[q].connector = c
        BY <2>2 DEF Gate!Consulting
    <3>2. pc[q] \in {"in_directory", "resetting"} /\ questionOf[q] = msg[q]
        BY <3>1, Phases DEF Asked
    <3> QED
        BY <1>1, <3>1, <3>2 DEF Holders, Holding
  <2>3. /\ IsFiniteSet(Holders(c) \ {r})
        /\ Cardinality(Holders(c) \ {r}) = Cardinality(Holders(c)) - 1
      BY <2>1, HoldersFinite, FS_RemoveElement
  <2>4. /\ IsFiniteSet(Gate!Consulting(c))
        /\ Cardinality(Gate!Consulting(c)) <= Cardinality(Holders(c) \ {r})
      BY <2>2, <2>3, FS_Subset
  <2>5. Cardinality(Holders(c)) <= Capacity[c]
      BY <1>2 DEF TokensConserved
  <2> QED
      BY <1>2, <2>3, <2>4, <2>5, HoldersFinite, CapacityType, FS_CardinalityType
<1>8. /\ phaseOf' = [phaseOf EXCEPT ![r] = "consulting"]
      /\ questionOf' = [questionOf EXCEPT ![r] = m]
    BY <1>4, <1>5
<1>9. Gate!Consult(r, m)
    BY <1>2, <1>5, <1>6, <1>7, <1>8, GateCardinality DEF Gate!Consult
<1> QED
    BY <1>2, <1>9 DEF Gate!Next

\* Every other step of a handler moves on its own call alone: to an answer without
\* the directory, from the directory to an answer, or not at all.
LEMMA GateHandler ==
    ASSUME Base, Base', TokensConserved, AtMostOnce, NEW r \in Requests,
           Handle(r) \/ DirectoryReturn(r)
    PROVE  [Gate!Next]_(Gate!vars)
<1>1. /\ msg' = msg
      /\ \A q \in Requests \ {r} :
            pc'[q] = pc[q] /\ msg'[q] = msg[q] /\ response'[q] = response[q]
    BY OnlyHandler
<1>2. ASSUME phaseOf[r] = "waiting", pc'[r] \notin {"in_directory", "resetting", "gone"},
             response'[r] \notin Verdicts \union DirectoryFailures,
             pc'[r] # "record_directory"
      PROVE  [Gate!Next]_(Gate!vars)
  <2>1. ~ Asked(r) /\ ~ Asked(r)'
      BY <1>2, Phases DEF Asked
  <2> QED
      BY <1>1, <1>2, <2>1, Phases, PhasesNext, GateMove
<1>3. CASE CheckReplayStorm(r) \/ Remember(r) \/ Acquire(r)
  <2>1. phaseOf[r] = "waiting" /\ response[r] = "none"
      BY <1>3, Phases DEF CheckReplayStorm, Remember, Acquire, Base, Informed
  <2>2. /\ pc'[r] \in {"storm_checked", "record_replay", "remembered", "acquired", "done"}
        /\ response'[r] \in {"none", "replay_storm_limited", "replay_detected",
                             "connector_rate_limited"}
      BY <1>3, <2>1 DEF CheckReplayStorm, Remember, Acquire, Answer, Continue, Goto,
                        Base, Typed
  <2> QED
      BY <1>2, <2>1, <2>2 DEF Verdicts, DirectoryFailures
<1>4. CASE Decode(r)
  <2>1. phaseOf[r] = "waiting" /\ response[r] = "none" /\ msg[r].body \in BodyClasses
      BY <1>4, Phases, MessagesAssumption DEF Decode, Base, Informed
  <2>2. /\ pc'[r] \in {"releasing", "record_malformed", "authorised"}
        /\ response'[r] \in {"none", "malformed_request_storm_limited",
                             "malformed_request", "tenant_connector_mismatch"}
      BY <1>4, <2>1 DEF Decode, Answer, Continue, Goto, Base, Typed, BodyClasses
  <2> QED
      BY <1>2, <2>1, <2>2 DEF Verdicts, DirectoryFailures
<1>5. CASE CheckDirectoryStorm(r)
  <2>1. phaseOf[r] = "waiting" /\ response[r] = "none"
      BY <1>5, Phases DEF CheckDirectoryStorm, Base, Informed
  <2>2. \/ pc'[r] = "in_directory"
        \/ pc'[r] = "releasing" /\ response'[r] = "directory_error_storm_limited"
      BY <1>5, <2>1 DEF CheckDirectoryStorm, Answer, Continue, Goto, Base, Typed
  <2> QED
      BY <1>2, <1>5, <2>1, <2>2, GateConsult DEF Verdicts, DirectoryFailures
<1>6. CASE DirectoryReturn(r) \/ ResetDirectoryErrors(r)
  <2>1. phaseOf[r] = "consulting" /\ Asked(r)
      BY <1>6, Phases DEF DirectoryReturn, ResetDirectoryErrors, Asked
  <2>2. \/ pc'[r] \in {"record_directory", "resetting"}
        \/ pc'[r] = "releasing" /\ response'[r] \in Verdicts
      BY <1>6 DEF DirectoryReturn, ResetDirectoryErrors, Answer, Continue, Goto, Base,
                  Typed, Informed
  <2>3. Asked(r)'
      BY <2>2 DEF Asked
  <2> QED
      BY <1>1, <2>1, <2>2, <2>3, Phases, PhasesNext, GateMove
<1>7. CASE \/ RecordReplay(r) \/ RecordMalformed(r) \/ RecordDirectoryError(r)
           \/ Release(r)
  <2>1. /\ pc[r] \in {"record_replay", "record_malformed", "record_directory", "releasing"}
        /\ pc'[r] \in {"releasing", "done"} /\ response'[r] = response[r]
        /\ Informed(r)
      BY <1>7 DEF RecordReplay, RecordMalformed, RecordDirectoryError, RecordStorm,
                  Release, Continue, Goto, Base, Typed
  <2>2. Asked(r)' <=> Asked(r)
      BY <2>1 DEF Asked, Informed, Verdicts, DirectoryFailures
  <2> QED
      BY <1>1, <2>1, <2>2, Phases, PhasesNext, GateMove
<1> QED
    BY <1>3, <1>4, <1>5, <1>6, <1>7 DEF Handle

LEMMA GateNext ==
    ASSUME Base, Base', TokensConserved, AtMostOnce, [Next]_vars
    PROVE  [Gate!Next]_(Gate!vars)
<1>1. ASSUME NEW r \in Requests, NEW m \in Messages, Arrive(r, m)
      PROVE  [Gate!Next]_(Gate!vars)
  <2>1. PICK code \in VerifyFaults \union {"ok", "unknown_connector"} :
            \/ Continue(r, "verified")
            \/ code # "ok" /\ Answer(r, code, "done")
    <3>1. wallClock \in Int
        BY DEF wallClock, Base, Typed
    <3> QED
        BY <1>1, <3>1, VerifyVerdict DEF Arrive
  <2>2. pc[r] = "idle" /\ response[r] = "none"
      BY <1>1 DEF Arrive, Base, Informed
  <2>3. \A q \in Requests \ {r} :
            pc'[q] = pc[q] /\ msg'[q] = msg[q] /\ response'[q] = response[q]
      BY <1>1, <2>1 DEF Arrive, Continue, Answer, Goto, Base, Typed
  <2>4. \/ pc'[r] = "verified"
        \/ pc'[r] = "done" /\ response'[r] = code
      BY <2>1 DEF Continue, Answer, Goto, Base, Typed
  <2>5. code \notin Verdicts \union DirectoryFailures
      BY DEF VerifyFaults, EnvelopeFaults, CanonicalFaults, Verdicts, DirectoryFailures
  <2>6. ~ Asked(r) /\ ~ Asked(r)'
      BY <2>2, <2>4, <2>5 DEF Asked
  <2> QED
      BY <2>2, <2>3, <2>4, <2>6, Phases, PhasesNext, GateMove
<1>2. CASE UNCHANGED <<pc, msg, response>>
  <2>1. UNCHANGED phaseOf
      BY <1>2 DEF phaseOf
  <2>2. UNCHANGED questionOf
      BY <1>2 DEF questionOf, Asked
  <2> QED
      BY <2>1, <2>2 DEF Gate!vars
<1>3. CASE Restart
  <2> DEFINE kept == {r \in Requests : pc[r] = "idle"}
  <2>1. kept \in SUBSET {r \in Requests : phaseOf[r] = "waiting"}
      BY Phases
  <2>2. ASSUME NEW r \in Requests
        PROVE  /\ phaseOf'[r] = IF r \in kept THEN "waiting" ELSE "gone"
               /\ questionOf'[r] = NoMessage
    <3>1. pc'[r] = IF r \in kept THEN "idle" ELSE "gone"
        BY <1>3 DEF Restart
    <3> QED
        BY <3>1, PhasesNext DEF Asked
  <2>3. /\ phaseOf' = [r \in Requests |-> IF r \in kept THEN "waiting" ELSE "gone"]
        /\ questionOf' = [r \in Requests |-> NoMessage]
    <3>1. phaseOf' = [r \in Requests |-> phaseOf'[r]]
        BY DEF phaseOf
    <3>2. questionOf' = [r \in Requests |-> questionOf'[r]]
        BY DEF questionOf
    <3> QED
        BY <2>2, <3>1, <3>2
  <2> QED
      BY <2>1, <2>3 DEF Gate!Next, Gate!Restart
<1> QED
    BY <1>1, <1>2, <1>3, GateHandler DEF Next, Tick, WallStep, Exhausted, vars

\* verifyPassword implements DirectoryGate: whatever concurrent handlers do between
\* its checks, each call to the directory is one that an atomic decision could have
\* allowed, for any set of requests, connectors and limits.
THEOREM GateImplemented == Spec => ImplementsGate
<1>1. Init => Gate!Init
  <2> SUFFICES ASSUME Init PROVE Gate!Init
      OBVIOUS
  <2>1. phaseOf = [r \in Requests |-> "waiting"]
      BY DEF Init, phaseOf
  <2>2. questionOf = [r \in Requests |-> NoMessage]
      BY DEF Init, questionOf, Asked
  <2> QED
      BY <2>1, <2>2 DEF Gate!Init
<1>2. Base /\ Base' /\ TokensConserved /\ AtMostOnce /\ [Next]_vars
         => [Gate!Next]_(Gate!vars)
    BY GateNext
<1> QED
    BY <1>1, <1>2, SpecBase, TokensConservedAlways, AtMostOnceAlways, PTL
       DEF Spec, ImplementsGate, Gate!Spec
=============================================================================

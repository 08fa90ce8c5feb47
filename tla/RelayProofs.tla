----------------------------- MODULE RelayProofs -----------------------------
(***************************************************************************)
(* Theorems about Relay, for any number of requests, connections and       *)
(* copies and any values of the limits and times.                          *)
(*                                                                         *)
(* Two steps of a handler are special: Receive, which gives it its request,*)
(* and Remember, which may take its key.  All others are Plain: they move  *)
(* one handler and leave the cache and what was admitted alone.            *)
(***************************************************************************)
EXTENDS Relay, ProtectionProofs, SessionProofs, FiniteSetTheorems

Codes == {"none"} \union RefusedCodes \union AdmittedCodes

Fates == {"pending", "sent", "dropped"}

Keys == {m.requestID : m \in Messages}

\* Where the key of a handler has not been taken.
Unadmitted == {"idle", "received", "record_malformed", "storm_checked",
               "record_replay"}

-----------------------------------------------------------------------------
(* Types *)

Typed ==
    /\ clock \in Nat /\ clock <= MaxClock
    /\ SessionTypeOK
    /\ pc \in [Requests -> Locations]
    /\ msg \in [Requests -> Messages \union {NoMessage}]
    /\ attached \in [Requests -> BOOLEAN]
    /\ since \in [Requests -> Nat]
    /\ \A r \in Requests : since[r] <= clock
    /\ admitted \in [Requests -> Nat \union {Never}]
    /\ \A r \in Requests : admitted[r] <= clock
    /\ answer \in [Requests -> Codes]
    /\ fate \in [Requests -> Fates]
    /\ DOMAIN entries \subseteq Keys
    /\ entries \in [DOMAIN entries -> Nat]
    /\ tokens \in Int
    /\ storms \in [StormKinds -> StormState]
    /\ writer \in Requests \union {Nobody}

\* What is known of a handler by where it is. A runnable one has waited for at
\* most MaxLag.
Informed(r) ==
    /\ pc[r] # "idle" => msg[r] \in Messages
    /\ pc[r] = "idle" => answer[r] = "none"
    /\ pc[r] \in Unadmitted => admitted[r] = Never
    /\ pc[r] \in Running => clock - since[r] <= MaxLag

Base == Typed /\ \A r \in Requests : Informed(r)

\* Handler r moves to l.
Plain(r, l) ==
    /\ pc[r] # "idle" /\ l \in Locations \ {"idle", "record_replay"}
    /\ l \in Unadmitted => pc[r] \in Unadmitted
    /\ Goto(r, l)
    /\ UNCHANGED <<clock, session, msg, attached, admitted, entries>>
    /\ answer' \in [Requests -> Codes]
    /\ \A q \in Requests \ {r} : answer'[q] = answer[q]
    /\ answer'[r] = "replay_detected" =>
          pc[r] = "record_replay" \/ answer[r] = "replay_detected"
    /\ fate' \in [Requests -> Fates]
    /\ tokens' \in Int
    /\ storms' \in [StormKinds -> StormState]
    /\ writer' \in Requests \union {Nobody}

\* What the move does to the semaphore.
TokenStep(r, l) ==
    \/ /\ pc[r] \in Holding <=> l \in Holding
       /\ tokens' = tokens
    \/ /\ pc[r] \notin Holding /\ l \in Holding
       /\ tokens < Capacity /\ tokens' = tokens + 1
    \/ /\ pc[r] \in Holding /\ l \notin Holding
       /\ tokens' = tokens - 1

LEMMA LocationTypes ==
    /\ Running \subseteq Locations
    /\ Holding \subseteq Locations
    /\ {"idle", "in_directory", "answering", "writing", "done"} \subseteq Locations
BY DEF Locations, Running, Holding

LEMMA GotoEffect ==
    ASSUME Typed, NEW r \in Requests, NEW l \in Locations, Goto(r, l)
    PROVE  /\ pc' \in [Requests -> Locations]
           /\ pc'[r] = l
           /\ since' \in [Requests -> Nat]
           /\ since'[r] = (IF l \in Running THEN clock ELSE 0)
           /\ \A q \in Requests : since'[q] <= clock
           /\ \A q \in Requests \ {r} : pc'[q] = pc[q] /\ since'[q] = since[q]
BY DEF Typed, Goto

LEMMA SampledType ==
    ASSUME Typed, NEW r \in Requests, NEW now \in Sampled(r)
    PROVE  now \in Nat /\ since[r] <= now /\ now <= clock
BY DEF Typed, Sampled

-----------------------------------------------------------------------------
(* The plain steps *)

LEMMA ScreenPlain ==
    ASSUME Typed, NEW r \in Requests, Screen(r)
    PROVE  \E l \in Locations : Plain(r, l) /\ TokenStep(r, l)
<1>1. \/ Answer(r, "replay_storm_limited", "answering")
      \/ Continue(r, "storm_checked")
      \/ Answer(r, "malformed_request_storm_limited", "answering")
      \/ Continue(r, "record_malformed")
    BY DEF Screen
<1>2. UNCHANGED <<clock, session, msg, attached, admitted, fate, entries, tokens,
                  storms, writer>> /\ pc[r] = "received"
    BY DEF Screen, protection
<1> USE <1>2 DEF Plain, TokenStep, Answer, Continue, Typed, Locations, Running,
                 Holding, Unadmitted, Codes, RefusedCodes
<1>3. CASE Answer(r, "replay_storm_limited", "answering")
    BY <1>3
<1>4. CASE Continue(r, "storm_checked")
    BY <1>4
<1>5. CASE Answer(r, "malformed_request_storm_limited", "answering")
    BY <1>5
<1>6. CASE Continue(r, "record_malformed")
    BY <1>6
<1> QED
    BY <1>1, <1>3, <1>4, <1>5, <1>6

\* Recording an event of a kind and answering.
LEMMA RecordStormPlain ==
    ASSUME Typed, NEW r \in Requests, NEW kind \in StormKinds,
           NEW code \in Codes, NEW l \in {"answering", "releasing"},
           RecordStorm(r, kind, code, l),
           \/ pc[r] \in {"record_malformed", "record_replay"} /\ l = "answering"
           \/ pc[r] = "record_directory" /\ l = "releasing",
           code = "replay_detected" =>
              pc[r] = "record_replay" \/ answer[r] = "replay_detected"
    PROVE  \E k \in Locations : Plain(r, k) /\ TokenStep(r, k)
<1>1. PICK now \in Sampled(r) :
          storms' = [storms EXCEPT ![kind] = Record(storms[kind], kind, now)]
    BY DEF RecordStorm
<1>2. storms' \in [StormKinds -> StormState]
    BY <1>1, SampledType, RecordType DEF Typed
<1>3. /\ Goto(r, l) /\ answer' = [answer EXCEPT ![r] = code]
      /\ UNCHANGED <<clock, session, msg, attached, admitted, fate, entries, tokens,
                     writer>>
    BY DEF RecordStorm, Answer
<1>4. l \in Locations \ {"idle", "record_replay"} /\ l \notin Unadmitted
    BY DEF Locations, Running, Holding, Unadmitted
<1>5. Plain(r, l)
    BY <1>2, <1>3, <1>4 DEF Plain, Typed
<1>6. TokenStep(r, l)
    BY <1>3 DEF TokenStep, Holding
<1> QED
    BY <1>4, <1>5, <1>6

LEMMA AcquirePlain ==
    ASSUME Typed, NEW r \in Requests, Acquire(r)
    PROVE  \E l \in Locations : Plain(r, l) /\ TokenStep(r, l)
<1>1. pc[r] = "remembered" /\ UNCHANGED <<clock, session, msg, attached, admitted,
                                          fate, entries, storms, writer>>
    BY DEF Acquire
<1> USE <1>1 DEF Plain, TokenStep, Answer, Continue, Typed, Locations, Running,
                 Holding, Unadmitted, Codes, AdmittedCodes
<1>2. CASE tokens < Capacity
  <2>1. Plain(r, "acquired") /\ TokenStep(r, "acquired")
      BY <1>2 DEF Acquire
  <2> QED
      BY <2>1
<1>3. CASE ~ (tokens < Capacity)
  <2>1. Plain(r, "answering") /\ TokenStep(r, "answering")
      BY <1>3 DEF Acquire
  <2> QED
      BY <2>1
<1> QED
    BY <1>2, <1>3

LEMMA CheckDirectoryStormPlain ==
    ASSUME Typed, NEW r \in Requests, CheckDirectoryStorm(r)
    PROVE  \E l \in Locations : Plain(r, l) /\ TokenStep(r, l)
<1>1. /\ pc[r] = "acquired"
      /\ UNCHANGED <<clock, session, msg, attached, admitted, fate, entries, tokens,
                     storms, writer>>
    BY DEF CheckDirectoryStorm, protection
<1>2. \/ Answer(r, "directory_error_storm_limited", "releasing")
      \/ Continue(r, "in_directory")
    BY DEF CheckDirectoryStorm
<1> USE <1>1 DEF Plain, TokenStep, Answer, Continue, Typed, Locations, Running,
                 Holding, Unadmitted, Codes, AdmittedCodes
<1>3. CASE Answer(r, "directory_error_storm_limited", "releasing")
    BY <1>3
<1>4. CASE Continue(r, "in_directory")
    BY <1>4
<1> QED
    BY <1>2, <1>3, <1>4

LEMMA DirectoryReturnPlain ==
    ASSUME Typed, NEW r \in Requests, DirectoryReturn(r)
    PROVE  \E l \in Locations : Plain(r, l) /\ TokenStep(r, l)
<1>1. PICK outcome \in DirectoryOutcomes :
          Answer(r, outcome, IF outcome \in DirectoryFailures
                             THEN "record_directory" ELSE "resetting")
    BY DEF DirectoryReturn
<1>2. outcome \in Codes /\ outcome # "replay_detected"
    BY RelayOutcomesAssumption
       DEF Codes, AdmittedCodes, Verdicts, DirectoryFailures
<1>3. PICK l \in {"record_directory", "resetting"} : Answer(r, outcome, l)
    BY <1>1
<1>4. /\ pc[r] = "in_directory"
      /\ UNCHANGED <<clock, session, msg, attached, admitted, fate, entries, tokens,
                     storms, writer>>
    BY DEF DirectoryReturn, protection
<1>5. l \in Locations \ {"idle", "record_replay"} /\ l \notin Unadmitted
      /\ l \in Holding
    BY DEF Locations, Running, Holding, Unadmitted
<1>6. Plain(r, l)
    BY <1>2, <1>3, <1>4, <1>5 DEF Plain, Answer, Typed
<1> QED
    BY <1>4, <1>5, <1>6 DEF TokenStep, Holding

LEMMA SettlePlain ==
    ASSUME Typed, NEW r \in Requests, ResetDirectoryErrors(r) \/ Release(r)
    PROVE  \E l \in Locations : Plain(r, l) /\ TokenStep(r, l)
<1>1. ZeroState \in StormState
    BY DEF ZeroState, StormState, Never
<1> USE DEF Plain, TokenStep, Continue, Typed, Locations, Running, Holding,
            Unadmitted
<1>2. CASE ResetDirectoryErrors(r)
  <2>1. Plain(r, "releasing") /\ TokenStep(r, "releasing")
      BY <1>1, <1>2 DEF ResetDirectoryErrors, StormKinds
  <2> QED
      BY <2>1
<1>3. CASE Release(r)
  <2>1. Plain(r, "answering") /\ TokenStep(r, "answering")
      BY <1>3 DEF Release
  <2> QED
      BY <2>1
<1> QED
    BY <1>2, <1>3

LEMMA WritePlain ==
    ASSUME Typed, NEW r \in Requests, LockWriter(r) \/ WriteEnds(r)
    PROVE  \E l \in Locations : Plain(r, l) /\ TokenStep(r, l)
<1> USE DEF Plain, TokenStep, Continue, Typed, Locations, Running, Holding,
            Unadmitted, protection
<1>1. CASE LockWriter(r)
  <2>1. Plain(r, "writing") /\ TokenStep(r, "writing")
      BY <1>1 DEF LockWriter
  <2> QED
      BY <2>1
<1>2. CASE WriteEnds(r)
  <2>1. fate' \in [Requests -> Fates]
      BY <1>2 DEF WriteEnds, Fates
  <2>2. Plain(r, "done") /\ TokenStep(r, "done")
      BY <1>2, <2>1 DEF WriteEnds
  <2> QED
      BY <2>2
<1> QED
    BY <1>1, <1>2

\* What happens besides the handlers' steps.
Around == SessionGoesOn \/ SessionEnds \/ Cancel \/ Tick \/ UNCHANGED vars

\* Every step is one of four kinds.
LEMMA StepKinds ==
    ASSUME Typed, [Next]_vars
    PROVE  \/ \E r \in Requests, m \in Messages : Receive(r, m)
           \/ \E r \in Requests : Remember(r)
           \/ \E r \in Requests, l \in Locations : Plain(r, l) /\ TokenStep(r, l)
           \/ Around
<1>1. ASSUME NEW r \in Requests, RecordMalformed(r)
      PROVE  \E l \in Locations : Plain(r, l) /\ TokenStep(r, l)
    BY <1>1, RecordStormPlain
       DEF RecordMalformed, StormKinds, Codes, RefusedCodes
<1>2. ASSUME NEW r \in Requests, RecordReplay(r)
      PROVE  \E l \in Locations : Plain(r, l) /\ TokenStep(r, l)
    BY <1>2, RecordStormPlain DEF RecordReplay, StormKinds, Codes, RefusedCodes
<1>3. ASSUME NEW r \in Requests, RecordDirectoryError(r)
      PROVE  \E l \in Locations : Plain(r, l) /\ TokenStep(r, l)
  <2>1. answer[r] \in Codes
      BY DEF Typed
  <2> QED
      BY <1>3, <2>1, RecordStormPlain DEF RecordDirectoryError, StormKinds
<1>4. ASSUME NEW r \in Requests,
             Process(r) \/ DirectoryReturn(r) \/ LockWriter(r) \/ WriteEnds(r)
      PROVE  Remember(r) \/ \E l \in Locations : Plain(r, l) /\ TokenStep(r, l)
    BY <1>1, <1>2, <1>3, <1>4, ScreenPlain, AcquirePlain,
       CheckDirectoryStormPlain, DirectoryReturnPlain, SettlePlain, WritePlain
       DEF Process
<1> QED
    BY <1>4 DEF Next, Around

-----------------------------------------------------------------------------
(* The type invariant *)

LEMMA InitBase == Init => Base
<1> SUFFICES ASSUME Init PROVE Base
    OBVIOUS
<1>1. ZeroState \in StormState
    BY DEF ZeroState, StormState, Never
<1>2. SessionTypeOK
  <2>1. backoff \in ReconnectMin .. ReconnectMax /\ left \in 0 .. ReconnectMax
      BY ReconnectAssumption DEF Init
  <2>2. stopping \in BOOLEAN /\ peerUp \in BOOLEAN
      BY Zenon DEF Init
  <2> QED
      BY <2>1, <2>2 DEF Init, SessionTypeOK, RunLocations
<1>3. Typed
    BY <1>1, <1>2, RelayTimeAssumption
       DEF Init, Typed, Locations, Codes, Fates, Never
<1> QED
    BY <1>3 DEF Base, Informed, Init, Running, Holding

LEMMA PlainBase ==
    ASSUME Base, NEW r \in Requests, NEW l \in Locations, Plain(r, l)
    PROVE  Base'
<1>1. SessionTypeOK' = SessionTypeOK
    BY DEF Plain, session, SessionTypeOK
<1>2. Goto(r, l) /\ Typed
    BY DEF Plain, Base
<1>3. Typed'
    BY <1>1, <1>2, GotoEffect DEF Plain, Base, Typed
<1>4. Informed(r)'
    BY <1>2, GotoEffect, RelayTimeAssumption DEF Plain, Base, Typed, Informed
<1>5. ASSUME NEW q \in Requests \ {r} PROVE Informed(q)'
    BY <1>2, <1>5, GotoEffect DEF Plain, Base, Informed
<1> QED
    BY <1>3, <1>4, <1>5 DEF Base

LEMMA ReceiveBase ==
    ASSUME Base, NEW r \in Requests, NEW m \in Messages, Receive(r, m)
    PROVE  Base'
<1>1. SessionTypeOK' = SessionTypeOK
    BY DEF Receive, session, SessionTypeOK
<1>2. /\ Goto(r, "received") /\ Typed /\ "received" \in Locations
      /\ answer' = answer
    BY DEF Receive, Continue, Base, Locations, Running
<1>3. Typed'
    BY <1>1, <1>2, GotoEffect DEF Receive, Base, Typed, protection
<1>4. Informed(r)'
    BY <1>2, GotoEffect, RelayTimeAssumption
       DEF Receive, Base, Typed, Informed, Unadmitted
<1>5. ASSUME NEW q \in Requests \ {r} PROVE Informed(q)'
    BY <1>2, <1>5, GotoEffect DEF Receive, Base, Typed, Informed
<1> QED
    BY <1>3, <1>4, <1>5 DEF Base

\* The two outcomes of Remember.
LEMMA RememberEffect ==
    ASSUME Base, NEW r \in Requests, Remember(r)
    PROVE  \E now \in Sampled(r) :
              LET key == msg[r].requestID
              IN  /\ entries' = Remembered(entries, key, now)
                  /\ \/ /\ Known(entries, key, now)
                        /\ Goto(r, "record_replay") /\ admitted' = admitted
                     \/ /\ ~ Known(entries, key, now)
                        /\ Goto(r, "remembered")
                        /\ admitted' = [admitted EXCEPT ![r] = clock]
                  /\ pc[r] = "storm_checked"
                  /\ UNCHANGED <<clock, session, msg, attached, fate, tokens, storms,
                                 writer, answer>>
BY DEF Remember, Continue

LEMMA RememberBase ==
    ASSUME Base, NEW r \in Requests, Remember(r)
    PROVE  Base'
<1>1. PICK now \in Sampled(r) :
          /\ entries' = Remembered(entries, msg[r].requestID, now)
          /\ \/ Goto(r, "record_replay") /\ admitted' = admitted
             \/ /\ Goto(r, "remembered")
                /\ admitted' = [admitted EXCEPT ![r] = clock]
          /\ pc[r] = "storm_checked"
          /\ UNCHANGED <<clock, session, msg, attached, fate, tokens, storms, writer,
                         answer>>
    BY RememberEffect
<1>2. SessionTypeOK' = SessionTypeOK
    BY <1>1 DEF session, SessionTypeOK
<1>3. msg[r].requestID \in Keys
    BY <1>1 DEF Base, Informed, Keys
<1>4. DOMAIN entries' \subseteq Keys /\ entries' \in [DOMAIN entries' -> Nat]
    BY <1>1, <1>3, SampledType, RememberedType DEF Base, Typed
<1>5. "record_replay" \in Locations /\ "remembered" \in Locations
    BY DEF Locations, Running
<1>6. Typed
    BY DEF Base
<1>7. /\ admitted' \in [Requests -> Nat \union {Never}]
      /\ \A q \in Requests : admitted'[q] <= clock
    BY <1>1 DEF Base, Typed
<1>8. Typed'
    BY <1>1, <1>2, <1>4, <1>5, <1>6, <1>7, GotoEffect DEF Typed
<1>9. Informed(r)'
    BY <1>1, <1>5, <1>6, GotoEffect, RelayTimeAssumption
       DEF Base, Typed, Informed, Unadmitted, Running
<1>10. ASSUME NEW q \in Requests \ {r} PROVE Informed(q)'
    BY <1>1, <1>5, <1>6, <1>10, GotoEffect DEF Base, Typed, Informed
<1> QED
    BY <1>8, <1>9, <1>10 DEF Base

LEMMA AroundBase ==
    ASSUME Base, Around
    PROVE  Base'
<1> USE DEF Base, handlers, protection
<1>1. CASE SessionGoesOn
  <2>1. SessionTypeOK'
      BY <1>1, SessionTypes DEF SessionGoesOn, Typed
  <2> QED
      BY <1>1, <2>1 DEF SessionGoesOn, Typed, Informed
<1>2. CASE SessionEnds
  <2>1. SessionTypeOK'
      BY <1>2, SessionTypes DEF SessionEnds, Typed
  <2> QED
      BY <1>2, <2>1 DEF SessionEnds, Typed, Informed
<1>3. CASE Cancel
  <2>1. SessionTypeOK'
      BY <1>3 DEF Cancel, SessionTypeOK, Typed
  <2> QED
      BY <1>3, <2>1 DEF Cancel, Typed, Informed
<1>4. CASE Tick
  <2>1. SessionTypeOK'
      BY <1>4, SessionTypes DEF Tick, Typed
  <2>2. clock' \in Nat /\ clock' <= MaxClock /\ clock <= clock'
      BY <1>4, RelayTimeAssumption DEF Tick, Typed
  <2>3. /\ \A r \in Requests : since[r] <= clock'
        /\ \A r \in Requests : admitted[r] <= clock'
      BY <2>2 DEF Typed, Never
  <2>4. Typed'
      BY <1>4, <2>1, <2>2, <2>3 DEF Tick, Typed
  <2>5. ASSUME NEW r \in Requests PROVE Informed(r)'
      BY <1>4, <2>5, RelayTimeAssumption DEF Tick, Typed, Informed
  <2> QED
      BY <2>4, <2>5
<1>5. CASE UNCHANGED vars
    BY <1>5 DEF vars, session, SessionTypeOK, Typed, Informed
<1> QED
    BY <1>1, <1>2, <1>3, <1>4, <1>5 DEF Around

LEMMA NextBase == Base /\ [Next]_vars => Base'
<1> SUFFICES ASSUME Base, [Next]_vars PROVE Base'
    OBVIOUS
<1> QED
    BY StepKinds, ReceiveBase, RememberBase, PlainBase, AroundBase DEF Base

LEMMA SpecBase == Spec => []Base
BY InitBase, NextBase, PTL DEF Spec

-----------------------------------------------------------------------------
(* The semaphore *)

LEMMA HoldersFinite == IsFiniteSet(Holders) /\ Cardinality(Holders) \in Nat
<1>1. Holders \in SUBSET Requests
    BY DEF Holders
<1> QED
    BY <1>1, FS_Subset, FS_CardinalityType, RelayRequestsAssumption

\* A step after which the same handlers hold a token.
LEMMA SameHolders ==
    ASSUME TokensConserved, UNCHANGED tokens,
           \A r \in Requests : pc[r] \in Holding <=> pc'[r] \in Holding
    PROVE  TokensConserved'
<1>1. Holders' = Holders
    BY DEF Holders, Holding
<1> QED
    BY <1>1 DEF TokensConserved

LEMMA PlainTokens ==
    ASSUME Base, TokensConserved, NEW r \in Requests, NEW l \in Locations,
           Plain(r, l), TokenStep(r, l)
    PROVE  TokensConserved'
<1>1. pc'[r] = l /\ \A q \in Requests \ {r} : pc'[q] = pc[q]
    BY GotoEffect DEF Plain, Base
<1>2. Capacity \in Nat /\ tokens = Cardinality(Holders) /\ tokens <= Capacity
    BY RelayCapacityAssumption DEF TokensConserved
<1>3. CASE tokens' = tokens /\ (pc[r] \in Holding <=> l \in Holding)
    BY <1>1, <1>3, SameHolders
<1>4. CASE /\ pc[r] \notin Holding /\ l \in Holding
           /\ tokens < Capacity /\ tokens' = tokens + 1
  <2>1. Holders' = Holders \union {r} /\ r \notin Holders
      BY <1>1, <1>4 DEF Holders, Holding
  <2>2. Cardinality(Holders') = Cardinality(Holders) + 1
      BY <2>1, HoldersFinite, FS_AddElement
  <2> QED
      BY <1>2, <1>4, <2>2, HoldersFinite DEF TokensConserved
<1>5. CASE pc[r] \in Holding /\ l \notin Holding /\ tokens' = tokens - 1
  <2>1. Holders' = Holders \ {r} /\ r \in Holders
      BY <1>1, <1>5 DEF Holders, Holding
  <2>2. Cardinality(Holders') = Cardinality(Holders) - 1
      BY <2>1, HoldersFinite, FS_RemoveElement
  <2> QED
      BY <1>2, <1>5, <2>2, HoldersFinite DEF TokensConserved
<1> QED
    BY <1>3, <1>4, <1>5 DEF TokenStep

LEMMA NextTokens == Base /\ TokensConserved /\ [Next]_vars => TokensConserved'
<1> SUFFICES ASSUME Base, TokensConserved, [Next]_vars PROVE TokensConserved'
    OBVIOUS
<1> USE DEF Holding
<1>1. ASSUME NEW r \in Requests, NEW m \in Messages, Receive(r, m)
      PROVE  TokensConserved'
  <2>1. "received" \in Locations
      BY DEF Locations, Running
  <2> QED
      BY <1>1, <2>1, GotoEffect, SameHolders DEF Receive, Continue, protection, Base
<1>2. ASSUME NEW r \in Requests, Remember(r) PROVE TokensConserved'
  <2>1. "record_replay" \in Locations /\ "remembered" \in Locations
      BY DEF Locations, Running
  <2>2. Goto(r, "record_replay") \/ Goto(r, "remembered")
      BY <1>2 DEF Remember, Continue
  <2>3. tokens' = tokens /\ pc[r] = "storm_checked"
      BY <1>2 DEF Remember
  <2> QED
      BY <2>1, <2>2, <2>3, GotoEffect, SameHolders DEF Base
<1>3. ASSUME Around PROVE TokensConserved'
  <2>1. UNCHANGED <<pc, tokens>>
      BY <1>3 DEF Around, SessionGoesOn, SessionEnds, Cancel, Tick, vars, handlers,
                  protection
  <2> QED
      BY <2>1, SameHolders
<1> QED
    BY <1>1, <1>2, <1>3, StepKinds, PlainTokens DEF Base

\* The semaphore of the relay client counts the handlers that hold a token, over
\* any number of connections and on every path out of processVerifyRequest.
THEOREM TokensConservedAlways == Spec => []TokensConserved
<1>1. Init => TokensConserved
  <2> SUFFICES ASSUME Init PROVE TokensConserved
      OBVIOUS
  <2>1. Holders = {}
      BY DEF Init, Holders, Holding
  <2>2. Cardinality({}) = 0
      BY FS_EmptySet
  <2> QED
      BY <2>1, <2>2, RelayCapacityAssumption DEF Init, TokensConserved
<1>2. TokensConserved /\ Base /\ [Next]_vars => TokensConserved'
    BY NextTokens
<1> QED
    BY <1>1, <1>2, SpecBase, PTL DEF Spec

\* The state of the relay client has its types; that the semaphore never counts
\* below zero rests on TokensConserved.
THEOREM TypeCorrect == Spec => []TypeOK
<1>1. Base /\ TokensConserved => TypeOK
  <2> SUFFICES ASSUME Base, TokensConserved PROVE TypeOK
      OBVIOUS
  <2>1. tokens \in Nat
      BY HoldersFinite DEF TokensConserved
  <2>2. clock \in 0 .. MaxClock
      BY RelayTimeAssumption DEF Base, Typed
  <2>3. since \in [Requests -> 0 .. clock]
      BY DEF Base, Typed
  <2>4. admitted \in [Requests -> {Never} \union 0 .. clock]
      BY DEF Base, Typed, Never
  <2> QED
      BY <2>1, <2>2, <2>3, <2>4 DEF Base, Typed, TypeOK, Codes, Fates, Keys
<1> QED
    BY <1>1, SpecBase, TokensConservedAlways, PTL

-----------------------------------------------------------------------------
(* Replays *)

\* Until this instant the cache must know the key of r.
Due(r) == admitted[r] + Ttl - MaxLag

\* The key of an admitted handler is in the cache until it is due to go.
Kept(r) ==
    admitted[r] # Never =>
        \/ clock > Due(r)
        \/ /\ msg[r].requestID \in DOMAIN entries
           /\ entries[msg[r].requestID] >= Due(r)

\* Another handler was admitted with the key k.
TakenBefore(k, r) ==
    \E q \in Requests \ {r} : admitted[q] # Never /\ msg[q].requestID = k

\* Every key in the cache is that of a handler that was admitted.
Backed ==
    \A k \in DOMAIN entries :
        \E q \in Requests : admitted[q] # Never /\ msg[q].requestID = k

\* A handler that answers, or is about to answer, that its request is a replay.
Witnessed(r) ==
    pc[r] = "record_replay" \/ answer[r] = "replay_detected"
        => TakenBefore(msg[r].requestID, r)

ReplayInv ==
    /\ \A r \in Requests : Kept(r) /\ Witnessed(r)
    /\ Backed
    /\ AtMostOncePerTtl

LEMMA TimesType ==
    ASSUME Typed, NEW r \in Requests, admitted[r] # Never
    PROVE  admitted[r] \in Nat /\ Due(r) \in Int /\ clock \in Int
BY TtlAssumption, RelayTimeAssumption DEF Typed, Due

\* A step that leaves the cache, the admissions and the admitted requests alone.
LEMMA QuietReplay ==
    ASSUME Base, ReplayInv, UNCHANGED <<admitted, entries>>,
           clock' \in Nat, clock <= clock',
           \A r \in Requests : admitted[r] # Never => msg'[r] = msg[r],
           \A r \in Requests : Witnessed(r)'
    PROVE  ReplayInv'
<1>1. ASSUME NEW r \in Requests PROVE Kept(r)'
  <2>1. CASE admitted[r] = Never
      BY <2>1 DEF Kept
  <2>2. CASE admitted[r] # Never
    <3>1. Kept(r) /\ Due(r)' = Due(r) /\ msg'[r] = msg[r]
        BY <2>2 DEF ReplayInv, Due
    <3>2. clock > Due(r) => clock' > Due(r)
        BY <2>2, TimesType DEF Base
    <3> QED
        BY <2>2, <3>1, <3>2 DEF Kept
  <2> QED
      BY <2>1, <2>2
<1>2. Backed'
    BY DEF ReplayInv, Backed
<1>3. AtMostOncePerTtl'
    BY DEF ReplayInv, AtMostOncePerTtl
<1> QED
    BY <1>1, <1>2, <1>3 DEF ReplayInv

LEMMA PlainReplay ==
    ASSUME Base, ReplayInv, NEW r \in Requests, NEW l \in Locations, Plain(r, l)
    PROVE  ReplayInv'
<1>1. /\ pc'[r] = l /\ l # "record_replay"
      /\ \A q \in Requests \ {r} : pc'[q] = pc[q] /\ answer'[q] = answer[q]
      /\ answer'[r] = "replay_detected" =>
            pc[r] = "record_replay" \/ answer[r] = "replay_detected"
      /\ UNCHANGED <<clock, msg, admitted, entries>>
    BY GotoEffect DEF Plain, Base
<1>2. ASSUME NEW q \in Requests PROVE Witnessed(q)'
  <2>1. Witnessed(q)
      BY DEF ReplayInv
  <2>2. pc'[q] = "record_replay" \/ answer'[q] = "replay_detected" =>
            pc[q] = "record_replay" \/ answer[q] = "replay_detected"
      BY <1>1
  <2> QED
      BY <1>1, <2>1, <2>2 DEF Witnessed, TakenBefore
<1>3. clock' \in Nat /\ clock <= clock'
    BY <1>1 DEF Base, Typed
<1> QED
    BY <1>1, <1>2, <1>3, QuietReplay

LEMMA ReceiveReplay ==
    ASSUME Base, ReplayInv, NEW r \in Requests, NEW m \in Messages, Receive(r, m)
    PROVE  ReplayInv'
<1>1. "received" \in Locations
    BY DEF Locations, Running
<1>2. /\ pc[r] = "idle" /\ pc'[r] = "received" /\ answer[r] = "none"
      /\ admitted[r] = Never
      /\ \A q \in Requests \ {r} : pc'[q] = pc[q] /\ msg'[q] = msg[q]
      /\ UNCHANGED <<clock, admitted, entries, answer>>
    BY <1>1, GotoEffect
       DEF Receive, Continue, protection, Base, Typed, Informed, Unadmitted
<1>3. ASSUME NEW q \in Requests PROVE Witnessed(q)'
  <2>1. CASE q = r
      BY <1>2, <2>1 DEF Witnessed
  <2>2. CASE q # r
    <3>1. Witnessed(q)
        BY DEF ReplayInv
    <3>2. pc[q] = "record_replay" \/ answer[q] = "replay_detected" =>
              TakenBefore(msg[q].requestID, q)
        BY <3>1 DEF Witnessed
    <3>3. TakenBefore(msg[q].requestID, q) => TakenBefore(msg[q].requestID, q)'
        BY <1>2, <2>2 DEF TakenBefore
    <3> QED
        BY <1>2, <2>2, <3>2, <3>3 DEF Witnessed
  <2> QED
      BY <2>1, <2>2
<1>4. clock' \in Nat /\ clock <= clock'
    BY <1>2 DEF Base, Typed
<1> QED
    BY <1>2, <1>3, <1>4, QuietReplay

LEMMA RememberReplay ==
    ASSUME Base, ReplayInv, NEW r \in Requests, Remember(r)
    PROVE  ReplayInv'
<1> DEFINE key == msg[r].requestID
<1>1. PICK now \in Sampled(r) :
          /\ entries' = Remembered(entries, key, now)
          /\ \/ /\ Known(entries, key, now)
                /\ Goto(r, "record_replay") /\ admitted' = admitted
             \/ /\ ~ Known(entries, key, now)
                /\ Goto(r, "remembered")
                /\ admitted' = [admitted EXCEPT ![r] = clock]
          /\ pc[r] = "storm_checked"
          /\ UNCHANGED <<clock, msg, answer>>
    BY RememberEffect
<1>2. now \in Nat /\ now <= clock /\ clock - now <= MaxLag
  <2>1. clock - since[r] <= MaxLag
      BY <1>1 DEF Base, Informed, Running
  <2>2. since[r] \in Nat /\ clock \in Nat /\ MaxLag \in Nat
      BY RelayTimeAssumption DEF Base, Typed
  <2> QED
      BY <2>1, <2>2, SampledType DEF Base
<1>3. "record_replay" \in Locations /\ "remembered" \in Locations
    BY DEF Locations, Running
<1>4. admitted[r] = Never /\ admitted \in [Requests -> Nat \union {Never}]
      /\ clock \in Nat /\ Typed
    BY <1>1 DEF Base, Typed, Informed, Unadmitted
<1>5. \A k \in DOMAIN entries :
          /\ ~ (now > entries[k]) => /\ k \in DOMAIN entries'
                                     /\ entries'[k] = entries[k]
          /\ entries[k] \in Nat
    BY <1>1, RememberedKeeps DEF Base, Typed
<1>6. ASSUME NEW q \in Requests, admitted[q] # Never
      PROVE  \/ clock > Due(q)
             \/ /\ msg[q].requestID \in DOMAIN entries'
                /\ entries'[msg[q].requestID] >= Due(q)
  <2>1. Kept(q) /\ Due(q) \in Int
      BY <1>6, <1>4, TimesType DEF ReplayInv
  <2>2. CASE clock > Due(q)
      BY <2>2
  <2>3. CASE /\ msg[q].requestID \in DOMAIN entries
             /\ entries[msg[q].requestID] >= Due(q)
    <3>1. PICK e \in Nat : e = entries[msg[q].requestID]
        BY <1>5, <2>3
    <3>2. now > e => clock > Due(q)
        BY <1>2, <1>4, <2>1, <2>3, <3>1
    <3> QED
        BY <1>5, <2>3, <3>1, <3>2
  <2> QED
      BY <1>6, <2>1, <2>2, <2>3 DEF Kept
<1>7. CASE Known(entries, key, now) /\ Goto(r, "record_replay") /\ admitted' = admitted
  <2>1. pc'[r] = "record_replay" /\ \A q \in Requests \ {r} : pc'[q] = pc[q]
      BY <1>3, <1>4, <1>7, GotoEffect
  <2>2. ASSUME NEW q \in Requests PROVE Kept(q)'
      BY <1>1, <1>6, <1>7 DEF Kept, Due
  <2>3. key \in DOMAIN entries /\ DOMAIN entries' \subseteq DOMAIN entries
      BY <1>1, <1>7, RememberedKeeps
  <2>4. Backed'
      BY <1>1, <1>7, <2>3 DEF ReplayInv, Backed
  <2>5. TakenBefore(key, r)'
    <3>1. PICK q \in Requests : admitted[q] # Never /\ msg[q].requestID = key
        BY <2>3 DEF ReplayInv, Backed
    <3>2. q \in Requests \ {r}
        BY <1>4, <3>1
    <3> QED
        BY <1>1, <1>7, <3>1, <3>2 DEF TakenBefore
  <2>6. ASSUME NEW q \in Requests PROVE Witnessed(q)'
    <3>1. CASE q = r
        BY <1>1, <2>5, <3>1 DEF Witnessed, TakenBefore
    <3>2. CASE q # r
      <4>1. Witnessed(q)
          BY DEF ReplayInv
      <4> QED
          BY <1>1, <1>7, <2>1, <3>2, <4>1 DEF Witnessed, TakenBefore
    <3> QED
        BY <3>1, <3>2
  <2>7. AtMostOncePerTtl'
      BY <1>1, <1>7 DEF ReplayInv, AtMostOncePerTtl
  <2> QED
      BY <2>2, <2>4, <2>6, <2>7 DEF ReplayInv
<1>8. CASE /\ ~ Known(entries, key, now) /\ Goto(r, "remembered")
           /\ admitted' = [admitted EXCEPT ![r] = clock]
  <2>1. pc'[r] = "remembered" /\ \A q \in Requests \ {r} : pc'[q] = pc[q]
      BY <1>3, <1>4, <1>8, GotoEffect
  <2>2. /\ admitted'[r] = clock /\ clock # Never
        /\ \A q \in Requests \ {r} : admitted'[q] = admitted[q]
      BY <1>4, <1>8 DEF Never
  <2>3. /\ key \in DOMAIN entries' /\ entries'[key] = now + Ttl
        /\ DOMAIN entries' \subseteq DOMAIN entries \union {key}
        /\ key \in DOMAIN entries => now > entries[key]
      BY <1>1, <1>8, RememberedKeeps
  <2>4. Kept(r)'
    <3>1. now + Ttl >= clock + Ttl - MaxLag
        BY <1>2, <1>4, TtlAssumption, RelayTimeAssumption
    <3> QED
        BY <1>1, <2>2, <2>3, <3>1 DEF Kept, Due
  <2>5. ASSUME NEW q \in Requests \ {r} PROVE Kept(q)'
      BY <1>1, <1>6, <2>2 DEF Kept, Due
  <2>6. Backed'
    <3> SUFFICES ASSUME NEW k \in DOMAIN entries'
                 PROVE  \E q \in Requests : admitted'[q] # Never
                                               /\ msg'[q].requestID = k
        BY DEF Backed
    <3>1. CASE k = key
        BY <1>1, <2>2, <3>1
    <3>2. CASE k \in DOMAIN entries
      <4>1. PICK q \in Requests : admitted[q] # Never /\ msg[q].requestID = k
          BY <3>2 DEF ReplayInv, Backed
      <4>2. q # r
          BY <1>4, <4>1
      <4> QED
          BY <1>1, <2>2, <4>1, <4>2
    <3> QED
        BY <2>3, <3>1, <3>2
  <2>7. ASSUME NEW q \in Requests PROVE Witnessed(q)'
    <3>1. Witnessed(q)
        BY DEF ReplayInv
    <3>2. pc'[q] = "record_replay" \/ answer'[q] = "replay_detected" =>
              TakenBefore(msg[q].requestID, q)
        BY <1>1, <2>1, <3>1 DEF Witnessed
    <3>3. TakenBefore(msg[q].requestID, q) => TakenBefore(msg[q].requestID, q)'
        BY <1>1, <2>2 DEF TakenBefore
    <3> QED
        BY <1>1, <3>2, <3>3 DEF Witnessed
  <2>8. ASSUME NEW q \in Requests \ {r}, admitted[q] # Never,
               msg[q].requestID = key
        PROVE  clock - admitted[q] > Ttl - MaxLag
    <3>1. Kept(q) /\ Due(q) \in Int /\ admitted[q] \in Nat
        BY <1>4, <2>8, TimesType DEF ReplayInv
    <3>2. clock > Due(q)
      <4>1. CASE key \in DOMAIN entries /\ entries[key] >= Due(q)
        <5>1. PICK e \in Nat : e = entries[key]
            BY <1>5, <4>1
        <5> QED
            BY <1>2, <1>4, <2>3, <3>1, <4>1, <5>1
      <4> QED
          BY <2>8, <3>1, <4>1 DEF Kept
    <3> QED
        BY <1>4, <3>1, <3>2, TtlAssumption, RelayTimeAssumption DEF Due
  <2>9. AtMostOncePerTtl'
    <3> SUFFICES ASSUME NEW p \in Requests, NEW q \in Requests, p # q,
                        admitted'[p] # Never, admitted'[q] # Never,
                        msg[p].requestID = msg[q].requestID
                 PROVE  \/ admitted'[p] - admitted'[q] > Ttl - MaxLag
                        \/ admitted'[q] - admitted'[p] > Ttl - MaxLag
        BY <1>1 DEF AtMostOncePerTtl
    <3>1. CASE p = r
        BY <2>2, <2>8, <3>1
    <3>2. CASE q = r
        BY <2>2, <2>8, <3>2
    <3>3. CASE p # r /\ q # r
        BY <2>2, <3>3 DEF ReplayInv, AtMostOncePerTtl
    <3> QED
        BY <3>1, <3>2, <3>3
  <2> QED
      BY <2>4, <2>5, <2>6, <2>7, <2>9 DEF ReplayInv
<1> QED
    BY <1>1, <1>7, <1>8

LEMMA NextReplay == Base /\ ReplayInv /\ [Next]_vars => ReplayInv'
<1> SUFFICES ASSUME Base, ReplayInv, [Next]_vars PROVE ReplayInv'
    OBVIOUS
<1>1. ASSUME Around PROVE ReplayInv'
  <2>1. UNCHANGED <<pc, msg, admitted, entries, answer>>
      BY <1>1 DEF Around, SessionGoesOn, SessionEnds, Cancel, Tick, vars, handlers,
                  protection
  <2>2. clock' = clock \/ clock' = clock + 1
      BY <1>1 DEF Around, SessionGoesOn, SessionEnds, Cancel, Tick, vars
  <2>3. clock' \in Nat /\ clock <= clock'
      BY <2>2 DEF Base, Typed
  <2>4. ASSUME NEW r \in Requests PROVE Witnessed(r)'
    <3>1. Witnessed(r)
        BY DEF ReplayInv
    <3> QED
        BY <2>1, <3>1 DEF Witnessed, TakenBefore
  <2> QED
      BY <2>1, <2>3, <2>4, QuietReplay
<1> QED
    BY <1>1, StepKinds, ReceiveReplay, RememberReplay, PlainReplay DEF Base

LEMMA SpecReplay == Spec => []ReplayInv
<1>1. Init => ReplayInv
    BY DEF Init, ReplayInv, Kept, Witnessed, Backed, AtMostOncePerTtl
<1> QED
    BY <1>1, NextReplay, SpecBase, PTL DEF Spec

\* Copies of one request are admitted at most once within the lifetime of a key,
\* less one pause of a handler, however they are spread over connections.
THEOREM AtMostOncePerTtlAlways == Spec => []AtMostOncePerTtl
<1>1. ReplayInv => AtMostOncePerTtl
    BY DEF ReplayInv
<1> QED
    BY <1>1, SpecReplay, PTL

\* A request is refused as a replay only if a copy of it was admitted.
THEOREM NoFalseReplayAlways == Spec => []NoFalseReplay
<1>1. ReplayInv => NoFalseReplay
    BY DEF ReplayInv, Witnessed, TakenBefore, NoFalseReplay
<1> QED
    BY <1>1, SpecReplay, PTL
=============================================================================

---------------------------- MODULE ServeProofs ----------------------------
(***************************************************************************)
(* What Serve guarantees for every set of configurations and of ids and    *)
(* every length, delay and number of starts: its state is well typed,      *)
(* Authrim sees one identity, which is stored, and a configuration that is *)
(* accepted meets the assumptions of the other modules.                    *)
(*                                                                         *)
(* The invariant follows the id through the start: nothing is registered   *)
(* before the file is complete, and from then on memory, file and Authrim  *)
(* agree.                                                                  *)
(***************************************************************************)
EXTENDS Serve, SessionProofs

FullId == [id : Ids, length : {IdLength}]

\* loadOrCreateInstanceID is at work on a new id, which nobody has seen.
Creating ==
    /\ phase \in {"opening", "writing"} => instanceID \in FullId /\ registered = {}
    /\ phase = "opening" => idFile = NoFile
    /\ phase = "writing" => /\ idFile \in [id : Ids, length : 0 .. IdLength]
                            /\ idFile.id = instanceID.id

\* It has returned an id, which is in the file.
Identified ==
    phase \in {"relay", "heartbeat"} \union Up =>
        idFile \in Complete /\ instanceID = Stored(idFile.id, IdLength)

\* What Authrim was sent is the id in the file.
Agreed ==
    /\ registered # {} => idFile \in Complete
    /\ \A i \in registered : i = Stored(idFile.id, IdLength)

\* The clients run only when there is an id.
ClientsHaveId ==
    /\ run # "off" => phase \in {"heartbeat"} \union Up
    /\ beat # "off" => phase \in Up

\* The process runs with a configuration that was accepted.
Accepted == phase # "down" => Valid(cfg)

IInv == TypeOK /\ Creating /\ Identified /\ Agreed /\ ClientsHaveId /\ Accepted

-----------------------------------------------------------------------------
(* The identity *)

LEMMA CompleteHasId ==
    ASSUME NEW f \in Complete
    PROVE  f # NoFile /\ f.id \in Ids /\ f \in [id : Ids, length : 0 .. IdLength + 1]
BY ServeAssumption DEF Complete, Stored

LEMMA InitIInv == Init => IInv
<1> SUFFICES ASSUME Init PROVE IInv
    OBVIOUS
<1>1. stopping \in BOOLEAN /\ peerUp \in BOOLEAN /\ busy \in BOOLEAN
    BY Zenon DEF Init
<1>2. backoff \in ReconnectMin .. ReconnectMax /\ left \in 0 .. ReconnectMax
    BY ReconnectAssumption DEF Init
<1>3. deadline \in 0 .. ShutdownTimeout /\ starts \in 0 .. MaxStarts
    BY ServeAssumption DEF Init
<1>4. TypeOK
    BY <1>1, <1>2, <1>3 DEF Init, TypeOK, Phases, SessionTypeOK, RunLocations
<1> QED
    BY <1>4 DEF Init, IInv, Creating, Identified, Agreed, ClientsHaveId, Accepted, Up

\* However the process ends, what is stored and what was registered stay.
LEMMA ExitKeeps ==
    ASSUME IInv, Exit
    PROVE  IInv'
<1>1. stopping' \in BOOLEAN /\ peerUp' \in BOOLEAN /\ busy' \in BOOLEAN
    BY Zenon DEF Exit, IInv, TypeOK, SessionTypeOK
<1>2. backoff' \in ReconnectMin .. ReconnectMax /\ left' \in 0 .. ReconnectMax
    BY ReconnectAssumption DEF Exit
<1>3. deadline' \in 0 .. ShutdownTimeout
    BY ServeAssumption DEF Exit
<1>4. TypeOK'
    BY <1>1, <1>2, <1>3
    DEF Exit, IInv, TypeOK, Phases, SessionTypeOK, RunLocations
<1>5. Agreed'
    BY DEF IInv, Exit, Agreed
<1> QED
    BY <1>4, <1>5
    DEF Exit, IInv, Creating, Identified, ClientsHaveId, Accepted, Up

\* The configurations that Start loads.
LEMMA StartKeeps ==
    ASSUME IInv, Start
    PROVE  IInv'
<1>1. /\ phase = "down" /\ phase' \in {"down", "identifying"}
      /\ cfg' \in {NoConfig} \union {ApplyDefaults(r) : r \in RawConfigs}
      /\ phase' # "down" => Valid(cfg)'
  <2>1. CASE UNCHANGED <<phase, cfg>>
    BY <2>1 DEF Start, IInv, TypeOK
  <2>2. CASE \E raw \in RawConfigs :
               /\ Valid(ApplyDefaults(raw))
               /\ phase' = "identifying" /\ cfg' = ApplyDefaults(raw)
    BY <2>2 DEF Start, Valid
  <2> QED
    BY <2>1, <2>2 DEF Start
<1>2. starts' \in 0 .. MaxStarts
    BY ServeAssumption DEF Start, IInv, TypeOK
<1>3. TypeOK'
    BY <1>1, <1>2
    DEF Start, IInv, TypeOK, Phases, heartbeat, identity, server, session,
        SessionTypeOK
<1>4. Agreed'
    BY DEF IInv, Start, Agreed, identity
<1>5. ClientsHaveId'
    BY <1>1 DEF IInv, Start, ClientsHaveId, heartbeat, session, Up
<1> QED
    BY <1>1, <1>3, <1>4, <1>5 DEF IInv, Creating, Identified, Accepted, Up

\* An id is generated only when none is registered.
LEMMA ReadIdKeeps ==
    ASSUME IInv, ReadId
    PROVE  IInv'
<1>1. CASE idFile = NoFile
  <2>1. registered = {}
    BY <1>1, CompleteHasId DEF IInv, Agreed
  <2>2. phase' = "opening" /\ instanceID' \in FullId
    BY <1>1 DEF ReadId, Stored, FullId
  <2> QED
    BY <1>1, <2>1, <2>2
    DEF ReadId, IInv, TypeOK, Phases, Creating, Identified, Agreed, ClientsHaveId,
        Accepted, Up, FullId, heartbeat, server, session, SessionTypeOK, Valid
<1>2. CASE idFile # NoFile
  <2>1. /\ idFile \in [id : Ids, length : 0 .. IdLength + 1]
        /\ idFile.length >= IdLength
        /\ instanceID' = Stored(idFile.id, IdLength) /\ phase' = "relay"
    BY <1>2 DEF IInv, TypeOK, ReadId
  <2>2. idFile.length \in {IdLength, IdLength + 1}
    BY <2>1, ServeAssumption
  <2>3. idFile = Stored(idFile.id, idFile.length) /\ idFile.id \in Ids
    BY <2>1 DEF Stored
  <2>4. idFile \in Complete /\ instanceID' \in FullId
    BY <2>1, <2>2, <2>3 DEF Complete, Stored, FullId
  <2> QED
    BY <2>1, <2>4
    DEF ReadId, IInv, TypeOK, Phases, Creating, Identified, Agreed, ClientsHaveId,
        Accepted, Up, FullId, heartbeat, server, session, SessionTypeOK, Valid
<1> QED
    BY <1>1, <1>2

\* The file grows; the last part completes it.
LEMMA StoreKeeps ==
    ASSUME IInv, OpenFile \/ Write
    PROVE  IInv'
<1>0. /\ registered = {} /\ registered' = {} /\ instanceID \in FullId
      /\ instanceID' = instanceID /\ instanceID.id \in Ids
      /\ instanceID = Stored(instanceID.id, IdLength)
    BY DEF IInv, Creating, OpenFile, Write, FullId, Stored
<1>1. CASE OpenFile
  <2>1. idFile' \in [id : Ids, length : 0 .. IdLength] /\ idFile'.id = instanceID.id
    BY <1>0, <1>1, ServeAssumption DEF OpenFile, Stored
  <2>2. idFile' \in [id : Ids, length : 0 .. IdLength + 1]
    BY <2>1, ServeAssumption
  <2> QED
    BY <1>0, <1>1, <2>1, <2>2
    DEF OpenFile, IInv, TypeOK, Phases, Creating, Identified, Agreed, ClientsHaveId,
        Accepted, Up, FullId, heartbeat, server, session, SessionTypeOK, Valid
<1>2. CASE Write
  <2>0. idFile \in [id : Ids, length : 0 .. IdLength]
    BY <1>2 DEF Write, IInv, Creating
  <2> PICK n \in idFile.length + 1 .. IdLength + 1 :
          /\ idFile' = Stored(instanceID.id, n)
          /\ phase' = IF n = IdLength + 1 THEN "relay" ELSE "writing"
    BY <1>2 DEF Write
  <2>1. n \in 1 .. IdLength + 1
    BY <2>0, ServeAssumption
  <2>2. idFile' \in [id : Ids, length : 0 .. IdLength + 1] /\ idFile'.id = instanceID.id
    BY <1>0, <2>1, ServeAssumption DEF Stored
  <2>3. CASE n = IdLength + 1
    <3>1. idFile' \in Complete /\ phase' = "relay"
      BY <1>0, <2>3 DEF Complete
    <3> QED
      BY <1>0, <1>2, <2>2, <3>1
      DEF Write, IInv, TypeOK, Phases, Creating, Identified, Agreed, ClientsHaveId,
          Accepted, Up, FullId, heartbeat, server, session, SessionTypeOK, Valid
  <2>4. CASE n # IdLength + 1
    <3>1. idFile' \in [id : Ids, length : 0 .. IdLength] /\ phase' = "writing"
      BY <1>0, <2>1, <2>4, ServeAssumption DEF Stored
    <3> QED
      BY <1>0, <1>2, <2>2, <3>1
      DEF Write, IInv, TypeOK, Phases, Creating, Identified, Agreed, ClientsHaveId,
          Accepted, Up, FullId, heartbeat, server, session, SessionTypeOK, Valid
  <2> QED
    BY <2>3, <2>4
<1> QED
    BY <1>1, <1>2

\* The parts of the invariant that a step does not touch, when it changes neither
\* the configuration nor the file.
LEMMA IdentityKept ==
    ASSUME IInv, UNCHANGED <<cfg, idFile, instanceID, registered>>,
           \/ phase' = phase
           \/ /\ phase \in {"relay", "heartbeat"} \union Up
              /\ phase' \in {"heartbeat"} \union Up
    PROVE  Creating' /\ Identified' /\ Agreed' /\ Accepted'
<1>1. Creating'
    BY DEF IInv, Creating, Up
<1>2. Identified'
    BY DEF IInv, Identified, Up
<1>3. Agreed'
    BY DEF IInv, Agreed
<1>4. Accepted'
    BY DEF IInv, Accepted, Up, Valid
<1> QED
    BY <1>1, <1>2, <1>3, <1>4

LEMMA ClientsStart ==
    ASSUME IInv, StartRelayClients \/ StartHeartbeatClients
    PROVE  IInv'
<1>1. Creating' /\ Identified' /\ Agreed' /\ Accepted'
    BY IdentityKept DEF StartRelayClients, StartHeartbeatClients, identity, Up
<1>2. CASE StartRelayClients
  <2>1. SessionTypeOK'
    BY <1>2, ReconnectAssumption
    DEF StartRelayClients, SessionBegins, IInv, TypeOK, SessionTypeOK, RunLocations
  <2>2. TypeOK'
    BY <1>2, <2>1 DEF StartRelayClients, IInv, TypeOK, Phases, heartbeat, identity,
            server
  <2>3. ClientsHaveId'
    BY <1>2 DEF StartRelayClients, IInv, ClientsHaveId, heartbeat, Up
  <2> QED
    BY <1>1, <2>2, <2>3 DEF IInv
<1>3. CASE StartHeartbeatClients
  <2>1. TypeOK'
    BY <1>3 DEF StartHeartbeatClients, IInv, TypeOK, Phases, Up, identity, server,
            session, SessionTypeOK
  <2>2. ClientsHaveId'
    BY <1>3 DEF StartHeartbeatClients, IInv, ClientsHaveId, session, Up
  <2> QED
    BY <1>1, <2>1, <2>2 DEF IInv
<1> QED
    BY <1>2, <1>3

LEMMA StopKeeps ==
    ASSUME IInv, Connection \/ Stop
    PROVE  IInv'
<1>1. Creating' /\ Identified' /\ Agreed' /\ Accepted'
    BY IdentityKept DEF Connection, Stop, identity, process, Up
<1>2. SessionTypeOK'
    BY DEF Connection, Stop, IInv, TypeOK, session, SessionTypeOK
<1>3. busy' \in BOOLEAN
    BY DEF Connection, Stop, IInv, TypeOK
<1>4. deadline' \in 0 .. ShutdownTimeout
    BY ServeAssumption DEF Connection, Stop, IInv, TypeOK
<1>5. TypeOK'
    BY <1>2, <1>3, <1>4
    DEF Connection, Stop, IInv, TypeOK, Phases, Up, identity, process, heartbeat
<1>6. ClientsHaveId'
    BY DEF Connection, Stop, IInv, ClientsHaveId, Up, process, heartbeat, session
<1> QED
    BY <1>1, <1>5, <1>6 DEF IInv

\* The id that a client sends is the one in the file.
LEMMA Registers ==
    ASSUME IInv, phase \in {"heartbeat"} \union Up,
           UNCHANGED <<phase, cfg, idFile, instanceID>>,
           registered' = registered \union {instanceID}
    PROVE  /\ Creating' /\ Identified' /\ Agreed' /\ Accepted'
           /\ registered' \subseteq FullId
<1>1. idFile \in Complete /\ instanceID = Stored(idFile.id, IdLength)
    BY DEF IInv, Identified
<1>2. instanceID \in FullId
    BY <1>1, CompleteHasId DEF FullId, Stored
<1>3. Creating'
    BY DEF IInv, Creating, Up
<1>4. Identified' /\ Agreed'
    BY <1>1 DEF IInv, Identified, Agreed
<1>5. Accepted'
    BY DEF IInv, Accepted, Valid
<1>6. registered' \subseteq FullId
    BY <1>2 DEF IInv, TypeOK, FullId
<1> QED
    BY <1>3, <1>4, <1>5, <1>6

LEMMA SessionKeeps ==
    ASSUME IInv, SessionStep
    PROVE  IInv'
<1>1. SessionTypeOK'
    BY SessionTypes DEF SessionStep, IInv, TypeOK
<1>2. run # "off" /\ phase \in {"heartbeat"} \union Up
    BY DEF SessionStep, DialSucceeds, ChallengeAnswered, Authenticated, Forward,
        SessionFails, SessionStops, Wake, Connected, IInv, ClientsHaveId
<1>3. CASE UNCHANGED registered
  <2>1. Creating' /\ Identified' /\ Agreed' /\ Accepted'
    BY <1>3, IdentityKept DEF SessionStep, process
  <2>2. TypeOK'
    BY <1>1, <1>3 DEF SessionStep, IInv, TypeOK, process, heartbeat, server
  <2>3. ClientsHaveId'
    BY <1>2 DEF SessionStep, IInv, ClientsHaveId, process, heartbeat
  <2> QED
    BY <2>1, <2>2, <2>3 DEF IInv
<1>4. CASE registered' = registered \union {instanceID}
  <2>1. /\ Creating' /\ Identified' /\ Agreed' /\ Accepted'
        /\ registered' \subseteq FullId
    BY <1>2, <1>4, Registers DEF SessionStep, process
  <2>2. TypeOK'
    BY <1>1, <2>1 DEF SessionStep, IInv, TypeOK, process, heartbeat, server, FullId
  <2>3. ClientsHaveId'
    BY <1>2 DEF SessionStep, IInv, ClientsHaveId, process, heartbeat
  <2> QED
    BY <2>1, <2>2, <2>3 DEF IInv
<1> QED
    BY <1>3, <1>4 DEF SessionStep

LEMMA HeartbeatKeeps ==
    ASSUME IInv, Heartbeat
    PROVE  IInv'
<1>1. beat # "off" /\ phase \in Up
    BY DEF Heartbeat, BeatFires, BeatAccepted, BeatFails, BeatStops, IInv,
        ClientsHaveId
<1>2. CASE BeatFires
  <2>1. /\ Creating' /\ Identified' /\ Agreed' /\ Accepted'
        /\ registered' \subseteq FullId
    BY <1>1, <1>2, Registers DEF BeatFires, process
  <2>2. TypeOK'
    BY <1>2, <2>1, ServeAssumption
    DEF BeatFires, Beat, IInv, TypeOK, process, server, session, SessionTypeOK, FullId
  <2>3. ClientsHaveId'
    BY <1>1, <1>2 DEF BeatFires, IInv, ClientsHaveId, process, session
  <2> QED
    BY <2>1, <2>2, <2>3 DEF IInv
<1>3. CASE BeatAccepted \/ BeatFails \/ BeatStops
  <2>1. Creating' /\ Identified' /\ Agreed' /\ Accepted'
    BY <1>3, IdentityKept DEF BeatAccepted, BeatFails, BeatStops, process, identity
  <2>2. TypeOK'
    BY <1>3, ServeAssumption
    DEF BeatAccepted, BeatFails, BeatStops, Beat, IInv, TypeOK, process, identity,
        server, session, SessionTypeOK
  <2>3. ClientsHaveId'
    BY <1>1, <1>3 DEF BeatAccepted, BeatFails, BeatStops, IInv, ClientsHaveId, process,
            session
  <2> QED
    BY <2>1, <2>2, <2>3 DEF IInv
<1> QED
    BY <1>2, <1>3 DEF Heartbeat

LEMMA TimeKeeps ==
    ASSUME IInv, Tick \/ PeerChanges
    PROVE  IInv'
<1>1. SessionTypeOK'
    BY SessionTypes DEF Tick, PeerChanges, IInv, TypeOK
<1>2. Creating' /\ Identified' /\ Agreed' /\ Accepted'
    BY IdentityKept DEF Tick, PeerChanges, process, identity
<1>3. TypeOK'
    BY <1>1, ServeAssumption
    DEF Tick, PeerChanges, IInv, TypeOK, process, identity, heartbeat, server, Less
<1>4. ClientsHaveId'
    BY DEF Tick, PeerChanges, Elapse, PeerFlips, IInv, ClientsHaveId, process, heartbeat
<1> QED
    BY <1>2, <1>3, <1>4 DEF IInv

LEMMA StutterKeeps ==
    ASSUME IInv, UNCHANGED vars
    PROVE  IInv'
<1>1. Creating' /\ Identified' /\ Agreed' /\ Accepted'
    BY IdentityKept DEF vars, process, identity
<1>2. TypeOK' /\ ClientsHaveId'
    BY DEF IInv, TypeOK, ClientsHaveId, SessionTypeOK, vars, process, identity,
        heartbeat, server, session
<1> QED
    BY <1>1, <1>2 DEF IInv

LEMMA NextIInv == IInv /\ [Next]_vars => IInv'
<1> SUFFICES ASSUME IInv, [Next]_vars PROVE IInv'
    OBVIOUS
<1>1. CASE Start
    BY <1>1, StartKeeps
<1>2. CASE Boot
    BY <1>2, ReadIdKeeps, StoreKeeps, ClientsStart DEF Boot
<1>3. CASE \/ IdInvalid \/ StoreFails \/ RelayRefused \/ StartFails \/ Crash
           \/ ShutdownReturns
    BY <1>3, ExitKeeps
    DEF IdInvalid, StoreFails, RelayRefused, StartFails, Crash, ShutdownReturns
<1>4. CASE Connection \/ Stop
    BY <1>4, StopKeeps
<1>5. CASE SessionStep \/ Heartbeat
    BY <1>5, SessionKeeps, HeartbeatKeeps
<1>6. CASE PeerChanges \/ Tick
    BY <1>6, TimeKeeps
<1>7. CASE Ended \/ UNCHANGED vars
    BY <1>7, StutterKeeps DEF Ended
<1> QED
    BY <1>1, <1>2, <1>3, <1>4, <1>5, <1>6, <1>7 DEF Next

LEMMA IInvAlways == Spec => []IInv
BY InitIInv, NextIInv, PTL DEF Spec

\* The state of the process is well typed; the reconnection delay stays between
\* its bounds whatever the connections do (Run).
THEOREM TypeCorrect == Spec => []TypeOK
<1>1. IInv => TypeOK
    BY DEF IInv
<1> QED
    BY <1>1, IInvAlways, PTL

\* Authrim never sees two instance ids, at whatever point of
\* loadOrCreateInstanceID or of serve the process fails or crashes, and however
\* often.
THEOREM StableIdentityAlways == Spec => []StableIdentity
<1>1. IInv => StableIdentity
    BY DEF IInv, Agreed, StableIdentity
<1> QED
    BY <1>1, IInvAlways, PTL

\* An id that Authrim has seen is completely in the file.
THEOREM IdentityStoredAlways == Spec => []IdentityStored
<1>1. IInv => IdentityStored
    BY DEF IInv, Agreed, IdentityStored
<1> QED
    BY <1>1, IInvAlways, PTL

-----------------------------------------------------------------------------
(* The configuration *)

LEMMA NumbersAre ==
    /\ AlwaysPositive \subseteq Numbers
    /\ {"reconnect_min_ms", "reconnect_max_ms", "interval_ms", "timeout_ms",
        "max_depth", "max_groups", "groups_timeout_ms"} \subseteq Numbers
    /\ \A f \in Numbers : Defaults[f] \in Int
BY DEF Numbers, Defaults, AlwaysPositive

\* The tenants are numbered and their numbers are integers.
Numeric(c) ==
    \E n \in Nat : /\ DOMAIN c.tenants = 1 .. n
                   /\ \A i \in 1 .. n : c.tenants[i].numbers \in [Numbers -> Int]

\* They are when the defaults have been filled in.
LEMMA LoadedNumeric ==
    ASSUME NEW raw \in ConfigType
    PROVE  Numeric(ApplyDefaults(raw))
<1>1. raw.tenants \in Seq(TenantType)
    BY DEF ConfigType
<1>2. ASSUME NEW t \in TenantType PROVE Filled(t).numbers \in [Numbers -> Int]
  <2>1. [f \in Numbers |-> IF t.numbers[f] = 0 THEN Defaults[f] ELSE t.numbers[f]]
            \in [Numbers -> Int]
    BY NumbersAre DEF TenantType
  <2> QED
    BY <2>1 DEF Filled, TenantType
<1>3. /\ DOMAIN raw.tenants = 1 .. Len(raw.tenants) /\ Len(raw.tenants) \in Nat
      /\ \A i \in DOMAIN raw.tenants : raw.tenants[i] \in TenantType
    BY <1>1
<1>4. ApplyDefaults(raw).tenants
          = [i \in DOMAIN raw.tenants |-> Filled(raw.tenants[i])]
    BY Zenon DEF ApplyDefaults
<1> QED
    BY <1>2, <1>3, <1>4, Zenon DEF Numeric

LEMMA PositiveIsNat == \A n \in Int : n > 0 => n \in Nat \ {0}
OBVIOUS

\* validateRelay leaves delays for which ReconnectAssumption holds.
LEMMA RelayBounds ==
    ASSUME NEW t, t.numbers \in [Numbers -> Int], t.relay, ValidRelay(t)
    PROVE  t.numbers.reconnect_min_ms \in 1 .. t.numbers.reconnect_max_ms
<1>1. t.numbers.reconnect_min_ms \in Int /\ t.numbers.reconnect_max_ms \in Int
    BY NumbersAre
<1>2. /\ t.numbers.reconnect_min_ms > 0
      /\ t.numbers.reconnect_min_ms <= t.numbers.reconnect_max_ms
    BY Zenon DEF ValidRelay
<1> QED
    BY <1>1, <1>2

\* validateHeartbeat leaves a timeout that is within the interval.
LEMMA HeartbeatBounds ==
    ASSUME NEW t, t.numbers \in [Numbers -> Int], t.heartbeat, ValidHeartbeat(t)
    PROVE  t.numbers.timeout_ms \in 1 .. t.numbers.interval_ms
<1>1. t.numbers.interval_ms \in Int /\ t.numbers.timeout_ms \in Int
    BY NumbersAre
<1> QED
    BY <1>1, SMT DEF ValidHeartbeat, Within

\* validateGroups leaves positive limits.
LEMMA GroupBounds ==
    ASSUME NEW t, t.numbers \in [Numbers -> Int], t.groups, ValidGroups(t)
    PROVE  t.numbers.max_depth \in Nat \ {0} /\ t.numbers.max_groups \in Nat \ {0}
<1>1. t.numbers.max_depth \in Int /\ t.numbers.max_groups \in Int
    BY NumbersAre
<1> QED
    BY <1>1, SMT DEF ValidGroups, Within

\* The checks of Validate are enough for what the components assume.
LEMMA TenantMeetsAssumptions ==
    ASSUME NEW t, t.numbers \in [Numbers -> Int],
           \A f \in AlwaysPositive : t.numbers[f] > 0,
           ValidRelay(t), ValidHeartbeat(t), ValidGroups(t)
    PROVE  MeetsAssumptions(t)
<1>1. \A f \in AlwaysPositive : t.numbers[f] \in Nat \ {0}
    BY NumbersAre, PositiveIsNat, Zenon
<1> QED
    BY <1>1, RelayBounds, HeartbeatBounds, GroupBounds, Zenon
    DEF MeetsAssumptions

LEMMA ValidMeetsAssumptions ==
    ASSUME NEW c, Numeric(c), Valid(c), NEW i \in DOMAIN c.tenants
    PROVE  MeetsAssumptions(c.tenants[i])
<1> DEFINE t == c.tenants[i]
<1>1. t.numbers \in [Numbers -> Int]
    BY Zenon DEF Numeric
<1>2. /\ \A f \in AlwaysPositive : t.numbers[f] > 0
      /\ ValidRelay(t) /\ ValidHeartbeat(t) /\ ValidGroups(t)
    BY Zenon DEF Valid
<1> QED
    BY <1>1, <1>2, TenantMeetsAssumptions, Zenon

\* validateRelay covers every check of the URL that parseRelayURL and
\* validateRelayURLBinding make.
LEMMA RelayURLAccepted ==
    ASSUME NEW t, t.relay, ValidRelay(t)
    PROVE  /\ ParseRelayURL(t.url)
           /\ ValidateRelayURLBinding(t.url, t.tenantID, t.connectorID)
<1>1. ParseRelayURL(t.url)
    BY Zenon DEF ValidRelay, ParseRelayURL
<1> QED
    BY <1>1, Zenon DEF ValidRelay, ValidateRelayURLBinding

\* NewClient then refuses only an instance id or a secret that is empty.
LEMMA ValidRelayAccepted ==
    ASSUME NEW c, Valid(c), NEW i \in DOMAIN c.tenants, c.tenants[i].relay,
           NEW idLength, idLength > 0, NEW n, n > 0
    PROVE  NewClientAccepts(c.tenants[i], idLength, n)
<1> DEFINE t == c.tenants[i]
<1>1. t.tenantID # "" /\ t.connectorID # "" /\ t.kid # "" /\ ValidRelay(t)
    BY Zenon DEF Valid
<1>2. /\ ParseRelayURL(t.url)
      /\ ValidateRelayURLBinding(t.url, t.tenantID, t.connectorID)
    BY <1>1, RelayURLAccepted, Zenon
<1> QED
    BY <1>1, <1>2, Zenon DEF NewClientAccepts

\* The connector ids are distinct, so that no runtime replaces another one.
LEMMA ValidRuntimes ==
    ASSUME NEW c, Numeric(c), Valid(c), NEW i \in DOMAIN c.tenants
    PROVE  Runtimes(c)[c.tenants[i].connectorID] = c.tenants[i]
<1> DEFINE id == c.tenants[i].connectorID
<1> DEFINE Last(k) == /\ c.tenants[k].connectorID = id
                      /\ \A j \in DOMAIN c.tenants :
                            c.tenants[j].connectorID = id => j <= k
<1>1. PICK n \in Nat : DOMAIN c.tenants = 1 .. n
    BY Zenon DEF Numeric
<1>2. \A k \in DOMAIN c.tenants : \A j \in 1 .. k - 1 :
          c.tenants[j].connectorID # c.tenants[k].connectorID
    BY Zenon DEF Valid
<1>3. \A k \in DOMAIN c.tenants : c.tenants[k].connectorID = id => k = i
  <2> TAKE k \in DOMAIN c.tenants
  <2>1. k < i \/ k = i \/ i < k
    BY <1>1
  <2>2. k < i => k \in 1 .. i - 1
    BY <1>1
  <2>3. i < k => i \in 1 .. k - 1
    BY <1>1
  <2> QED
    BY <1>2, <2>1, <2>2, <2>3
<1>4. Last(i)
    BY <1>1, <1>3
<1>5. (CHOOSE k \in DOMAIN c.tenants : Last(k)) = i
    BY <1>3, <1>4
<1>6. Runtimes(c)[id] = c.tenants[CHOOSE k \in DOMAIN c.tenants : Last(k)]
    BY Zenon DEF Runtimes
<1> QED
    BY <1>5, <1>6

\* A configuration that Validate accepts, whatever the file said, is one that
\* every component can use: no tenant shadows another, every bound the other
\* modules assume holds, and NewClient refuses the relay, with the id that
\* loadOrCreateInstanceID has returned, only for an empty secret.
THEOREM AcceptedIsUsableAlways == Spec => []AcceptedIsUsable
<1>1. IInv => AcceptedIsUsable
  <2> SUFFICES ASSUME IInv, phase # "down", NEW i \in DOMAIN cfg.tenants
               PROVE  /\ MeetsAssumptions(cfg.tenants[i])
                      /\ Runtimes(cfg)[cfg.tenants[i].connectorID] = cfg.tenants[i]
                      /\ phase = "relay" /\ cfg.tenants[i].relay =>
                            \A n \in SecretLengths \ {0} :
                                NewClientAccepts(cfg.tenants[i], instanceID.length, n)
    BY Zenon DEF AcceptedIsUsable
  <2>1. Valid(cfg)
    BY DEF IInv, Accepted
  <2>2. cfg # NoConfig
    <3>1. NoConfig.mode # "single_tenant" /\ NoConfig.mode # "multi_tenant"
      BY DEF NoConfig
    <3> QED
      BY <2>1, <3>1, Zenon DEF Valid
  <2>3. Numeric(cfg)
    <3>1. PICK raw \in RawConfigs : cfg = ApplyDefaults(raw)
      BY <2>2 DEF IInv, TypeOK
    <3> QED
      BY <3>1, LoadedNumeric, RawConfigsAssumption, Zenon
  <2>4. phase = "relay" => instanceID.length > 0
    BY ServeAssumption DEF IInv, Identified, Stored
  <2>5. \A n \in SecretLengths \ {0} : n > 0
    BY ServeAssumption
  <2>6. phase = "relay" /\ cfg.tenants[i].relay =>
            \A n \in SecretLengths \ {0} :
                NewClientAccepts(cfg.tenants[i], instanceID.length, n)
    BY <2>1, <2>4, <2>5, ValidRelayAccepted, Zenon
  <2> QED
    BY <2>1, <2>3, <2>6, ValidMeetsAssumptions, ValidRuntimes, Zenon
<1> QED
    BY <1>1, IInvAlways, PTL
=============================================================================

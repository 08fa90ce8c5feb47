------------------------------- MODULE Serve -------------------------------
(***************************************************************************)
(* The life of the process: serve of internal/app/command.go with the      *)
(* instance id (instance.go), the heartbeat of a tenant (heartbeat.go) and *)
(* its relay connection (RelaySession).  A process starts, may crash at    *)
(* any point or be stopped, and is started again; only the file that holds *)
(* the instance id outlives it.                                            *)
(*                                                                         *)
(* One process at a time uses the state directory.  A crash is one of the  *)
(* process: what it wrote stays.  A signal that arrives before serve waits *)
(* for signals is a crash.  SIGHUP is only logged.                         *)
(***************************************************************************)
EXTENDS Config, RelaySession

CONSTANTS
    RawConfigs,       \* what the configuration file may say
    Ids,              \* what generateInstanceID may return
    NoId,             \* no instance id in memory
    NoFile,           \* there is no instance_id file
    SecretLengths,    \* of what the resolver may return; an empty file has none
    IdLength,         \* characters of an instance id: the pattern takes no fewer
    Interval,         \* of the heartbeat
    SendTimeout,      \* of one heartbeat
    ShutdownTimeout,  \* 5 s
    MaxStarts         \* bound: how often the process is started

ASSUME ServeAssumption ==
    /\ SecretLengths \subseteq Nat
    /\ IdLength \in Nat \ {0}
    /\ Interval \in Nat \ {0}
    /\ SendTimeout \in Nat \ {0}
    /\ ShutdownTimeout \in Nat \ {0}
    /\ MaxStarts \in Nat
    /\ NoFile \notin [id : Ids, length : Nat]

ASSUME RawConfigsAssumption == RawConfigs \subseteq ConfigType

VARIABLES
    phase,         \* how far serve has come
    cfg,           \* the configuration it has loaded
    idFile,        \* NoFile, or what is in it: the first characters of an id
    instanceID,    \* the id in memory, as much of it as was read
    beat,          \* where the heartbeat is
    beatLeft,      \* what is left of its interval or of its timeout
    busy,          \* the HTTP server has a connection that is not idle
    deadline,      \* what is left of the shutdown timeout
    starts,        \* how often the process was started
    registered     \* the ids that Authrim was sent

process == <<phase, cfg, starts>>
heartbeat == <<beat, beatLeft>>
identity == <<idFile, instanceID, registered>>
server == <<busy, deadline>>

vars == <<process, heartbeat, identity, server, session>>

NoConfig == [mode |-> "", tenants |-> <<>>]

\* The file has i of the n characters of an id and its newline.
Stored(id, n) == [id |-> id, length |-> n]

Complete == {Stored(id, n) : id \in Ids, n \in {IdLength, IdLength + 1}}

\* The clients run and the HTTP server listens.
Up == {"running", "shutdown"}

Phases == {"down", "identifying", "opening", "writing", "relay", "heartbeat"}
             \union Up

-----------------------------------------------------------------------------
(* Start *)

Init ==
    /\ phase = "down" /\ cfg = NoConfig /\ starts = 0
    /\ idFile = NoFile /\ instanceID = NoId /\ registered = {}
    /\ beat = "off" /\ beatLeft = 0
    /\ busy = FALSE /\ deadline = 0
    /\ stopping = FALSE /\ peerUp \in BOOLEAN
    /\ run = "off" /\ backoff = ReconnectMin /\ left = 0

\* The process is gone, and with it everything in memory.
Exit ==
    /\ phase' = "down" /\ cfg' = NoConfig /\ UNCHANGED starts
    /\ instanceID' = NoId /\ UNCHANGED <<idFile, registered>>
    /\ beat' = "off" /\ beatLeft' = 0
    /\ busy' = FALSE /\ deadline' = 0
    /\ stopping' = FALSE /\ UNCHANGED peerUp
    /\ run' = "off" /\ backoff' = ReconnectMin /\ left' = 0

\* LoadFile and buildTenantRuntimes. The configuration is refused, or a secret
\* cannot be resolved, or the process goes on; an empty secret is not noticed.
Start ==
    /\ phase = "down" /\ starts < MaxStarts
    /\ starts' = starts + 1
    /\ \/ UNCHANGED <<phase, cfg>>
       \/ \E raw \in RawConfigs :
             /\ Valid(ApplyDefaults(raw))
             /\ phase' = "identifying" /\ cfg' = ApplyDefaults(raw)
    /\ UNCHANGED <<heartbeat, identity, server, session>>

\* loadOrCreateInstanceID reads the file. Without one it generates an id.
ReadId ==
    /\ phase = "identifying"
    /\ \/ /\ idFile = NoFile
          /\ \E id \in Ids \ {i.id : i \in registered} :
                instanceID' = Stored(id, IdLength)
          /\ phase' = "opening"
       \/ /\ idFile # NoFile /\ idFile.length >= IdLength
          /\ instanceID' = Stored(idFile.id, IdLength)
          /\ phase' = "relay"
    /\ UNCHANGED <<cfg, starts, heartbeat, idFile, registered, server, session>>

\* What is in the file is not an id.
IdInvalid ==
    /\ phase = "identifying"
    /\ idFile # NoFile /\ idFile.length < IdLength
    /\ Exit

\* WriteFile creates the file, or empties it.
OpenFile ==
    /\ phase = "opening"
    /\ idFile' = Stored(instanceID.id, 0)
    /\ phase' = "writing"
    /\ UNCHANGED <<cfg, starts, heartbeat, instanceID, registered, server, session>>

\* Mutant: a short write is not noticed.
Write_Short ==
    /\ phase = "writing"
    /\ \E n \in idFile.length + 1 .. IdLength + 1 :
          idFile' = Stored(instanceID.id, n)
    /\ phase' = "relay"
    /\ UNCHANGED <<cfg, starts, heartbeat, instanceID, registered, server, session>>

\* WriteFile writes the id and a newline, at once or in parts.
Write ==
    /\ phase = "writing"
    /\ \E n \in idFile.length + 1 .. IdLength + 1 :
          /\ idFile' = Stored(instanceID.id, n)
          /\ phase' = IF n = IdLength + 1 THEN "relay" ELSE "writing"
    /\ UNCHANGED <<cfg, starts, heartbeat, instanceID, registered, server, session>>

\* Mutant: an id that could not be stored is used all the same.
StoreFails_Ignored ==
    /\ phase \in {"opening", "writing"}
    /\ phase' = "relay"
    /\ UNCHANGED <<cfg, starts, heartbeat, identity, server, session>>

\* The file cannot be created or written.
StoreFails ==
    /\ phase \in {"opening", "writing"}
    /\ Exit

\* The tenant whose clients the model follows.
Tenant == cfg.tenants[1]

\* startRelayClients: the secret of each relay is resolved again, then NewClient.
StartRelayClients ==
    /\ phase = "relay"
    /\ \A i \in DOMAIN cfg.tenants :
          cfg.tenants[i].relay =>
              \E n \in SecretLengths :
                  NewClientAccepts(cfg.tenants[i], instanceID.length, n)
    /\ phase' = "heartbeat"
    /\ IF Tenant.relay THEN SessionBegins ELSE UNCHANGED <<run, backoff, left>>
    /\ UNCHANGED <<cfg, starts, heartbeat, identity, server, stopping, peerUp>>

\* NewClient refuses one of them, and serve returns. What the relays before it did
\* by then, they also do when StartFails follows.
RelayRefused ==
    /\ phase = "relay"
    /\ \E i \in DOMAIN cfg.tenants :
          /\ cfg.tenants[i].relay
          /\ \E n \in SecretLengths :
                ~ NewClientAccepts(cfg.tenants[i], instanceID.length, n)
    /\ Exit

\* startHeartbeatClients, then the server is set up. The first heartbeat is due
\* at once.
StartHeartbeatClients ==
    /\ phase = "heartbeat"
    /\ phase' = "running"
    /\ beat' = IF Tenant.heartbeat THEN "waiting" ELSE "off"
    /\ UNCHANGED <<cfg, starts, beatLeft, identity, server, session>>

\* A step of the start fails: the state directory or the file cannot be read, a
\* secret is gone; or the address cannot be listened on, when the clients have
\* been started.
StartFails ==
    /\ phase \in {"identifying", "relay", "heartbeat", "running"}
    /\ Exit

\* The process is killed.
Crash == phase # "down" /\ Exit

-----------------------------------------------------------------------------
(* Stop *)

\* An HTTP connection becomes active, or idle.
Connection ==
    /\ \/ phase = "running"
       \/ phase = "shutdown" /\ busy
    /\ busy' = ~ busy
    /\ UNCHANGED <<process, heartbeat, identity, deadline, session>>

\* A stop signal: the clients' context is cancelled and the server shuts down.
Stop ==
    /\ phase = "running"
    /\ phase' = "shutdown"
    /\ stopping' = TRUE
    /\ deadline' = ShutdownTimeout
    /\ UNCHANGED <<cfg, starts, heartbeat, identity, busy, peerUp, run, backoff,
                   left>>

\* Mutant: Shutdown is given no deadline.
ShutdownReturns_Drained ==
    /\ phase = "shutdown"
    /\ ~ busy
    /\ Exit

\* Shutdown returns when no connection is active or its time is over, and so
\* does serve. It does not wait for the clients.
ShutdownReturns ==
    /\ phase = "shutdown"
    /\ ~ busy \/ deadline = 0
    /\ Exit

-----------------------------------------------------------------------------
(* The clients *)

\* The relay connection. The answer to the challenge carries the instance id.
SessionStep ==
    /\ \/ /\ DialSucceeds \/ Authenticated \/ SessionFails \/ SessionStops \/ Wake
          /\ UNCHANGED registered
       \/ /\ ChallengeAnswered
          /\ registered' = registered \union {instanceID}
    /\ UNCHANGED <<process, heartbeat, idFile, instanceID, server>>

Beat(to, time) == beat' = to /\ beatLeft' = time

\* run of the heartbeat: the timer fires and the request is sent.
BeatFires ==
    /\ beat = "waiting" /\ beatLeft = 0
    /\ Beat("sending", SendTimeout)
    /\ registered' = registered \union {instanceID}
    /\ UNCHANGED <<process, idFile, instanceID, server, session>>

\* Authrim accepts it. The next one is due after an interval.
BeatAccepted ==
    /\ beat = "sending" /\ peerUp
    /\ Beat("waiting", Interval)
    /\ UNCHANGED <<process, identity, server, session>>

\* Mutant: the timer is only set again after a success.
BeatFails_NoReset ==
    /\ beat = "sending" /\ (~ peerUp \/ stopping)
    /\ Beat("returned", 0)
    /\ UNCHANGED <<process, identity, server, session>>

\* It is refused, times out, or is cancelled, which is only logged.
BeatFails ==
    /\ beat = "sending" /\ (~ peerUp \/ stopping)
    /\ Beat("waiting", Interval)
    /\ UNCHANGED <<process, identity, server, session>>

\* The context is cancelled.
BeatStops ==
    /\ beat = "waiting" /\ stopping
    /\ Beat("returned", 0)
    /\ UNCHANGED <<process, identity, server, session>>

\* Authrim or the network comes or goes.
PeerChanges == PeerFlips /\ UNCHANGED <<process, heartbeat, identity, server>>

Less(n) == IF n > 0 THEN n - 1 ELSE 0

\* A unit of time passes. Timers that are due come first.
Tick ==
    /\ left > 0 \/ beatLeft > 0 \/ deadline > 0
    /\ run = "sleeping" => left > 0
    /\ beat \in {"waiting", "sending"} => beatLeft > 0
    /\ phase = "shutdown" => deadline > 0
    /\ Elapse
    /\ beatLeft' = Less(beatLeft) /\ deadline' = Less(deadline)
    /\ UNCHANGED <<process, beat, identity, busy>>

-----------------------------------------------------------------------------
(* The specification *)

Boot == ReadId \/ OpenFile \/ Write \/ StartRelayClients \/ StartHeartbeatClients

Heartbeat == BeatFires \/ BeatAccepted \/ BeatFails \/ BeatStops

\* The process is down for good.
Ended == phase = "down" /\ starts = MaxStarts /\ UNCHANGED vars

Next ==
    \/ Start \/ Boot
    \/ IdInvalid \/ StoreFails \/ RelayRefused \/ StartFails \/ Crash
    \/ Connection \/ Stop \/ ShutdownReturns
    \/ SessionStep \/ Heartbeat
    \/ PeerChanges \/ Tick
    \/ Ended

Spec == Init /\ [][Next]_vars

\* What can run does; while Authrim is well it answers, a heartbeat within its
\* timeout; a shutdown returns when its time is over. Nothing is assumed of a peer
\* that is not well (no handshake need ever fail), of the clients of the HTTP
\* server, nor of crashes and starts.
Fairness ==
    /\ WF_vars((peerUp \/ stopping \/ run = "sleeping") /\ SessionStep)
    /\ WF_vars(BeatFires)
    /\ WF_vars(BeatAccepted)
    /\ WF_vars(beatLeft = 0 /\ (BeatAccepted \/ BeatFails))
    /\ WF_vars(Tick)
    /\ WF_vars(ShutdownReturns)

FairSpec == Spec /\ Fairness

-----------------------------------------------------------------------------
(* Properties *)

\* The state has its types.
TypeOK ==
    /\ phase \in Phases
    /\ cfg \in {NoConfig} \union {ApplyDefaults(raw) : raw \in RawConfigs}
    /\ idFile \in {NoFile} \union [id : Ids, length : 0 .. IdLength + 1]
    /\ instanceID \in {NoId} \union [id : Ids, length : {IdLength}]
    /\ registered \subseteq [id : Ids, length : {IdLength}]
    /\ beat \in {"off", "waiting", "sending", "returned"}
    /\ beatLeft \in Nat /\ deadline \in 0 .. ShutdownTimeout
    /\ busy \in BOOLEAN /\ starts \in 0 .. MaxStarts
    /\ SessionTypeOK

\* Authrim knows the process by one instance id, sent by the relay handshake and
\* by the heartbeat alike, whatever the crashes and restarts in between
\* (loadOrCreateInstanceID: the id is used only when it has been stored).
StableIdentity == \A i, j \in registered : i = j

\* Once an id has been sent to Authrim it is completely stored: no crash can
\* leave the next start without it or with a file that it refuses.
IdentityStored == registered # {} => idFile \in Complete

\* A configuration that was accepted meets what every component assumes of it:
\* tenants do not share a runtime, the numbers are in their ranges after the
\* defaults, and what startRelayClients gives to NewClient is refused only for an
\* empty secret, which Validate cannot see (Validate, buildTenantRuntimes,
\* loadOrCreateInstanceID, NewClient).
AcceptedIsUsable ==
    phase # "down" =>
        \A i \in DOMAIN cfg.tenants :
            LET t == cfg.tenants[i]
            IN  /\ MeetsAssumptions(t)
                /\ Runtimes(cfg)[t.connectorID] = t
                /\ phase = "relay" /\ t.relay =>
                      \A n \in SecretLengths \ {0} :
                          NewClientAccepts(t, instanceID.length, n)

\* When Authrim is well for good and the process stays, the relay serves again,
\* after any sequence of refused or broken connections (Run).
ServesAgain ==
    <>[](phase = "running" /\ Tenant.relay /\ peerUp) => <>[](run = "serving")

\* Then heartbeats are accepted again and again: a failed one does not end them.
BeatsGoOn ==
    <>[](phase = "running" /\ Tenant.heartbeat /\ peerUp)
        => []<><<BeatAccepted>>_vars

\* A stop signal ends the process, also when an HTTP client keeps its connection
\* active and Authrim does not answer.
StopEnds == phase = "shutdown" ~> phase = "down"
=============================================================================

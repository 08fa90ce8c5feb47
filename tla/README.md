# Wordwarden: verification project

Wordwarden connects Authrim, a hosted identity provider, to a customer's LDAP or
Active Directory. Authrim sends it signed password checks, over HTTP or through an
outbound websocket relay; Wordwarden authenticates each of them, protects the
directory from replays, floods and storms, asks the directory and answers with a
normalised verdict.

This directory holds TLA+ models of the code under `src/`, TLC configurations that
check them on small instances, and proofs checked by TLAPS.

    tlc -workers 2 -config MCReplay.cfg MCVerifyPassword      # one run
    tlapm StormProofs.tla                                     # one proof module

## Inventory

| Component | State | Operations | Interaction | What makes it correct |
|---|---|---|---|---|
| HTTP endpoint, `ports/httpapi/server.go` | per connector a semaphore and storm counters, one replay cache, metrics | `verifyPassword`, one goroutine per request; `acquire`/release | calls the HMAC verifier, the cache, the counters, the directory | the directory is asked only about authentic requests, each once, within the limit; nothing leaks; everyone is answered |
| Replay cache, `replayCache` | map from key to expiry, under a mutex | `Remember` | called once per authenticated request | a key outlives every request that carries it |
| Storm protection, `ports/httpapi/storm.go` | window, count and end of block per kind, under a mutex | `blocked`, `record`, `reset` | checked and recorded in separate critical sections by the handlers | overshoot is bounded, blocks run their time, only authenticated events count |
| HMAC verifier, `adapters/hmac/verifier.go` | none (keys are fixed) | `Verify` | uses the wall clock | accepts exactly what the holder of a key signed, within the skew |
| LDAP client, `adapters/ldap/client.go` | idle connections in a pool, the bind identity of each connection | `VerifyPassword`, `TestConnection`, pool get/put, searches, referrals, group search | called by handlers and relay goroutines at once | success only if the user's own bind succeeded; pooled connections are bound as the service |
| Relay client, `adapters/relay/client.go` | connection and backoff; its own cache, semaphore and storm counters; one write lock | `Run`, `authenticate`, `processVerifyRequest` per message in a goroutine | shares the LDAP client with the HTTP endpoint | as for HTTP, across reconnections; it keeps reconnecting; dead connections hold nothing up |
| Directory core, username, `core/` | none | results, reasons, preprocessing | used by both front ends | results are classified once |
| Instance id, `app/instance.go` | one file, the only state that survives a restart | load or create | at start; sent by relay and heartbeat | one id for ever, stored before it is used |
| Heartbeat, `app/heartbeat.go` | a timer | periodic report | Authrim | it goes on after failures |
| serve, `app/command.go` | the phase of the start, signals | start, stop | starts everything, cancels the clients | a stop ends; a failed start leaves nothing half done |
| Configuration, `ports/config` | none | `applyDefaults`, `Validate` | everything trusts its values | what is accepted is usable |
| Update check, secrets, audit, metrics endpoints | none or output only | pure functions and I/O | | |

Hard behaviours: handlers interleave freely between short critical sections; the
clock is read before a lock is taken; two clocks (wall and monotonic) decide about
one request; the process may end at any time and nearly everything is in memory; the
directory may hang or fail while others succeed; relay handlers outlive their
connection. `PROJECT.json` lists the hazards
with their lines and the properties that cover them.

## Modules

| Module | Models |
|---|---|
| `HmacVerifier` | the checks of `Verifier.Verify` in their order, as operators |
| `ReplayCache` | `replayKey` and `replayCache.Remember`, as operators on the map |
| `StormProtection` | `blocked` and `record` on one `stormState`, as operators |
| `VerifyPassword` | the handlers and everything they share; extends the three above |
| `DirectoryGate` | abstract: what the endpoint promises of its use of the directory |
| `LdapClient` | the LDAP client that the handlers share: calls, connections, pool |
| `GroupSearch` | the three group lookups of the LDAP client |
| `RelaySession` | the relay connection: dial, handshake, serving, backoff, cancellation |
| `Relay` | the relay's request handlers over that connection; extends `RelaySession`, `ReplayCache`, `StormProtection` |
| `Config` | defaults and validation, as operators |
| `Serve` | the process: start, instance id, clients, heartbeat, stop, crash, restart; extends `Config` and `RelaySession` |
| `MCVerifyPassword`, `MCLdapClient`, `MCGroupSearch`, `MCRelay`, `MCServe` | small instances |
| `ProtectionProofs`, `SessionProofs` | lemmas on cache and counters, and on the connection |
| `VerifyPasswordProofs`, `StormProofs`, `LdapProofs`, `GroupProofs`, `RelayProofs`, `ServeProofs` | the theorems |

### State and actions of VerifyPassword

`entries`, `tokens` and `storms` are the handler's `replay`, `limits` and `storms`.
`pc`, `msg`, `verdict` and `response` are one handler's progress, its request, the
directory's verdict and the code it answered. `since` is the instant of a handler's
previous step.

One action is one operation on shared state with the local work around it, in the
order of `verifyPassword`:

| Action | Code in server.go |
|---|---|
| `Arrive` | connector lookup, body limit, `HMACVerifier.Verify` (240-293) |
| `CheckReplayStorm` | `stormBlocked(replay)` (294-308) |
| `Remember`, `RecordReplay` | `replay.Remember`, the answer, then `recordStorm` (309-328) |
| `Acquire` | non-blocking send on the semaphore (330-350) |
| `Decode`, `RecordMalformed` | `stormBlocked(malformed)`, decoding, mismatch checks (352-405), `writeMalformedRequest` (555-580) |
| `CheckDirectoryStorm` | `stormBlocked(directory_error)` (407-427) |
| `DirectoryReturn`, `RecordDirectoryError` | the directory call, its failures and their record (429-483) |
| `ResetDirectoryErrors` | `resetStorm`, then the verdict (484-536) |
| `Release` | the deferred release |
| `Restart` | the process ends and `NewHandler` starts from empty |
| `Tick`, `WallStep` | environment: time passes, the wall clock is set |

`unknown_connector` comes before the HMAC check and nothing shared is touched until
the signature is right. An answer to a duplicate, a malformed body or a failed
directory call is written before it is recorded, as in the code.

Data are abstracted to what decides: a message records the first fault its envelope
would cause, its timestamp, its key id, the secret its signature is right for, its
request id and nonce (sequences of words, so that a colon can be one), and the class
of its body. The directory's answer is one of the four credential results or an error.

Time. `clock` is the monotonic clock used by cache and counters; the wall clock, which
the skew check uses, is `clock + offset` and may be set anywhere in `0..MaxStep`. Every
operation that reads the clock before its lock takes any instant of `Sampled(r)`, from
the handler's previous step to now. `MaxLag` bounds the pause between two steps of a
runnable handler; a directory call takes any time.

### State and actions of LdapClient

A call of `VerifyPassword` or `TestConnection` makes a few exchanges with the directory
on one connection. Which ones, and in which order, depends on the lookup mode and the
request: `TestPlan` and `VerifyPlan` are these sequences, and `plan` what is left of one.
A server with more entries than the size limit answers with an error or ignores the
limit; the code then finds the user ambiguous. `identity` is what the
code relies on without storing it: as whom each connection is bound. A bind that fails
or times out leaves it `unsettled`. `idle` is the pool.

| Action | Code in ldap/client.go |
|---|---|
| `Start` | the refusals of `VerifyPassword` that need no connection (144-152) |
| `Acquire`, `Validate`, `Dial` | `acquireConn`, `validatePooledConn`, `dial` and `dialEndpoint` (361-394, 413-418, 446-522) |
| `BindService`, `BindUser` | `bindService`, `bindUser` with the reading of their errors (245-266, 1061-1127) |
| `Search`, `ReadEntry` | `resolveUserWithAttributes` with referrals, `resolveAttributesByDN` (293-359, 524-779) |
| `Restore`, `Release` | `restoreServiceBindForReuse`, the deferred `releaseConn` (396-411) |
| `ContextEnds` | environment: the deadline passes or the caller hangs up |

The directory is constant: which entries the service account finds for a name, which
entry a bind name denotes, passwords and account states. With `Outages` every exchange
and every endpoint may fail as well. An entry found behind a referral may be unknown to
the server on which it is bound. Directory errors are coded as `directoryErrorCode` in
server.go reports them.

### GroupSearch

`memberOf[x]` are the groups that name `x` as a member, any relation, cycles and
self-membership included. One action is one search: `SearchMember` is one turn of the
inner loop of `bfsGroupFacts` (931-968) with the answer in any order, `Advance` what the
loops do afterwards; `SearchByRule` and `ReadAttribute` are the other two strategies,
`SearchFails` their error returns. `frontier`, `next`, `depth` and `facts` are the
variables of the code, `seen` is the set of DNs in `facts`. A server that heeds the size
limit answers with an error, one that ignores it sends more, which is cut off: `UpTo` is
what may be left of a set that comes in any order. `Closure` (what Active Directory's
matching rule finds) and `Chains` (the reference for distances) are stated without
recursion, as a least set and as sequences of memberships, so that proofs can use them.

### RelaySession and Relay

`run` is where `Run` is: dialling, waiting for the challenge or for its acknowledgement,
serving, sleeping, returned. `peerUp` says that Authrim, the network and the connection
are well. While they are not, any step may fail or simply not happen.

| Action | Code in relay/client.go |
|---|---|
| `DialSucceeds`, `ChallengeAnswered`, `Authenticated` | `runOnce`, `authenticate` (259-357) |
| `SessionFails`, `SessionStops`, `Wake` | error returns, cancellation, the delay (238-284) |
| `Receive` | the read loop (276-293) |
| `Screen`, `RecordMalformed` | `validVerifyRequest` and the two storm checks (363-406) |
| `Remember`, `RecordReplay`, `Acquire` | cache and semaphore (407-439) |
| `CheckDirectoryStorm`, `DirectoryReturn`, `RecordDirectoryError`, `ResetDirectoryErrors` | the directory call (441-547) |
| `Release` | the deferred receive, when `processVerifyRequest` returns |
| `LockWriter`, `WriteEnds` | `writeJSON` (603-607) |

`attached[r]` says that the connection of `r` is still the current one; a write to a
closed connection drops the answer. The client has one connector, so the replay key is
the request id.

### Config and Serve

`Config` has the numbers with their defaults, the ids, the mode, the active key id and the
relay URL as `url.Parse` gives it. The checks of that URL exist twice in the code and in the
model: `ValidRelay` is `validateRelay`, `ParseRelayURL` and `ValidateRelayURLBinding` are
those of the relay client, which `NewClientAccepts` uses. Secrets are resolved by
`buildTenantRuntimes` and again by `startRelayClients`; of a secret the model has the
length, and an empty one is seen only by `NewClient`. `phase` is how far `serve` has come; `idFile` holds the first `length`
characters of an id, so that a crash within `WriteFile` is visible. `registered` are the
ids that Authrim was sent, by the answer to a challenge or by a heartbeat.

| Action | Code |
|---|---|
| `Start` | `LoadFile` (`ApplyDefaults`, `Valid`), `buildTenantRuntimes` |
| `ReadId`, `IdInvalid`, `OpenFile`, `Write`, `StoreFails` | `loadOrCreateInstanceID` |
| `StartRelayClients`, `RelayRefused`, `StartHeartbeatClients`, `StartFails` | the rest of the start (command.go 78-112) |
| `SessionStep` | the relay client's `Run` |
| `BeatFires`, `BeatAccepted`, `BeatFails`, `BeatStops` | `heartbeatClient.run`, `send` |
| `Stop`, `ShutdownReturns` | the signal, `cancelServe` and `Shutdown` with its five seconds |
| `Crash`, `Connection`, `PeerChanges`, `Tick` | environment |

The clients of one tenant are followed; configurations with two tenants matter to
validation, runtimes and `NewClient`. Timers that are due fire before more time passes.

## Runs

| Run | Checks | Instance |
|---|---|---|
| `replay` | `TypeOK`, `AtMostOnce`, `NoFalseReplay` | three handlers, copies of two requests signed under the active and the previous key, wall-clock steps, restarts; `Ttl` is exactly `2*Skew + MaxStep + 2*MaxLag`, and `MaxClock` lies beyond it |
| `storm` | `StormOvershootBounded`, `BlocksNotCutShort` | three handlers with good or malformed bodies, semaphore of two, limit one; the clock passes window and block |
| `mixed` | `TokensConserved`, `StormCountsJustified`, `ImplementsGate` | two connectors, seven kinds of request: authentic, forged, foreign, malformed, mismatched, unconfigured |
| `liveness` | `EveryCallerAnswered`, `CapacityRecovers` | two handlers, two connectors, `FairSpec` |
| `hmac_failures` | `HmacFailuresLimited`, violated | forged requests |
| `colons` | `ReplayKeyedByParts`, violated | request ids and nonces with colons |
| `ldap_pool` | `TypeOK`, `PoolServiceBound`, `Ownership`, `NoFalseAccept` | three password checks, right and wrong, a pool of one, each lookup mode, all failures |
| `ldap_verdicts` | `NoFalseAccept`, `NoFalseReject` | one call of any kind (check, test with and without a password), users with zero to three matching entries, disabled, behind a referral; all 48 configurations; two endpoints |
| `ldap_test_subject` | `TestWorksForNormalAccount`, violated | one test of a right password with a subject attribute |
| `relay` | `TypeOK`, `AtMostOncePerTtl`, `NoFalseReplay`, `TokensConserved`, `CapacityRecovers`, `EveryRequestAnswered` | two handlers over any number of connections, a request, its copy, an invalid one with its id and another; semaphore of one; keys expire; `FairSpec` |
| `groups` | `FactsCorrect`, `NearestFirst`, `WithinLimits`, `SearchesBounded`, `Terminates` | all 4096 relations on three groups and a user, all strategies, depth 1 to 3, at most 1, 2 or 4 groups |
| `serve` | `TypeOK`, `StableIdentity`, `IdentityStored`, `AcceptedIsUsable`, `ServesAgain`, `BeatsGoOn`, `StopEnds` | three starts, two ids of two characters, the default configuration and every change of one number, flag, key id or URL part, pairs of tenants with equal or different ids, secrets that are empty or not |

Why the bounds are enough. A handler is used once, and each property is about two or
three of them: a copy and its original, a handler that checks while another records,
two that record in the wrong order. Three handlers with a semaphore of two and a limit
of one reach an overshoot of exactly the bound. `Ttl` in `replay` is the smallest that
`ReplayWindowAssumption` allows; one less and TLC finds two admissions of one request.
The pool's properties concern a connection, the call that left it and the calls that race
for it; three calls and a pool of one give a hand-over, a refused put and a stale idle
connection. A verdict depends on one call, so `ldap_verdicts` enumerates requests and
configurations instead of calls.
In `relay` two handlers are a request and its copy, or one that writes and one that
waits; connections are unbounded in number. Three groups are the smallest number with a
group on two paths of different length and a cycle besides; a limit of 2 is met in the
middle of a level, 4 never. An id goes wrong when a start is interrupted and the next one
reads what is left, and shows in the third.

Fairness. Weak fairness of a handler's own steps: goroutines that can run are run, none
of these steps waits (`acquire` never blocks and the mutexes are held for one operation).
Weak fairness of `DirectoryReturn`: the call gets a context with a deadline. StartTLS is
sent outside it (see the hazards), so this is an assumption about the directory for
configurations that use StartTLS. No fairness is assumed of callers, clocks or restarts.
In `Relay` a write ends when the peer reads or the connection is closed, and the mutex is
strongly fair (`sync.Mutex` does not starve a waiter). In `Serve` a handshake proceeds while
Authrim is well, nothing need ever fail, and timers run out; crashes, starts and HTTP
clients are not fair. `ServesAgain` and `BeatsGoOn` speak of an Authrim that is well for
good: the handshake has no timeout, so a peer that accepts a connection and stays silent
on it holds the client until the connection breaks. `Terminates` needs only that the
current search ends, which its time limit sees to.

Findings. The violations are disagreements between documents and code.
`docs/configuration.md` says that storm protection blocks repeated HMAC failures; the
code has no such counter (`docs/api.md` and a test agree with the code).
`docs/production-hardening.md` says that the cache is keyed by connector id, key id,
request id and nonce; the key joins them with colons and does not escape them, so that
different requests may share one. The same document has operators confirm that `ldap test`
works for a normal account; in `search_then_bind` it binds with the subject id (an
objectGUID or entryUUID under the default profiles) instead of the DN, and fails.

## Proofs

The theorems hold for all values of the constants under the assumptions named in the
modules. The ones that carry weight: `ReplayWindowAssumption` (`2*Skew + MaxStep +
2*MaxLag <= Ttl`; the code has 240 s and 300 s), `StormAssumption` (positive limit,
window and block, which defaults and validation provide), `CapacityAssumption`, finitely
many `Requests`, and messages with the fields above.

- `TypeCorrect`: `Spec => []TypeOK`. That `tokens` stays a natural number is not inductive
  and comes from `TokensConserved`.
- `TokensConservedAlways`: `tokens[c]` is the number of handlers of `c` between acquire and
  release. It needs `Base`, which says what a handler at each location knows of its
  request (for instance that it is authentic and its connector configured).
- `AtMostOnceAlways`, `NoFalseReplayAlways`: the inductive invariant is `ReplayInv`. `Kept`
  says that the key of an admitted request is in the cache until no copy can pass the
  skew check any more; `Backed` that every key in the cache belongs to an admitted
  request. `AllTimely` bounds how old the clock reading of a runnable handler is.
- `BlocksRunTheirTime`: from `Clocked`, windows start and blocks are set in the past.
- `OvershootBounded`, under `BlockOutlastsWindow`: the invariant `Covered` says that while a
  counter is at its limit the block lasts beyond the window, and the count plus the
  handlers that may still count into this window (`Pending`) stay within the bound. A
  handler that passes the check then does so after the window, so `Pending` only shrinks.
- `CountsJustified`: `StormCountsJustified` is inductive with `Base` and `Clocked`. A handler
  joins the recorded requests of its connector and kind in the step in which it records,
  and stays among them until the process ends; `record` adds one to the counter or starts
  again from one.
- `GateImplemented`: the handlers implement `DirectoryGate` under the mapping of
  `VerifyPassword`. `Init` maps to `Init`, every action to one of the gate's or to a
  stutter. The step that matters enters the directory call: the request is genuine by
  `Base`, nobody else has asked about it by `AtMostOnce`, and fewer than `Capacity` are
  consulting because the handler that is about to holds one of the tokens that
  `TokensConserved` counts.

- `OwnershipAlways`, `PoolServiceBoundAlways`, `ClientTypeCorrect` (`LdapProofs`), for any
  number of calls, connections and endpoints: the inductive invariant `ClientInv` adds
  `Shape` to the properties. It says that a call holds a connection exactly from
  validation or dialling to release, that the restoring bind is the last exchange of any
  plan, and that a connection is marked reusable only with nothing left to do on it and
  bound as the service. `ExchangeStep`, `ConnectedStep` and `DropStep` are the three
  ways in which an action can change a connection.
- `NoFalseAcceptAlways`, `NoFalseRejectAlways`: the invariant `VerdictInv` says what a call
  knows from the exchanges that are behind it. The plan that is left determines whether
  the user bind and the search are done; when they are, the bind was made with the call's
  own non-empty password and the entry is one the search may find. A refusal is only ever
  set by an exchange that a normal account passes.
- `GroupProofs`, for every membership relation on any finite set of groups and any limits.
  The inductive invariant `GroupInv` adds to the types that what is reported are groups of
  the user, each once (`Reported`), at their distance, that the levels before the current
  one are complete (`LevelsComplete`), and that every group found is queued or has been
  searched for, so that its own groups are reported (`Queued`). That `searchGroupEntries`
  cuts an answer off does no harm: `NothingCut` counts that a cut answer either holds all
  that is new or fills the result up to `max_groups`. That a chain of any length is covered
  by complete levels is an induction over its length, done as a least counterexample with
  `WFMin` (`LeastNat`), since the induction theorems with an operator parameter cannot be
  instantiated. `FactsCorrectAlways`, `NearestFirstAlways` and `WithinLimitsAlways` follow;
  `SearchesBoundedAlways` adds that members leave the queues as they are searched for and
  groups enter only when they are reported, so `Budget` falls with each search.

- `RelayProofs`, for any number of handlers, messages and connections. `TokensConservedAlways`
  and `TypeCorrect` as above. `AtMostOncePerTtlAlways` from `RelayTimeAssumption`: the key of
  an admitted request stays in the cache until `Ttl` after the instant that was read, at
  most `MaxLag` before the admission; no step of a connection touches the cache.
  `NoFalseReplayAlways`: every key in the cache belongs to an admitted request.
- `ServeProofs`, for every set of configurations and ids. `IInv` follows the id through the
  start: while it is created nothing is registered (`Creating`), after that the file is
  complete and agrees with memory (`Identified`), what was registered is what the file
  says (`Agreed`), and the clients run only then (`ClientsHaveId`). `StableIdentityAlways`
  and `IdentityStoredAlways` follow. `AcceptedIsUsableAlways` is the link between the
  modules: a configuration that passes `Valid` satisfies `ReconnectAssumption`,
  `CapacityAssumption`, `StormAssumption` and `GroupAssumption`, no tenant takes the runtime
  of another, and `NewClient` refuses its relay only for an empty secret: `validateRelay`
  covers what the relay client checks again (`RelayURLAccepted`), `Valid` the ids and the
  key id, and `Identified` the instance id.

Every invariant and every action property of a passing run is a theorem. Only
model-checked are the liveness properties, because fairness and `ENABLED` are out of the
prover's reach: `EveryCallerAnswered`, `CapacityRecovers` (HTTP and relay),
`EveryRequestAnswered`, `Terminates`, `ServesAgain`, `BeatsGoOn` and `StopEnds`. For
`Terminates` the measure that makes it true is proved (`SearchesBoundedAlways`).

## Not modelled

- Wording of responses, audit events, signatures and canonical forms: data that one side
  makes and the other judges; the verdict is modelled where it decides something.
- What secrets say (only their length matters to the start) and audit output: I/O without
  state. Metrics: one critical section that only an
  endpoint reads.
- Username preprocessing and the update check: pure functions on strings, which tables of
  examples test better than a model.
- Checks of `Validate` on the form of references, URLs of LDAP servers and heartbeats,
  filters and attribute names: nothing modelled depends on them.
- Loss of power between `WriteFile` and the disk, and two processes on one state directory.
- `member_attribute_only` reports all values of the attribute, without `max_groups`; this is
  modelled and not claimed otherwise.

Still to do: a module that composes the HTTP endpoint, the relay and the LDAP client of
one connector (they share the directory but neither semaphore nor cache).

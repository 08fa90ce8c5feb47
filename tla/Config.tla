------------------------------- MODULE Config -------------------------------
(***************************************************************************)
(* Parse of internal/ports/config/config.go: the defaults that are filled  *)
(* in and the checks that follow, as far as the other modules depend on    *)
(* them: the numbers, the identities of tenants and connectors, and the    *)
(* relay.  The checks of references, LDAP URLs, filters, attribute names,  *)
(* the pattern of a connector id and the heartbeat's URL and keys are left *)
(* out.                                                                    *)
(*                                                                         *)
(* A tenant has a field for each number, an enabled flag for each optional *)
(* part, the id of its active HMAC key and the URL of its relay.           *)
(***************************************************************************)
EXTENDS Integers, Sequences, FiniteSets

\* What url.Parse returns: Host with the port, Hostname without it, the segments
\* of EscapedPath, the last two of them unescaped (Parse has refused an escape that
\* PathUnescape would).
URLType == [scheme : STRING, host : STRING, hostname : STRING, path : Seq(STRING)]

\* The URL is missing, or url.Parse refuses it.
NoURL == [scheme |-> "", host |-> "", hostname |-> "", path |-> <<>>]

\* The numbers that are replaced when they are zero, or missing.
Defaults ==
    [max_concurrent_requests |-> 8,
     storm_window_ms |-> 10000, storm_block_ms |-> 30000,
     malformed_request_limit |-> 20, replay_limit |-> 10,
     directory_error_limit |-> 5,
     ldap_connect_ms |-> 500, ldap_search_ms |-> 1000, ldap_bind_ms |-> 1500,
     request_ms |-> 2500,
     reconnect_min_ms |-> 1000, reconnect_max_ms |-> 30000,
     interval_ms |-> 300000, timeout_ms |-> 5000,
     max_depth |-> 1, max_groups |-> 100, groups_timeout_ms |-> 1000]

Numbers == DOMAIN Defaults

\* What the YAML decoder returns. Integers are of 64 bits, which none of the
\* checks can exceed.
TenantType ==
    [tenantID : STRING, connectorID : STRING, kid : STRING,
     relay : BOOLEAN, heartbeat : BOOLEAN, groups : BOOLEAN,
     url : URLType, numbers : [Numbers -> Int]]

ConfigType == [mode : STRING, tenants : Seq(TenantType)]

\* applyDefaults: what it does to one tenant, and to all.
Filled(t) ==
    [t EXCEPT !.numbers = [f \in Numbers |->
        IF t.numbers[f] = 0 THEN Defaults[f] ELSE t.numbers[f]]]

ApplyDefaults(cfg) ==
    [mode |-> IF cfg.mode = "" THEN "single_tenant" ELSE cfg.mode,
     tenants |-> [i \in DOMAIN cfg.tenants |-> Filled(cfg.tenants[i])]]

\* validateProtection, validateTimeouts and the check of the concurrency limit.
AlwaysPositive ==
    {"max_concurrent_requests", "storm_window_ms", "storm_block_ms",
     "malformed_request_limit", "replay_limit", "directory_error_limit",
     "ldap_connect_ms", "ldap_search_ms", "ldap_bind_ms", "request_ms"}

\* Mutant: the order of the two delays is not checked.
ValidRelay_AnyOrder(t) ==
    LET url == t.url
        n == Len(url.path)
    IN  t.relay =>
            /\ url # NoURL /\ url.host # ""
            /\ \/ url.scheme = "wss"
               \/ url.scheme = "ws" /\ url.hostname \in {"localhost", "127.0.0.1", "::1"}
            /\ n >= 6
            /\ SubSeq(url.path, n - 5, n - 2)
                   = <<"api", "auth", "directory-relay", "connect">>
            /\ url.path[n - 1] = t.tenantID /\ url.path[n] = t.connectorID
            /\ t.numbers.reconnect_min_ms > 0
            /\ t.numbers.reconnect_max_ms > 0

\* validateRelay.
ValidRelay(t) ==
    LET url == t.url
        n == Len(url.path)
    IN  t.relay =>
            /\ url # NoURL /\ url.host # ""
            /\ \/ url.scheme = "wss"
               \/ url.scheme = "ws" /\ url.hostname \in {"localhost", "127.0.0.1", "::1"}
            /\ n >= 6
            /\ SubSeq(url.path, n - 5, n - 2)
                   = <<"api", "auth", "directory-relay", "connect">>
            /\ url.path[n - 1] = t.tenantID /\ url.path[n] = t.connectorID
            /\ t.numbers.reconnect_min_ms > 0
            /\ t.numbers.reconnect_max_ms > 0
            /\ t.numbers.reconnect_min_ms <= t.numbers.reconnect_max_ms

\* The number of tenant t is between two bounds.
Within(t, low, f, high) == low <= t.numbers[f] /\ t.numbers[f] <= high

\* validateHeartbeat.
ValidHeartbeat(t) ==
    t.heartbeat => /\ Within(t, 30000, "interval_ms", 86400000)
                   /\ Within(t, 100, "timeout_ms", 30000)

\* validateGroups.
ValidGroups(t) ==
    t.groups => /\ Within(t, 1, "max_depth", 20)
                /\ Within(t, 1, "max_groups", 10000)
                /\ Within(t, 1, "groups_timeout_ms", 60000)

\* Validate: no problem is found.
Valid(cfg) ==
    /\ \/ cfg.mode = "single_tenant" /\ Len(cfg.tenants) = 1
       \/ cfg.mode = "multi_tenant" /\ Len(cfg.tenants) > 0
    /\ \A i \in DOMAIN cfg.tenants :
          LET t == cfg.tenants[i]
          IN  /\ t.tenantID # "" /\ t.connectorID # "" /\ t.kid # ""
              /\ \A j \in 1 .. i - 1 :
                    /\ cfg.tenants[j].tenantID # t.tenantID
                    /\ cfg.tenants[j].connectorID # t.connectorID
              /\ \A f \in AlwaysPositive : t.numbers[f] > 0
              /\ ValidRelay(t) /\ ValidHeartbeat(t) /\ ValidGroups(t)

\* parseRelayURL of the relay client, which does not look at the host of a wss URL.
ParseRelayURL(url) ==
    /\ url # NoURL
    /\ url.scheme = "wss"
          \/ (url.scheme = "ws" /\ url.hostname \in {"localhost", "127.0.0.1", "::1"})

\* validateRelayURLBinding, which parses the URL once more.
ValidateRelayURLBinding(url, tenantID, connectorID) ==
    LET n == Len(url.path)
    IN  /\ ParseRelayURL(url)
        /\ n >= 6
        /\ SubSeq(url.path, n - 5, n - 2)
               = <<"api", "auth", "directory-relay", "connect">>
        /\ url.path[n - 1] = tenantID
        /\ url.path[n] = connectorID

\* NewClient of the relay, given the lengths of the instance id and of the active
\* secret. The directory client is never nil: buildTenantRuntimes makes one for
\* every tenant.
NewClientAccepts(t, idLength, secretLength) ==
    /\ ParseRelayURL(t.url)
    /\ t.tenantID # "" /\ t.connectorID # ""
    /\ idLength > 0
    /\ ValidateRelayURLBinding(t.url, t.tenantID, t.connectorID)
    /\ t.kid # ""
    /\ secretLength > 0

\* buildTenantRuntimes: the runtimes by connector id; the last one stays.
Runtimes(cfg) ==
    [c \in {cfg.tenants[i].connectorID : i \in DOMAIN cfg.tenants} |->
        cfg.tenants[CHOOSE i \in DOMAIN cfg.tenants :
            /\ cfg.tenants[i].connectorID = c
            /\ \A j \in DOMAIN cfg.tenants :
                  cfg.tenants[j].connectorID = c => j <= i]]

\* What the other modules assume of a tenant's settings.
MeetsAssumptions(t) ==
    /\ \A f \in AlwaysPositive : t.numbers[f] \in Nat \ {0}
    /\ t.relay => t.numbers.reconnect_min_ms \in 1 .. t.numbers.reconnect_max_ms
    /\ t.heartbeat => t.numbers.timeout_ms \in 1 .. t.numbers.interval_ms
    /\ t.groups => /\ t.numbers.max_depth \in Nat \ {0}
                   /\ t.numbers.max_groups \in Nat \ {0}
=============================================================================

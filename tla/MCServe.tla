------------------------------ MODULE MCServe ------------------------------
(* Configurations for Serve, each one step from one where all is defaulted. *)
EXTENDS Serve

Prefix == <<"api", "auth", "directory-relay", "connect">>

Url == [scheme |-> "wss", host |-> "authrim:443", hostname |-> "authrim",
        path |-> Prefix \o <<"t1", "c1">>]

Plain == [tenantID |-> "t1", connectorID |-> "c1", kid |-> "k1",
          relay |-> TRUE, heartbeat |-> TRUE, groups |-> TRUE,
          url |-> Url, numbers |-> [f \in Numbers |-> 0]]

\* One number is given.
Numbered == {[Plain EXCEPT !.numbers[f] = v] : f \in Numbers, v \in {-1, 10}}
               \union {[Plain EXCEPT !.numbers[f] = 40000] :
                          f \in {"reconnect_min_ms", "reconnect_max_ms",
                                 "interval_ms", "timeout_ms", "max_groups"}}

\* The relay's URL is of another kind.
Urls == {NoURL, [Url EXCEPT !.host = "", !.hostname = ""],
         [Url EXCEPT !.scheme = "https"], [Url EXCEPT !.scheme = "ws"],
         [Url EXCEPT !.scheme = "ws", !.host = "[::1]:80", !.hostname = "::1"]}
           \union {[Url EXCEPT !.path = p] :
                      p \in {<<>>, Prefix \o <<"t1">>, <<"x">> \o Prefix \o <<"t1", "c1">>,
                             <<"x">> \o Tail(Prefix) \o <<"t1", "c1">>,
                             Prefix \o <<"t2", "c1">>, Prefix \o <<"t1", "c2">>}}

Tenants == {Plain} \union Numbered \union {[Plain EXCEPT !.url = u] : u \in Urls}
            \union {[Plain EXCEPT !.relay = FALSE, !.url = NoURL],
                    [Plain EXCEPT !.heartbeat = FALSE],
                    [Plain EXCEPT !.groups = FALSE, !.numbers["max_depth"] = -1],
                    [Plain EXCEPT !.connectorID = ""], [Plain EXCEPT !.kid = ""]}

\* Two tenants whose ids are or are not distinct.
Second(t, c, relay) ==
    [Plain EXCEPT !.tenantID = t, !.connectorID = c, !.relay = relay,
                  !.url.path = Prefix \o <<t, c>>]

MCConfigs ==
    {[mode |-> "", tenants |-> <<t>>] : t \in Tenants}
        \union {[mode |-> m, tenants |-> <<Plain, Second(t, c, r)>>] :
                   m \in {"", "multi_tenant"}, t \in {"t1", "t2"}, c \in {"c1", "c2"},
                   r \in BOOLEAN}
=============================================================================

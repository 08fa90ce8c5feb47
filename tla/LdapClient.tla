----------------------------- MODULE LdapClient -----------------------------
(***************************************************************************)
(* internal/adapters/ldap/client.go: VerifyPassword and TestConnection.    *)
(*                                                                         *)
(* Calls of concurrent handlers share one Client and with it the pool of   *)
(* idle connections.  A connection keeps the identity of its last bind,    *)
(* and what a search sees depends on it.  A step of the model is one       *)
(* exchange with the directory, or one operation on the pool.              *)
(*                                                                         *)
(* The directory is external: who may bind with which password and what a  *)
(* search by the service account finds are constants, and with Outages     *)
(* every exchange may also fail, its bind taking effect or not.            *)
(*                                                                         *)
(* Group search is left out: it changes neither the result nor the         *)
(* connection.  So is allowInsecure: it is for ldap test, a process with a *)
(* client of its own.                                                      *)
(***************************************************************************)
EXTENDS Integers, FiniteSets, Sequences

CONSTANTS
    Calls,          \* invocations, each used once
    Requests,       \* what they may ask for
    Configs,        \* the configurations considered
    MaxIdle,        \* pool.max_idle; 0 means no pool
    Endpoints,      \* how many endpoints are configured
    Conns,          \* connections, at least one for each call and idle place
    NoConn,
    Users,          \* usernames that Preprocess accepts
    Entries,        \* user entries of the directory
    NoEntry,
    Matching,       \* Matching[u]: the entries the service account finds for u
    Referred,       \* Referred[u]: the ones that lie behind a referral
    Named,          \* Named[u]: the entry that u's bind name or template denotes
    Password,       \* Password[e]
    Status,         \* Status[e]: "ok" or the reason why e may not log in
    Outages         \* may exchanges fail and contexts end?

Modes == {"search_then_bind", "dn_template", "direct_bind"}

ConfigType == [mode : Modes,
               serviceSearch : BOOLEAN,      \* serviceSearchAvailable
               subjectAttribute : BOOLEAN,   \* subjects are not named by their DN
               followReferrals : BOOLEAN,
               adStatus : BOOLEAN]           \* status_normalization

Refusals == {"invalid_credentials", "account_disabled", "account_locked",
             "password_expired", "must_change_password"}

DirectoryErrors == {"directory_error", "directory_unavailable",
                    "directory_tls_error", "directory_referral"}

Results == {"none", "success"} \union Refusals \union DirectoryErrors

\* test: a call of TestConnection. bind: a password is to be checked, as it always is
\* by VerifyPassword, and by ldap test only for a user. The user "" is no user.
RequestType == [test : BOOLEAN, user : STRING, password : STRING,
                bind : BOOLEAN, attributes : BOOLEAN]

ASSUME ClientAssumption ==
    /\ Configs \subseteq ConfigType
    /\ Requests \subseteq RequestType
    /\ \A q \in Requests : (~ q.test => q.bind) /\ (q.test /\ q.user = "" => ~ q.bind)
    /\ MaxIdle \in Nat /\ Endpoints \in Nat \ {0}
    /\ IsFiniteSet(Conns) /\ NoConn \notin Conns
    /\ Outages \in BOOLEAN

ASSUME DirectoryAssumption ==
    /\ NoEntry \notin Entries
    /\ Entries \intersect {"closed", "anonymous", "service", "unsettled"} = {}
    /\ "" \notin Users
    /\ Matching \in [Users -> SUBSET Entries]
    /\ Referred \in [Users -> SUBSET Entries]
    /\ Named \in [Users -> Entries \union {NoEntry}]
    /\ Status \in [Entries -> Refusals \union {"ok"}]

VARIABLES
    config,     \* the configuration of this process
    pc,         \* where each call is
    request,    \* what it was asked
    plan,       \* the exchanges it still has to make on its connection
    conn,       \* the connection it holds
    entry,      \* the entry it found, or derived from the template
    reusable,   \* may its connection go to the pool?
    result,     \* what it returns
    expired,    \* the calls whose context has ended
    identity,   \* of each connection: closed, or who its last bind was for
    idle        \* the pool (connections in it are interchangeable)

vars == <<config, pc, request, plan, conn, entry, reusable, result, expired,
          identity, idle>>

Exchanges == {"bind_service", "search", "read_entry", "bind_user", "restore"}

Locations == {"idle", "acquire", "validate", "dial", "work", "done"}

\* closed; open and never bound; its last bind failed, or may still take effect.
Identities == {"closed", "anonymous", "service", "unsettled"} \union Entries

-----------------------------------------------------------------------------
(* The exchanges that a request takes, in the order of the code *)

\* TestConnection. Without a user it only tries the service account.
TestPlan(q) ==
    IF q.user = "" THEN IF config.serviceSearch THEN <<"bind_service">> ELSE << >>
    ELSE IF config.mode = "dn_template"
    THEN IF q.bind THEN <<"bind_user", "restore">> ELSE << >>
    ELSE IF q.bind THEN <<"bind_service", "search", "bind_user", "restore">>
    ELSE <<"bind_service", "search">>

\* VerifyPassword. In dn_template the entry is read only for its attributes.
VerifyPlan(q) ==
    IF config.mode = "dn_template"
    THEN IF config.serviceSearch /\ (q.attributes \/ config.subjectAttribute)
         THEN <<"bind_user", "bind_service", "read_entry", "restore">>
         ELSE <<"bind_user", "restore">>
    ELSE IF config.mode = "direct_bind"
    THEN <<"bind_user", "bind_service", "search", "restore">>
    ELSE <<"bind_service", "search", "bind_user", "restore">>

Plan(q) == IF q.test THEN TestPlan(q) ELSE VerifyPlan(q)

\* The entry whose password the server may compare, if the bind name denotes one.
\* TestConnection binds with what resolveUser returns, which is the subject id. An
\* entry found behind a referral is bound here, where it may not be known.
BindEntries(c) ==
    LET q == request[c]
    IN  IF config.mode # "search_then_bind" THEN {Named[q.user]}
        ELSE IF q.test /\ config.subjectAttribute THEN {NoEntry}
        ELSE IF entry[c] \in Matching[q.user] THEN {entry[c]}
        ELSE {entry[c], NoEntry}

\* The server's verdict on a simple bind, as normalizeLDAPError reads it.
BindVerdict(e, password) ==
    IF e = NoEntry THEN "invalid_credentials"
    ELSE IF Password[e] # password THEN "invalid_credentials"
    ELSE IF Status[e] = "ok" \/ config.adStatus THEN Status[e]
    ELSE "invalid_credentials"

\* What a call gets instead of an answer. An ended context is noticed before the
\* exchange is made.
Faults(c) ==
    IF c \in expired THEN {"directory_unavailable"}
    ELSE IF Outages THEN {"directory_error", "directory_unavailable", "directory_referral"}
    ELSE {}

\* dial tries the endpoints in order; a TLS failure wins over the others.
DialResult(endpoints) ==
    LET met == {endpoints[i] : i \in 1 .. Endpoints}
    IN  IF "up" \in met THEN "up"
        ELSE IF "tls" \in met THEN "directory_tls_error"
        ELSE "directory_unavailable"

-----------------------------------------------------------------------------
(* Steps of a call *)

Init ==
    /\ config \in Configs
    /\ pc = [c \in Calls |-> "idle"]
    /\ request \in [Calls -> Requests]
    /\ plan = [c \in Calls |-> << >>]
    /\ conn = [c \in Calls |-> NoConn]
    /\ entry = [c \in Calls |-> NoEntry]
    /\ reusable = [c \in Calls |-> FALSE]
    /\ result = [c \in Calls |-> "none"]
    /\ expired = {}
    /\ identity = [k \in Conns |-> "closed"]
    /\ idle = {}

\* The call returns without a connection.
Return(c, code) ==
    /\ pc' = [pc EXCEPT ![c] = "done"]
    /\ result' = [result EXCEPT ![c] = code]

\* VerifyPassword refuses an empty password and an unacceptable username before
\* it needs a connection.
Start(c) ==
    /\ pc[c] = "idle"
    /\ IF ~ request[c].test /\ (request[c].password = "" \/ request[c].user \notin Users)
       THEN Return(c, "invalid_credentials")
       ELSE pc' = [pc EXCEPT ![c] = "acquire"] /\ UNCHANGED result
    /\ UNCHANGED <<config, request, plan, conn, entry, reusable, expired, identity, idle>>

\* acquireConn: an idle connection if there is one.
Acquire(c) ==
    /\ pc[c] = "acquire"
    /\ IF MaxIdle > 0 /\ idle # {}
       THEN \E k \in idle :
               /\ conn' = [conn EXCEPT ![c] = k]
               /\ idle' = idle \ {k}
               /\ pc' = [pc EXCEPT ![c] = "validate"]
       ELSE /\ pc' = [pc EXCEPT ![c] = "dial"]
            /\ UNCHANGED <<conn, idle>>
    /\ UNCHANGED <<config, request, plan, entry, reusable, result, expired, identity>>

\* The call has connection k and goes to work. TestConnection judges the username only
\* now; VerifyPassword has done so.
Connected(c, k) ==
    LET q == request[c]
    IN  /\ conn' = [conn EXCEPT ![c] = k]
        /\ pc' = [pc EXCEPT ![c] = "work"]
        /\ entry' = [entry EXCEPT ![c] = IF config.mode = "dn_template" /\ q.user \in Users
                                         THEN Named[q.user] ELSE NoEntry]
        /\ IF q.user \in Users \/ (q.test /\ q.user = "")
           THEN plan' = [plan EXCEPT ![c] = Plan(q)] /\ UNCHANGED result
           ELSE result' = [result EXCEPT ![c] = "directory_error"] /\ UNCHANGED plan

\* The attempts of call c to bind its connection as the service: the outcome code
\* and what it makes of the connection's identity. Where the code binds or requires
\* the service account, Validate of the configuration sees to bind_dn, base_dn and
\* user_filter; serviceSearch is then FALSE only because the resolved password is
\* empty, with which the LDAP library refuses to bind.
ServiceBind(c, code) ==
    \/ /\ code = "ok"
       /\ c \notin expired /\ config.serviceSearch
       /\ identity' = [identity EXCEPT ![conn[c]] = "service"]
    \/ /\ code \in Faults(c)
       /\ identity' = IF c \in expired THEN identity
                      ELSE [identity EXCEPT ![conn[c]] = "unsettled"]
    \/ /\ ~ config.serviceSearch                   \* refused without a password
       /\ code = "directory_error"
       /\ UNCHANGED identity

\* Mutant: a connection that fails its validation is dropped, but not closed.
Validate_Leaks(c) ==
    /\ pc[c] = "validate"
    /\ \/ ServiceBind(c, "ok") /\ Connected(c, conn[c])
       \/ /\ \E code \in DirectoryErrors : ServiceBind(c, code)
          /\ conn' = [conn EXCEPT ![c] = NoConn]
          /\ pc' = [pc EXCEPT ![c] = "dial"]
          /\ UNCHANGED <<entry, plan, result>>
    /\ UNCHANGED <<config, request, reusable, expired, idle>>

\* validatePooledConn: a connection that cannot be bound again is closed, and a
\* new one dialled.
Validate(c) ==
    /\ pc[c] = "validate"
    /\ \/ ServiceBind(c, "ok") /\ Connected(c, conn[c])
       \/ /\ c \in expired \/ Outages \/ ~ config.serviceSearch
          /\ identity' = [identity EXCEPT ![conn[c]] = "closed"]
          /\ conn' = [conn EXCEPT ![c] = NoConn]
          /\ pc' = [pc EXCEPT ![c] = "dial"]
          /\ UNCHANGED <<entry, plan, result>>
    /\ UNCHANGED <<config, request, reusable, expired, idle>>

Dial(c) ==
    /\ pc[c] = "dial"
    /\ \E endpoints \in [1 .. Endpoints -> IF c \in expired THEN {"down"}
                                          ELSE IF Outages THEN {"up", "down", "tls"}
                                          ELSE {"up"}] :
          LET outcome == DialResult(endpoints)
          IN  IF outcome = "up"
              THEN \E k \in Conns :
                      /\ identity[k] = "closed"
                      /\ identity' = [identity EXCEPT ![k] = "anonymous"]
                      /\ Connected(c, k)
              ELSE /\ Return(c, outcome)
                   /\ UNCHANGED <<conn, entry, plan, identity>>
    /\ UNCHANGED <<config, request, reusable, expired, idle>>

\* The exchange that call c is about to make.
Doing(c, exchange) == pc[c] = "work" /\ plan[c] # << >> /\ Head(plan[c]) = exchange

Proceed(c) == plan' = [plan EXCEPT ![c] = Tail(@)] /\ UNCHANGED result

\* The call gives up with a code; its connection is released next.
Fail(c, code) ==
    /\ plan' = [plan EXCEPT ![c] = << >>]
    /\ result' = [result EXCEPT ![c] = code]

\* Mutant: a refused service bind is read as a verdict on the user.
BindService_AsVerdict(c) ==
    /\ Doing(c, "bind_service")
    /\ \/ ServiceBind(c, "ok") /\ Proceed(c) /\ UNCHANGED reusable
       \/ \E code \in DirectoryErrors :
             ServiceBind(c, code) /\ Fail(c, "invalid_credentials") /\ UNCHANGED reusable
    /\ UNCHANGED <<config, pc, request, conn, entry, expired, idle>>

\* Mutant: a connection is marked reusable as soon as it is bound as the service.
BindService_MarksReusable(c) ==
    /\ Doing(c, "bind_service")
    /\ \/ ServiceBind(c, "ok") /\ Proceed(c) /\ reusable' = [reusable EXCEPT ![c] = TRUE]
       \/ \E code \in DirectoryErrors :
             ServiceBind(c, code) /\ Fail(c, code) /\ UNCHANGED reusable
    /\ UNCHANGED <<config, pc, request, conn, entry, expired, idle>>

\* bindService. Its failures are errors of the directory, never a verdict.
BindService(c) ==
    /\ Doing(c, "bind_service")
    /\ \/ /\ ServiceBind(c, "ok") /\ Proceed(c)
          /\ reusable' = [reusable EXCEPT ![c] = request[c].user = ""]
       \/ \E code \in DirectoryErrors :
             ServiceBind(c, code) /\ Fail(c, code) /\ UNCHANGED reusable
    /\ UNCHANGED <<config, pc, request, conn, entry, expired, idle>>

\* The code for a search that did not find exactly one entry. The attributes of
\* dn_template are left out if there is no entry.
NotOne(c, found) ==
    IF config.mode = "dn_template"
    THEN IF found = 0 THEN "ok" ELSE "directory_error"
    ELSE IF request[c].test THEN "directory_error" ELSE "invalid_credentials"

\* resolveUserWithAttributes: at most two entries are asked for. A server that has more
\* answers with an error, or ignores the limit and sends them all (the limit of
\* paged_search is one of the faults). A referral is followed once, if at all;
\* followReferrals says that it is allowed.
Search(c) ==
    /\ Doing(c, "search")
    /\ \/ \E code \in Faults(c) : Fail(c, code) /\ UNCHANGED entry
       \/ /\ c \notin expired
          /\ LET u        == request[c].user
                 local    == IF identity[conn[c]] = "service" THEN Matching[u] ELSE {}
                 found    == Cardinality(local) + Cardinality(Referred[u])
             IN  \/ /\ \/ Cardinality(local) > 2
                       \/ config.followReferrals /\ Cardinality(Referred[u]) > 2
                    /\ Fail(c, "directory_error") /\ UNCHANGED entry
                 \/ /\ Referred[u] # {} /\ ~ config.followReferrals
                    /\ Fail(c, "directory_referral") /\ UNCHANGED entry
                 \/ /\ Referred[u] = {} \/ config.followReferrals
                    /\ IF found = 1
                       THEN /\ Proceed(c)
                            /\ IF config.mode = "dn_template" THEN UNCHANGED entry
                               ELSE \E e \in local \union Referred[u] :
                                       entry' = [entry EXCEPT ![c] = e]
                       ELSE /\ UNCHANGED entry
                            /\ IF NotOne(c, found) = "ok" THEN Proceed(c)
                                                          ELSE Fail(c, NotOne(c, found))
    /\ UNCHANGED <<config, pc, request, conn, reusable, expired, identity, idle>>

\* resolveAttributesByDN: if the service account gets no entry, it is looked for by
\* the user's name instead; if it gets noSuchObject, the call fails.
ReadEntry(c) ==
    /\ Doing(c, "read_entry")
    /\ \/ \E code \in Faults(c) : Fail(c, code)
       \/ c \notin expired /\ Fail(c, "directory_error")
       \/ c \notin expired /\ Proceed(c)
       \/ /\ c \notin expired
          /\ plan' = [plan EXCEPT ![c] = <<"search">> \o Tail(@)]
          /\ UNCHANGED result
    /\ UNCHANGED <<config, pc, request, conn, entry, reusable, expired, identity, idle>>

\* Mutant: only the refusals of the verdict table stop the call.
BindUser_IgnoresFaults(c) ==
    /\ Doing(c, "bind_user")
    /\ \E e \in BindEntries(c) :
       LET outcome == BindVerdict(e, request[c].password)
       IN  \/ \E code \in Faults(c) :
                 Proceed(c) /\ identity' = [identity EXCEPT ![conn[c]] = "unsettled"]
           \/ /\ c \notin expired /\ outcome = "ok"
              /\ Proceed(c)
              /\ identity' = [identity EXCEPT ![conn[c]] = e]
           \/ /\ c \notin expired /\ outcome # "ok"
              /\ Fail(c, outcome)
              /\ identity' = [identity EXCEPT ![conn[c]] = "unsettled"]
    /\ UNCHANGED <<config, pc, request, conn, entry, reusable, expired, idle>>

\* bindUser. An empty password is refused here, without asking the server.
BindUser(c) ==
    /\ Doing(c, "bind_user")
    /\ \E e \in BindEntries(c) :
       LET outcome == BindVerdict(e, request[c].password)
       IN  IF request[c].password = ""
           THEN Fail(c, "invalid_credentials") /\ UNCHANGED identity
           ELSE \/ \E code \in Faults(c) :
                      /\ Fail(c, code)
                      /\ identity' = IF c \in expired THEN identity
                                     ELSE [identity EXCEPT ![conn[c]] = "unsettled"]
                \/ /\ c \notin expired /\ outcome = "ok"
                   /\ Proceed(c)
                   /\ identity' = [identity EXCEPT ![conn[c]] = e]
                \/ /\ c \notin expired /\ outcome # "ok"
                   /\ Fail(c, outcome)
                   /\ identity' = [identity EXCEPT ![conn[c]] = "unsettled"]
    /\ UNCHANGED <<config, pc, request, conn, entry, reusable, expired, idle>>

\* restoreServiceBindForReuse: whether it succeeds decides about the connection
\* only, the verdict is out already.
Restore(c) ==
    /\ Doing(c, "restore")
    /\ \/ /\ MaxIdle > 0 /\ ServiceBind(c, "ok")
          /\ reusable' = [reusable EXCEPT ![c] = TRUE]
       \/ /\ MaxIdle = 0 \/ ~ config.serviceSearch
          /\ UNCHANGED <<identity, reusable>>
       \/ /\ MaxIdle > 0 /\ config.serviceSearch
          /\ \E code \in DirectoryErrors : ServiceBind(c, code)
          /\ UNCHANGED reusable
    /\ Proceed(c)
    /\ UNCHANGED <<config, pc, request, conn, entry, expired, idle>>

\* Mutant: every connection is put back.
Release_Unbounded(c) ==
    /\ pc[c] = "work" /\ plan[c] = << >>
    /\ conn' = [conn EXCEPT ![c] = NoConn]
    /\ IF reusable[c] THEN idle' = idle \union {conn[c]} /\ UNCHANGED identity
       ELSE identity' = [identity EXCEPT ![conn[c]] = "closed"] /\ UNCHANGED idle
    /\ Return(c, IF result[c] = "none" THEN "success" ELSE result[c])
    /\ UNCHANGED <<config, request, plan, entry, reusable, expired>>

\* The deferred releaseConn: to the pool if there is room, or closed.
Release(c) ==
    /\ pc[c] = "work" /\ plan[c] = << >>
    /\ conn' = [conn EXCEPT ![c] = NoConn]
    /\ IF reusable[c] /\ Cardinality(idle) < MaxIdle
       THEN idle' = idle \union {conn[c]} /\ UNCHANGED identity
       ELSE identity' = [identity EXCEPT ![conn[c]] = "closed"] /\ UNCHANGED idle
    /\ Return(c, IF result[c] = "none" THEN "success" ELSE result[c])
    /\ UNCHANGED <<config, request, plan, entry, reusable, expired>>

\* The context of a call ends: its deadline, or its caller has hung up.
ContextEnds(c) ==
    /\ Outages
    /\ c \notin expired /\ pc[c] \notin {"idle", "done"}
    /\ expired' = expired \union {c}
    /\ UNCHANGED <<config, pc, request, plan, conn, entry, reusable, result, identity, idle>>

\* All calls have returned.
Finished ==
    /\ \A c \in Calls : pc[c] = "done"
    /\ UNCHANGED vars

Next ==
    \/ \E c \in Calls :
          \/ Start(c) \/ Acquire(c) \/ Validate(c) \/ Dial(c)
          \/ BindService(c) \/ Search(c) \/ ReadEntry(c) \/ BindUser(c) \/ Restore(c)
          \/ Release(c)
          \/ ContextEnds(c)
    \/ Finished

Spec == Init /\ [][Next]_vars

-----------------------------------------------------------------------------
(* Properties *)

\* The state has its types, and the pool is never fuller than max_idle.
TypeOK ==
    /\ config \in Configs
    /\ pc \in [Calls -> Locations]
    /\ request \in [Calls -> Requests]
    /\ plan \in [Calls -> Seq(Exchanges)]
    /\ conn \in [Calls -> Conns \union {NoConn}]
    /\ entry \in [Calls -> Entries \union {NoEntry}]
    /\ reusable \in [Calls -> BOOLEAN]
    /\ result \in [Calls -> Results]
    /\ expired \subseteq Calls
    /\ identity \in [Conns -> Identities]
    /\ idle \subseteq Conns /\ Cardinality(idle) <= MaxIdle

\* As docs/configuration.md has it, a connection goes to the idle pool only after its
\* service bind is restored: no idle connection is still bound as a user, or by a bind
\* whose outcome is unknown, after whatever failures of the calls that used it.
PoolServiceBound == \A k \in idle : identity[k] = "service"

\* Every open connection has one owner: it is idle, or held by a single call until
\* that call releases it. None leaks on any error path, and none is used by two calls.
Ownership ==
    /\ \A c \in Calls : conn[c] # NoConn => conn[c] \notin idle /\ identity[conn[c]] # "closed"
    /\ \A c, d \in Calls : conn[c] = conn[d] /\ conn[c] # NoConn => c = d
    /\ \A k \in Conns : identity[k] # "closed" => k \in idle \/ \E c \in Calls : conn[c] = k

\* The entry whose password a successful call has checked. In direct_bind it is the
\* operator's care that the filter finds the entry of the bind name.
Vouched(c) ==
    IF config.mode = "direct_bind" THEN Named[request[c].user] ELSE entry[c]

\* A call succeeds only if the server has just accepted the user's own password and one
\* entry was found for the subject: never on an empty password, never because the
\* service account was bound, never because the user bind or the search broke off.
NoFalseAccept ==
    \A c \in Calls :
        pc[c] = "done" /\ result[c] = "success" /\ request[c].bind =>
            /\ request[c].password # "" /\ request[c].user \in Users
            /\ entry[c] \in Entries /\ Vouched(c) \in Entries
            /\ Password[Vouched(c)] = request[c].password
            /\ Status[Vouched(c)] = "ok"

\* What the directory knows of u is one entry, found and bound under the same name,
\* with this password and in good standing.
NormalAccount(u, password) ==
    \E e \in Entries :
        /\ Matching[u] = {e} /\ Referred[u] = {} /\ Named[u] = e
        /\ password # "" /\ Password[e] = password /\ Status[e] = "ok"

\* A right password of a normal account is never called wrong by VerifyPassword:
\* outages, ended contexts and refusals of the service account end in an error.
NoFalseReject ==
    \A c \in Calls :
        /\ pc[c] = "done" /\ ~ request[c].test /\ request[c].user \in Users
        /\ NormalAccount(request[c].user, request[c].password)
        => result[c] \notin Refusals

\* As docs/production-hardening.md has it, ldap test works for a normal account.
TestWorksForNormalAccount ==
    \A c \in Calls :
        /\ pc[c] = "done" /\ request[c].test /\ request[c].user \in Users
        /\ NormalAccount(request[c].user, request[c].password)
        /\ request[c].bind /\ ~ Outages /\ config.serviceSearch
        => result[c] = "success"
=============================================================================

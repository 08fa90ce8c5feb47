----------------------------- MODULE LdapProofs -----------------------------
(***************************************************************************)
(* Theorems about the connections of LdapClient: who owns them, and as     *)
(* whom the ones in the pool are bound; and about its verdicts: what a     *)
(* call that succeeds has established, and what it may not refuse.         *)
(***************************************************************************)
EXTENDS LdapClient, FiniteSetTheorems, SequenceTheorems, TLAPS

\* Nothing is planned after the service bind that makes a connection reusable.
RestoreLast(p) == \A i \in 1 .. Len(p) : p[i] = "restore" => i = Len(p)

\* What a call knows of its connection and of its plan at each location.
Shape(c) ==
    /\ conn[c] # NoConn <=> pc[c] \in {"validate", "work"}
    /\ pc[c] # "work" => plan[c] = << >>
    /\ pc[c] \notin {"work", "done"} => ~ reusable[c]
    /\ request[c].user \notin Users => plan[c] \in {<< >>, <<"bind_service">>}
    /\ RestoreLast(plan[c])
    /\ pc[c] = "work" /\ reusable[c] =>
          plan[c] = << >> /\ identity[conn[c]] = "service"

\* The inductive invariant.
ClientInv ==
    /\ TypeOK
    /\ Ownership
    /\ PoolServiceBound
    /\ \A c \in Calls : Shape(c)

-----------------------------------------------------------------------------
(* Plans *)

\* A call that gives up has nothing left to do.
LEMMA EmptyPlan == << >> \in Seq(Exchanges) /\ RestoreLast(<< >>)
    BY DEF RestoreLast

\* Restoring stays last when an exchange is done, and is last when it is next.
LEMMA TailKeepsRestoreLast ==
    ASSUME NEW p \in Seq(Exchanges), p # << >>, RestoreLast(p)
    PROVE  /\ Tail(p) \in Seq(Exchanges) /\ RestoreLast(Tail(p))
           /\ Head(p) = "restore" => Tail(p) = << >>
<1>1. /\ Tail(p) \in Seq(Exchanges) /\ Len(Tail(p)) = Len(p) - 1
      /\ \A i \in 1 .. Len(Tail(p)) : Tail(p)[i] = p[i + 1]
    BY HeadTailProperties
<1>2. Len(p) \in Nat /\ Len(p) >= 1 /\ Head(p) = p[1]
    BY EmptySeq, LenProperties
<1>3. \A i \in 1 .. Len(p) : p[i] = "restore" => i = Len(p)
    BY DEF RestoreLast
<1>4. RestoreLast(Tail(p))
    <2> SUFFICES ASSUME NEW i \in 1 .. Len(Tail(p)), Tail(p)[i] = "restore"
                 PROVE  i = Len(Tail(p))
        BY DEF RestoreLast
    <2>1. i + 1 \in 1 .. Len(p) /\ p[i + 1] = "restore"
        BY <1>1, <1>2
    <2>2. i + 1 = Len(p)
        BY <1>3, <2>1
    <2>3. i \in Int /\ Len(p) \in Int /\ Len(Tail(p)) = Len(p) - 1
        BY <1>1, <1>2
    <2> QED
        BY <2>2, <2>3
<1>5. ASSUME Head(p) = "restore" PROVE Tail(p) = << >>
    <2>1. 1 \in 1 .. Len(p)
        BY <1>2
    <2>2. Len(p) = 1
        BY <1>2, <1>3, <1>5, <2>1
    <2>3. Len(Tail(p)) = 0
        BY <1>1, <2>2
    <2>4. Tail(p) # << >> => Len(Tail(p)) \in Nat \ {0}
        BY <1>1, EmptySeq
    <2> QED
        BY <2>3, <2>4
<1> QED
    BY <1>1, <1>4, <1>5

\* A search may take the place of the first exchange.
LEMMA SearchInstead ==
    ASSUME NEW p \in Seq(Exchanges), RestoreLast(p)
    PROVE  <<"search">> \o p \in Seq(Exchanges) /\ RestoreLast(<<"search">> \o p)
<1> DEFINE s == <<"search">>
<1>1. s \in Seq(Exchanges) /\ Len(s) = 1 /\ s[1] = "search" /\ Len(p) \in Nat
    BY LenProperties DEF Exchanges
<1> HIDE DEF s
<1>2. /\ s \o p \in Seq(Exchanges) /\ Len(s \o p) = Len(s) + Len(p)
      /\ \A i \in 1 .. Len(s) + Len(p) :
            (s \o p)[i] = IF i <= Len(s) THEN s[i] ELSE p[i - Len(s)]
    BY <1>1, ConcatProperties
<1>3. ASSUME NEW i \in 1 .. Len(s \o p), (s \o p)[i] = "restore" PROVE i = Len(s \o p)
    <2>1. i > 1 /\ p[i - 1] = "restore" /\ i - 1 \in 1 .. Len(p)
        BY <1>1, <1>2, <1>3
    <2> QED
        BY <1>1, <1>2, <2>1 DEF RestoreLast
<1> QED
    BY <1>2, <1>3 DEF RestoreLast, s

BindPlan == <<"bind_user", "restore">>

ReadPlan == <<"bind_user", "bind_service", "read_entry", "restore">>

SearchPlan == <<"bind_service", "search">>

BindSearchPlan == <<"bind_user", "bind_service", "search", "restore">>

SearchBindPlan == <<"bind_service", "search", "bind_user", "restore">>

\* The plan of each lookup mode.
LEMMA PlanOfMode ==
    ASSUME NEW q
    PROVE  /\ q.test /\ q.user = "" => Plan(q) \in {<< >>, <<"bind_service">>}
           /\ ~ (q.test /\ q.user = "") =>
                 /\ config.mode = "dn_template" =>
                       /\ Plan(q) \in {<< >>, BindPlan, ReadPlan}
                       /\ ~ q.test \/ q.bind => Plan(q) \in {BindPlan, ReadPlan}
                 /\ config.mode # "dn_template" =>
                       /\ Plan(q) \in {SearchPlan, BindSearchPlan, SearchBindPlan}
                       /\ ~ q.test \/ q.bind => Plan(q) # SearchPlan
                       /\ config.mode = "search_then_bind" => Plan(q) # BindSearchPlan
<1>1. SearchPlan # BindSearchPlan /\ SearchPlan # SearchBindPlan
    <2>1. Len(SearchPlan) = 2 /\ Len(BindSearchPlan) = 4 /\ Len(SearchBindPlan) = 4
        BY DEF SearchPlan, BindSearchPlan, SearchBindPlan
    <2> QED
        BY <2>1
<1>2. BindSearchPlan # SearchBindPlan
    <2>1. BindSearchPlan[1] = "bind_user" /\ SearchBindPlan[1] = "bind_service"
        BY DEF BindSearchPlan, SearchBindPlan
    <2> QED
        BY <2>1
<1>3. Plan(q) = IF q.test
                THEN IF q.user = ""
                     THEN IF config.serviceSearch THEN <<"bind_service">> ELSE << >>
                     ELSE IF config.mode = "dn_template"
                     THEN IF q.bind THEN BindPlan ELSE << >>
                     ELSE IF q.bind THEN SearchBindPlan ELSE SearchPlan
                ELSE IF config.mode = "dn_template"
                THEN IF config.serviceSearch /\ (q.attributes \/ config.subjectAttribute)
                     THEN ReadPlan ELSE BindPlan
                ELSE IF config.mode = "direct_bind" THEN BindSearchPlan ELSE SearchBindPlan
    BY Zenon DEF Plan, TestPlan, VerifyPlan, BindPlan, ReadPlan, SearchPlan, BindSearchPlan,
           SearchBindPlan
<1> QED
    BY <1>1, <1>2, <1>3

\* Every plan of VerifyPassword and TestConnection restores at its end, if at all.
LEMMA PlanShape ==
    ASSUME NEW q
    PROVE  /\ Plan(q) \in Seq(Exchanges) /\ RestoreLast(Plan(q))
           /\ q.test /\ q.user = "" => Plan(q) \in {<< >>, <<"bind_service">>}
<1>1. /\ "bind_user" \in Exchanges /\ "bind_service" \in Exchanges
      /\ "search" \in Exchanges /\ "read_entry" \in Exchanges /\ "restore" \in Exchanges
    BY DEF Exchanges
<1>2. <<"bind_service">> \in Seq(Exchanges) /\ RestoreLast(<<"bind_service">>)
    BY <1>1 DEF RestoreLast
<1>3. BindPlan \in Seq(Exchanges) /\ RestoreLast(BindPlan)
    BY <1>1 DEF RestoreLast, BindPlan
<1>4. ReadPlan \in Seq(Exchanges) /\ RestoreLast(ReadPlan)
    BY <1>1 DEF RestoreLast, ReadPlan
<1>5. SearchPlan \in Seq(Exchanges) /\ RestoreLast(SearchPlan)
    BY <1>1 DEF RestoreLast, SearchPlan
<1>6. BindSearchPlan \in Seq(Exchanges) /\ RestoreLast(BindSearchPlan)
    BY <1>1 DEF RestoreLast, BindSearchPlan
<1>7. SearchBindPlan \in Seq(Exchanges) /\ RestoreLast(SearchBindPlan)
    BY <1>1 DEF RestoreLast, SearchBindPlan
<1>8. Plan(q) \in {<< >>, <<"bind_service">>, BindPlan, ReadPlan, SearchPlan,
                   BindSearchPlan, SearchBindPlan}
    BY PlanOfMode
<1> QED
    BY <1>2, <1>3, <1>4, <1>5, <1>6, <1>7, <1>8, EmptyPlan, PlanOfMode

-----------------------------------------------------------------------------
(* Steps *)

\* An exchange of call c leaves its connection open and bound as x, what is left to
\* do is p, and the connection is reusable only as the service's with nothing to do.
LEMMA ExchangeStep ==
    ASSUME ClientInv, NEW c \in Calls, pc[c] = "work", plan[c] # << >>,
           UNCHANGED <<config, pc, request, conn, expired, idle>>,
           NEW x \in Identities \ {"closed"},
           identity' = [identity EXCEPT ![conn[c]] = x],
           NEW p \in Seq(Exchanges), RestoreLast(p),
           plan' = [plan EXCEPT ![c] = p],
           request[c].user \notin Users => p = << >>,
           NEW b \in BOOLEAN, b => p = << >> /\ x = "service",
           reusable' = [reusable EXCEPT ![c] = b],
           NEW r \in Results, result' = [result EXCEPT ![c] = r],
           NEW e \in Entries \union {NoEntry}, entry' = [entry EXCEPT ![c] = e]
    PROVE  ClientInv'
<1>1. conn[c] \in Conns
    BY DEF ClientInv, TypeOK, Shape
<1>2. TypeOK'
    BY <1>1 DEF ClientInv, TypeOK
<1>3. identity'[conn[c]] = x /\ \A k \in Conns \ {conn[c]} : identity'[k] = identity[k]
    BY <1>1 DEF ClientInv, TypeOK
<1>4. Ownership'
    BY <1>1, <1>3 DEF ClientInv, TypeOK, Ownership
<1>5. PoolServiceBound'
    <2>1. conn[c] \notin idle
        BY <1>1, ClientAssumption DEF ClientInv, Ownership
    <2> QED
        BY <1>3, <2>1 DEF ClientInv, TypeOK, PoolServiceBound
<1>6. ASSUME NEW d \in Calls PROVE Shape(d)'
    <2>1. CASE d = c
        BY <1>1, <1>3, <2>1 DEF ClientInv, TypeOK, Shape
    <2>2. CASE d # c
        <3>1. Shape(d) /\ plan'[d] = plan[d] /\ reusable'[d] = reusable[d]
            BY <2>2 DEF ClientInv, TypeOK
        <3>2. conn[d] # conn[c]
            BY <1>1, <2>2, ClientAssumption DEF ClientInv, Ownership
        <3>3. pc[d] = "work" => identity'[conn[d]] = identity[conn[d]]
            BY <1>3, <3>1, <3>2 DEF ClientInv, TypeOK, Shape
        <3> QED
            BY <3>1, <3>3 DEF Shape
    <2> QED
        BY <2>1, <2>2
<1> QED
    BY <1>2, <1>4, <1>5, <1>6 DEF ClientInv

\* What is left to do after an exchange that succeeds.
LEMMA TailStep ==
    ASSUME ClientInv, NEW c \in Calls, plan[c] # << >>
    PROVE  /\ Tail(plan[c]) \in Seq(Exchanges) /\ RestoreLast(Tail(plan[c]))
           /\ Head(plan[c]) = "restore" => Tail(plan[c]) = << >>
           /\ request[c].user \notin Users =>
                 Tail(plan[c]) = << >> /\ Head(plan[c]) = "bind_service"
           /\ ~ reusable[c] \/ pc[c] # "work"
<1>1. plan[c] \in Seq(Exchanges) /\ Shape(c)
    BY DEF ClientInv, TypeOK
<1>2. /\ Tail(plan[c]) \in Seq(Exchanges) /\ RestoreLast(Tail(plan[c]))
      /\ Head(plan[c]) = "restore" => Tail(plan[c]) = << >>
    BY <1>1, TailKeepsRestoreLast DEF Shape
<1>3. ASSUME request[c].user \notin Users
      PROVE  Tail(plan[c]) = << >> /\ Head(plan[c]) = "bind_service"
    <2>1. plan[c] = <<"bind_service">>
        BY <1>1, <1>3 DEF Shape
    <2> QED
        BY <2>1
<1> QED
    BY <1>1, <1>2, <1>3 DEF Shape

\* The connection of a working call is open.
LEMMA SameIdentity ==
    ASSUME ClientInv, NEW c \in Calls, pc[c] \in {"validate", "work"}
    PROVE  \E x \in Identities \ {"closed"} : identity = [identity EXCEPT ![conn[c]] = x]
<1>1. conn[c] \in Conns /\ conn[c] # NoConn
    BY DEF ClientInv, TypeOK, Shape
<1>2. identity \in [Conns -> Identities] /\ identity[conn[c]] # "closed"
    BY <1>1 DEF ClientInv, TypeOK, Ownership
<1>3. identity = [identity EXCEPT ![conn[c]] = identity[conn[c]]]
    BY <1>1, <1>2
<1> QED
    BY <1>1, <1>2, <1>3

\* A service bind leaves the connection open.
LEMMA ServiceBindEffect ==
    ASSUME ClientInv, NEW c \in Calls, pc[c] \in {"validate", "work"},
           NEW code, ServiceBind(c, code)
    PROVE  \E x \in Identities \ {"closed"} :
              /\ identity' = [identity EXCEPT ![conn[c]] = x]
              /\ code = "ok" => x = "service"
<1>1. PICK y \in Identities \ {"closed"} : identity = [identity EXCEPT ![conn[c]] = y]
    BY SameIdentity
<1>2. "service" \in Identities \ {"closed"} /\ "unsettled" \in Identities \ {"closed"}
    BY DEF Identities
<1>3. code \in Faults(c) => code # "ok"
    BY DEF Faults
<1> QED
    BY <1>1, <1>2, <1>3 DEF ServiceBind

\* The types of what the exchanges set.
LEMMA CallTypes ==
    ASSUME ClientInv, NEW c \in Calls
    PROVE  /\ plan[c] \in Seq(Exchanges) /\ result[c] \in Results
           /\ entry[c] \in Entries \union {NoEntry} /\ reusable[c] \in BOOLEAN
           /\ plan = [plan EXCEPT ![c] = plan[c]]
           /\ result = [result EXCEPT ![c] = result[c]]
           /\ entry = [entry EXCEPT ![c] = entry[c]]
           /\ reusable = [reusable EXCEPT ![c] = reusable[c]]
           /\ Faults(c) \subseteq DirectoryErrors /\ DirectoryErrors \subseteq Results
           /\ Refusals \subseteq Results
    BY DEF ClientInv, TypeOK, Faults, DirectoryErrors, Results

\* A new client has no connections and an empty pool.
LEMMA InitInv == Init => ClientInv
<1> SUFFICES ASSUME Init PROVE ClientInv
    OBVIOUS
<1>1. TypeOK
    <2>1. Cardinality({}) = 0
        BY FS_EmptySet
    <2>2. idle \subseteq Conns /\ Cardinality(idle) <= MaxIdle
        <3>1. idle = {} /\ MaxIdle \in Nat
            BY ClientAssumption DEF Init
        <3> QED
            BY <2>1, <3>1
    <2>3. plan \in [Calls -> Seq(Exchanges)]
        <3>1. << >> \in Seq(Exchanges)
            OBVIOUS
        <3> QED
            BY <3>1 DEF Init
    <2>4. /\ pc \in [Calls -> Locations] /\ conn \in [Calls -> Conns \union {NoConn}]
          /\ entry \in [Calls -> Entries \union {NoEntry}] /\ reusable \in [Calls -> BOOLEAN]
          /\ result \in [Calls -> Results] /\ identity \in [Conns -> Identities]
        BY DEF Init, Locations, Results, Identities
    <2>5. config \in Configs /\ request \in [Calls -> Requests] /\ expired \subseteq Calls
        BY DEF Init
    <2> QED
        BY <2>2, <2>3, <2>4, <2>5 DEF TypeOK
<1>2. Ownership /\ PoolServiceBound
    BY DEF Init, Ownership, PoolServiceBound
<1>3. ASSUME NEW c \in Calls PROVE Shape(c)
    BY DEF Init, Shape, RestoreLast
<1> QED
    BY <1>1, <1>2, <1>3 DEF ClientInv

\* What an exchange leaves of the plan and of the result, in either case.
LEMMA ProceedOrFail ==
    ASSUME ClientInv, NEW c \in Calls, plan[c] # << >>,
           Proceed(c) \/ \E code \in Results : Fail(c, code)
    PROVE  \E p \in Seq(Exchanges), r \in Results :
              /\ plan' = [plan EXCEPT ![c] = p] /\ RestoreLast(p)
              /\ result' = [result EXCEPT ![c] = r]
<1>1. CASE Proceed(c)
    <2>1. plan' = [plan EXCEPT ![c] = Tail(plan[c])] /\ result' = result
        BY <1>1 DEF Proceed
    <2>2. result[c] \in Results /\ result = [result EXCEPT ![c] = result[c]]
        BY CallTypes
    <2>3. Tail(plan[c]) \in Seq(Exchanges) /\ RestoreLast(Tail(plan[c]))
        BY TailStep
    <2> QED
        BY <2>1, <2>2, <2>3
<1>2. CASE \E code \in Results : Fail(c, code)
    BY <1>2, EmptyPlan DEF Fail
<1> QED
    BY <1>1, <1>2

\* bindService preserves the invariant, whether or not it succeeds.
LEMMA StepBindService == ASSUME ClientInv, NEW c \in Calls, BindService(c) PROVE ClientInv'
<1>1. pc[c] = "work" /\ plan[c] # << >> /\ Head(plan[c]) = "bind_service"
    BY DEF BindService, Doing
<1> USE CallTypes, TailStep
<1>2. CASE /\ ServiceBind(c, "ok") /\ Proceed(c)
           /\ reusable' = [reusable EXCEPT ![c] = request[c].user = ""]
    <2>1. PICK x \in Identities \ {"closed"} :
             identity' = [identity EXCEPT ![conn[c]] = x] /\ x = "service"
        BY <1>1, <1>2, ServiceBindEffect
    <2>2. request[c].user = "" => Tail(plan[c]) = << >>
        BY <1>1, DirectoryAssumption
    <2>3. plan' = [plan EXCEPT ![c] = Tail(plan[c])] /\ result' = result
        BY <1>2 DEF Proceed
    <2>4. UNCHANGED <<config, pc, request, conn, entry, expired, idle>>
        BY DEF BindService
    <2>5. (request[c].user = "") \in BOOLEAN
        OBVIOUS
    <2> QED
        BY <1>1, <1>2, <2>1, <2>2, <2>3, <2>4, <2>5, ExchangeStep
<1>3. CASE \E code \in DirectoryErrors :
              ServiceBind(c, code) /\ Fail(c, code) /\ UNCHANGED reusable
    <2>1. PICK code \in DirectoryErrors :
             ServiceBind(c, code) /\ Fail(c, code) /\ UNCHANGED reusable
        BY <1>3
    <2>2. PICK x \in Identities \ {"closed"} :
             identity' = [identity EXCEPT ![conn[c]] = x]
        BY <1>1, <2>1, ServiceBindEffect
    <2>3. plan' = [plan EXCEPT ![c] = << >>] /\ result' = [result EXCEPT ![c] = code]
        BY <2>1 DEF Fail
    <2>4. UNCHANGED <<config, pc, request, conn, entry, expired, idle>>
        BY DEF BindService
    <2> QED
        BY <1>1, <2>1, <2>2, <2>3, <2>4, ExchangeStep, EmptyPlan
<1> QED
    BY <1>2, <1>3 DEF BindService

\* resolveUserWithAttributes preserves the invariant, whether or not it succeeds.
LEMMA StepSearch == ASSUME ClientInv, NEW c \in Calls, Search(c) PROVE ClientInv'
<1>1. pc[c] = "work" /\ plan[c] # << >> /\ Head(plan[c]) = "search"
    BY DEF Search, Doing
<1>2. UNCHANGED <<config, pc, request, conn, reusable, expired, identity, idle>>
    BY DEF Search
<1> USE CallTypes, TailStep
<1>3. request[c].user \in Users
    BY <1>1
<1>4. \A x : NotOne(c, x) \in Results \union {"ok"}
    BY DEF NotOne, Results, Refusals, DirectoryErrors
<1>5. /\ "directory_error" \in Results /\ "directory_referral" \in Results
    BY DEF Results, DirectoryErrors
<1>6. Matching[request[c].user] \subseteq Entries /\ Referred[request[c].user] \subseteq Entries
    BY <1>3, DirectoryAssumption
<1>7. PICK e \in Entries \union {NoEntry} : entry' = [entry EXCEPT ![c] = e]
    <2>1. \/ UNCHANGED entry
          \/ \E e \in Matching[request[c].user] \union Referred[request[c].user] :
                entry' = [entry EXCEPT ![c] = e]
        BY DEF Search
    <2>2. entry[c] \in Entries \union {NoEntry} /\ entry = [entry EXCEPT ![c] = entry[c]]
        BY CallTypes
    <2> QED
        BY <1>6, <2>1, <2>2
<1>8. \/ Proceed(c)
      \/ \E code \in Results : Fail(c, code)
    BY <1>4, <1>5 DEF Search
<1>9. PICK p \in Seq(Exchanges), r \in Results :
         /\ plan' = [plan EXCEPT ![c] = p] /\ RestoreLast(p)
         /\ result' = [result EXCEPT ![c] = r]
    BY <1>1, <1>8, ProceedOrFail
<1>10. PICK x \in Identities \ {"closed"} : identity' = [identity EXCEPT ![conn[c]] = x]
    BY <1>1, <1>2, SameIdentity
<1> QED
    BY <1>1, <1>2, <1>3, <1>7, <1>9, <1>10, ExchangeStep

\* resolveAttributesByDN preserves the invariant, whether or not it succeeds.
LEMMA StepReadEntry == ASSUME ClientInv, NEW c \in Calls, ReadEntry(c) PROVE ClientInv'
<1>1. pc[c] = "work" /\ plan[c] # << >> /\ Head(plan[c]) = "read_entry"
    BY DEF ReadEntry, Doing
<1>2. UNCHANGED <<config, pc, request, conn, entry, reusable, expired, identity, idle>>
    BY DEF ReadEntry
<1> USE CallTypes, TailStep
<1>3. request[c].user \in Users
    BY <1>1
<1>4. PICK p \in {<< >>, Tail(plan[c]), <<"search">> \o Tail(plan[c])}, r \in Results :
         plan' = [plan EXCEPT ![c] = p] /\ result' = [result EXCEPT ![c] = r]
    <2>1. "directory_error" \in Results
        BY DEF Results, DirectoryErrors
    <2> QED
        BY <2>1 DEF ReadEntry, Proceed, Fail
<1>5. p \in Seq(Exchanges) /\ RestoreLast(p)
    <2>1. Tail(plan[c]) \in Seq(Exchanges) /\ RestoreLast(Tail(plan[c]))
        BY <1>1
    <2>2. /\ <<"search">> \o Tail(plan[c]) \in Seq(Exchanges)
          /\ RestoreLast(<<"search">> \o Tail(plan[c]))
        BY <2>1, SearchInstead
    <2> QED
        BY <1>4, <2>1, <2>2, EmptyPlan
<1>6. PICK x \in Identities \ {"closed"} : identity' = [identity EXCEPT ![conn[c]] = x]
    BY <1>1, <1>2, SameIdentity
<1> QED
    BY <1>1, <1>2, <1>3, <1>4, <1>5, <1>6, ExchangeStep

\* bindUser preserves the invariant, whether or not it succeeds.
LEMMA StepBindUser == ASSUME ClientInv, NEW c \in Calls, BindUser(c) PROVE ClientInv'
<1>1. pc[c] = "work" /\ plan[c] # << >> /\ Head(plan[c]) = "bind_user"
    BY DEF BindUser, Doing
<1>2. UNCHANGED <<config, pc, request, conn, entry, reusable, expired, idle>>
    BY DEF BindUser
<1> USE CallTypes, TailStep
<1>3. request[c].user \in Users
    BY <1>1
<1>4. ASSUME NEW e \in BindEntries(c)
      PROVE  LET outcome == BindVerdict(e, request[c].password)
             IN  IF outcome = "ok" THEN e \in Entries ELSE outcome \in Results
    <2>1. BindEntries(c) \subseteq Entries \union {NoEntry}
        <3>1. entry[c] \in Entries \union {NoEntry}
            BY CallTypes
        <3>2. Named[request[c].user] \in Entries \union {NoEntry}
            BY <1>3, DirectoryAssumption
        <3> QED
            BY <3>1, <3>2 DEF BindEntries
    <2>2. e \in Entries => Status[e] \in Refusals \union {"ok"}
        BY DirectoryAssumption
    <2>3. "invalid_credentials" \in Results /\ "invalid_credentials" # "ok"
        BY DEF Results, Refusals
    <2> QED
        BY <2>1, <2>2, <2>3 DEF BindVerdict
<1>5. "invalid_credentials" \in Results /\ "unsettled" \in Identities \ {"closed"}
    BY DEF Results, Refusals, Identities
<1>6. Entries \subseteq Identities \ {"closed"}
    BY DirectoryAssumption DEF Identities
<1>7. PICK y \in Identities \ {"closed"} : identity = [identity EXCEPT ![conn[c]] = y]
    BY <1>1, SameIdentity
<1>8. \E x \in Identities \ {"closed"} :
         /\ identity' = [identity EXCEPT ![conn[c]] = x]
         /\ Proceed(c) \/ \E code \in Results : Fail(c, code)
    <2>1. PICK e \in BindEntries(c) :
             LET outcome == BindVerdict(e, request[c].password)
             IN  IF request[c].password = ""
                 THEN Fail(c, "invalid_credentials") /\ UNCHANGED identity
                 ELSE \/ \E code \in Faults(c) :
                            /\ Fail(c, code)
                            /\ identity' = IF c \in expired THEN identity
                                           ELSE [identity EXCEPT ![conn[c]] = "unsettled"]
                      \/ /\ c \notin expired /\ outcome = "ok"
                         /\ Proceed(c)
                         /\ identity' = [identity EXCEPT ![conn[c]] = e]
                      \/ /\ c \notin expired /\ outcome # "ok"
                         /\ Fail(c, outcome)
                         /\ identity' = [identity EXCEPT ![conn[c]] = "unsettled"]
        BY DEF BindUser
    <2> QED
        BY <1>4, <1>5, <1>6, <1>7, <2>1
<1>9. PICK x \in Identities \ {"closed"} :
         /\ identity' = [identity EXCEPT ![conn[c]] = x]
         /\ Proceed(c) \/ \E code \in Results : Fail(c, code)
    BY <1>8
<1>10. PICK p \in Seq(Exchanges), r \in Results :
         /\ plan' = [plan EXCEPT ![c] = p] /\ RestoreLast(p)
         /\ result' = [result EXCEPT ![c] = r]
    BY <1>1, <1>9, ProceedOrFail
<1> QED
    BY <1>1, <1>2, <1>3, <1>9, <1>10, ExchangeStep

\* restoreServiceBindForReuse preserves the invariant, whether or not it succeeds.
LEMMA StepRestore == ASSUME ClientInv, NEW c \in Calls, Restore(c) PROVE ClientInv'
<1>1. pc[c] = "work" /\ plan[c] # << >> /\ Head(plan[c]) = "restore"
    BY DEF Restore, Doing
<1>2. UNCHANGED <<config, pc, request, conn, entry, expired, idle>>
    BY DEF Restore
<1> USE CallTypes, TailStep
<1>3. plan' = [plan EXCEPT ![c] = Tail(plan[c])] /\ result' = result
    BY DEF Restore, Proceed
<1>4. PICK x \in Identities \ {"closed"}, b \in BOOLEAN :
         /\ identity' = [identity EXCEPT ![conn[c]] = x]
         /\ reusable' = [reusable EXCEPT ![c] = b]
         /\ b => x = "service"
    <2>1. CASE ServiceBind(c, "ok") /\ reusable' = [reusable EXCEPT ![c] = TRUE]
        <3>1. PICK x \in Identities \ {"closed"} :
                 identity' = [identity EXCEPT ![conn[c]] = x] /\ x = "service"
            BY <1>1, <2>1, ServiceBindEffect
        <3> QED
            BY <2>1, <3>1
    <2>2. CASE UNCHANGED <<identity, reusable>>
        <3>1. PICK x \in Identities \ {"closed"} :
                 identity' = [identity EXCEPT ![conn[c]] = x]
            BY <1>1, <2>2, SameIdentity
        <3> QED
            BY <1>1, <2>2, <3>1
    <2>3. CASE /\ \E code \in DirectoryErrors : ServiceBind(c, code)
               /\ UNCHANGED reusable
        <3>1. PICK x \in Identities \ {"closed"} :
                 identity' = [identity EXCEPT ![conn[c]] = x]
            BY <1>1, <2>3, ServiceBindEffect
        <3> QED
            BY <1>1, <2>3, <3>1
    <2> QED
        BY <2>1, <2>2, <2>3 DEF Restore
<1> QED
    BY <1>1, <1>2, <1>3, <1>4, ExchangeStep

\* Steps of a call that holds no connection, or changes the one it holds.
LEMMA StepStart == ASSUME ClientInv, NEW c \in Calls, Start(c) PROVE ClientInv'
<1>1. /\ UNCHANGED <<config, request, plan, conn, entry, reusable, expired, identity, idle>>
      /\ pc[c] = "idle"
    BY DEF Start
<1>2. PICK l \in {"acquire", "done"}, r \in Results :
         pc' = [pc EXCEPT ![c] = l] /\ result' = [result EXCEPT ![c] = r]
    <2>1. "invalid_credentials" \in Results
        BY DEF Results, Refusals
    <2>2. result[c] \in Results /\ result = [result EXCEPT ![c] = result[c]]
        BY CallTypes
    <2>3. CASE Return(c, "invalid_credentials")
        BY <2>1, <2>3 DEF Return
    <2>4. CASE pc' = [pc EXCEPT ![c] = "acquire"] /\ UNCHANGED result
        BY <2>2, <2>4
    <2> QED
        BY <2>3, <2>4 DEF Start
<1>3. TypeOK'
    BY <1>1, <1>2 DEF ClientInv, TypeOK, Locations
<1>4. Ownership' /\ PoolServiceBound'
    BY <1>1 DEF ClientInv, Ownership, PoolServiceBound
<1>5. ASSUME NEW d \in Calls PROVE Shape(d)'
    BY <1>1, <1>2 DEF ClientInv, TypeOK, Shape
<1> QED
    BY <1>3, <1>4, <1>5 DEF ClientInv

\* Taking a connection from the pool keeps the pool within its limit.
LEMMA FewerIdle ==
    ASSUME ClientInv, NEW k
    PROVE  idle \ {k} \subseteq Conns /\ Cardinality(idle \ {k}) <= MaxIdle
<1>1. idle \subseteq Conns /\ IsFiniteSet(Conns) /\ Cardinality(idle) <= MaxIdle /\ MaxIdle \in Nat
    BY ClientAssumption DEF ClientInv, TypeOK
<1>2. IsFiniteSet(idle)
    BY <1>1, FS_Subset
<1>3. Cardinality(idle) \in Nat /\ Cardinality(idle \ {k}) \in {Cardinality(idle), Cardinality(idle) - 1}
    BY <1>2, FS_CardinalityType, FS_RemoveElement
<1> QED
    BY <1>1, <1>3

\* acquireConn preserves the invariant, whether or not it succeeds.
LEMMA StepAcquire == ASSUME ClientInv, NEW c \in Calls, Acquire(c) PROVE ClientInv'
<1>1. /\ UNCHANGED <<config, request, plan, entry, reusable, result, expired, identity>>
      /\ pc[c] = "acquire" /\ conn[c] = NoConn
    BY DEF Acquire, ClientInv, Shape
<1>2. CASE /\ pc' = [pc EXCEPT ![c] = "dial"]
           /\ UNCHANGED <<conn, idle>>
    <2>1. TypeOK'
        BY <1>1, <1>2 DEF ClientInv, TypeOK, Locations
    <2>2. Ownership' /\ PoolServiceBound'
        BY <1>1, <1>2 DEF ClientInv, Ownership, PoolServiceBound
    <2>3. ASSUME NEW d \in Calls PROVE Shape(d)'
        BY <1>1, <1>2 DEF ClientInv, TypeOK, Shape
    <2> QED
        BY <2>1, <2>2, <2>3 DEF ClientInv
<1>3. ASSUME NEW k \in idle, conn' = [conn EXCEPT ![c] = k], idle' = idle \ {k},
             pc' = [pc EXCEPT ![c] = "validate"]
      PROVE  ClientInv'
    <2>1. k \in Conns /\ k # NoConn /\ identity[k] = "service"
        BY ClientAssumption DEF ClientInv, TypeOK, PoolServiceBound
    <2>2. TypeOK'
        <3>1. idle' \subseteq Conns /\ Cardinality(idle') <= MaxIdle
            BY <1>3, FewerIdle
        <3> QED
            BY <1>1, <1>3, <2>1, <3>1 DEF ClientInv, TypeOK, Locations
    <2>3. \A d \in Calls : conn'[d] = IF d = c THEN k ELSE conn[d]
        BY <1>3 DEF ClientInv, TypeOK
    <2>4. \A d \in Calls : conn[d] # k
        BY <2>1 DEF ClientInv, Ownership
    <2>5. Ownership'
        <3>1. ASSUME NEW d \in Calls, conn'[d] # NoConn
              PROVE  conn'[d] \notin idle' /\ identity'[conn'[d]] # "closed"
            BY <1>1, <1>3, <2>1, <2>3, <3>1 DEF ClientInv, Ownership
        <3>2. ASSUME NEW d \in Calls, NEW f \in Calls, conn'[d] = conn'[f], conn'[d] # NoConn
              PROVE  d = f
            BY <2>3, <2>4, <3>2 DEF ClientInv, Ownership
        <3>3. ASSUME NEW j \in Conns, identity'[j] # "closed"
              PROVE  j \in idle' \/ \E d \in Calls : conn'[d] = j
            <4>1. j \in idle \/ \E d \in Calls : conn[d] = j
                BY <1>1, <3>3 DEF ClientInv, Ownership
            <4>2. j # NoConn
                BY ClientAssumption
            <4> QED
                BY <1>1, <1>3, <2>3, <4>1, <4>2
        <3> QED
            BY <3>1, <3>2, <3>3 DEF Ownership
    <2>6. PoolServiceBound'
        BY <1>1, <1>3 DEF ClientInv, PoolServiceBound
    <2>7. ASSUME NEW d \in Calls PROVE Shape(d)'
        BY <1>1, <1>3, <2>1, <2>3 DEF ClientInv, TypeOK, Shape
    <2> QED
        BY <2>2, <2>5, <2>6, <2>7 DEF ClientInv
<1> QED
    BY <1>2, <1>3 DEF Acquire

\* A call that gets connection k, its own or a closed one, bound as x.
LEMMA ConnectedStep ==
    ASSUME ClientInv, NEW c \in Calls, pc[c] \in {"validate", "dial"},
           NEW k \in Conns, k = conn[c] \/ (conn[c] = NoConn /\ identity[k] = "closed"),
           NEW x \in Identities \ {"closed"}, identity' = [identity EXCEPT ![k] = x],
           Connected(c, k), UNCHANGED <<config, request, reusable, expired, idle>>
    PROVE  ClientInv'
<1> DEFINE q == request[c]
<1>1. PICK e \in Entries \union {NoEntry} : entry' = [entry EXCEPT ![c] = e]
    <2>1. q.user \in Users => Named[q.user] \in Entries \union {NoEntry}
        BY DirectoryAssumption
    <2> QED
        BY <2>1 DEF Connected
<1>2. PICK p \in Seq(Exchanges) :
         /\ plan' = [plan EXCEPT ![c] = p] /\ RestoreLast(p)
         /\ q.user \notin Users => p \in {<< >>, <<"bind_service">>}
    <2>1. CASE /\ plan' = [plan EXCEPT ![c] = Plan(q)]
               /\ q.user \in Users \/ (q.test /\ q.user = "")
        BY <2>1, PlanShape
    <2>2. CASE UNCHANGED plan
        <3>1. plan[c] = << >> /\ plan = [plan EXCEPT ![c] = plan[c]]
            BY CallTypes DEF ClientInv, Shape
        <3> QED
            BY <2>2, <3>1, EmptyPlan
    <2> QED
        BY <2>1, <2>2 DEF Connected
<1>3. PICK r \in Results : result' = [result EXCEPT ![c] = r]
    <2>1. "directory_error" \in Results
        BY DEF Results, DirectoryErrors
    <2>2. result[c] \in Results /\ result = [result EXCEPT ![c] = result[c]]
        BY CallTypes
    <2> QED
        BY <2>1, <2>2 DEF Connected
<1>4. /\ plan' = [plan EXCEPT ![c] = p] /\ p \in Seq(Exchanges) /\ RestoreLast(p)
      /\ q.user \notin Users => p \in {<< >>, <<"bind_service">>}
      /\ result' = [result EXCEPT ![c] = r] /\ entry' = [entry EXCEPT ![c] = e]
    BY <1>1, <1>2, <1>3
<1>5. conn' = [conn EXCEPT ![c] = k] /\ pc' = [pc EXCEPT ![c] = "work"]
    BY DEF Connected
<1>6. TypeOK'
    BY <1>4, <1>5 DEF ClientInv, TypeOK, Locations
<1>7. k # NoConn /\ k \notin idle /\ \A d \in Calls \ {c} : conn[d] # k
    <2>1. k # NoConn
        BY ClientAssumption
    <2>2. CASE k = conn[c]
        BY <2>1, <2>2 DEF ClientInv, Ownership
    <2>3. CASE identity[k] = "closed"
        BY <2>1, <2>3 DEF ClientInv, PoolServiceBound, Ownership
    <2> QED
        BY <2>1, <2>2, <2>3
<1>8. /\ \A d \in Calls : conn'[d] = IF d = c THEN k ELSE conn[d]
      /\ \A j \in Conns : identity'[j] = IF j = k THEN x ELSE identity[j]
    BY <1>5 DEF ClientInv, TypeOK
<1>9. Ownership'
    <2>1. ASSUME NEW d \in Calls, conn'[d] # NoConn
          PROVE  conn'[d] \notin idle' /\ identity'[conn'[d]] # "closed"
        <3>1. CASE d = c
            BY <1>7, <1>8, <3>1
        <3>2. CASE d # c
            <4>1. /\ conn'[d] = conn[d] /\ conn[d] \in Conns /\ conn[d] # k
                  /\ conn[d] \notin idle /\ identity[conn[d]] # "closed"
                BY <1>7, <1>8, <2>1, <3>2 DEF ClientInv, TypeOK, Ownership
            <4> QED
                BY <1>8, <4>1
        <3> QED
            BY <3>1, <3>2
    <2>2. ASSUME NEW d \in Calls, NEW f \in Calls, conn'[d] = conn'[f], conn'[d] # NoConn
          PROVE  d = f
        BY <1>7, <1>8, <2>2 DEF ClientInv, Ownership
    <2>3. ASSUME NEW j \in Conns, identity'[j] # "closed"
          PROVE  j \in idle' \/ \E d \in Calls : conn'[d] = j
        <3>1. CASE j = k
            BY <1>8, <3>1
        <3>2. CASE j # k
            <4>1. j \in idle \/ \E d \in Calls : conn[d] = j
                BY <1>8, <2>3, <3>2 DEF ClientInv, Ownership
            <4>2. conn[c] # j
                BY <3>2, ClientAssumption
            <4> QED
                BY <1>8, <4>1, <4>2
        <3> QED
            BY <3>1, <3>2
    <2> QED
        BY <2>1, <2>2, <2>3 DEF Ownership
<1>10. PoolServiceBound'
    BY <1>7, <1>8 DEF ClientInv, TypeOK, PoolServiceBound
<1>11. ASSUME NEW d \in Calls PROVE Shape(d)'
    <2>1. CASE d = c
        BY <1>4, <1>5, <1>7, <1>8, <2>1 DEF ClientInv, TypeOK, Shape
    <2>2. CASE d # c
        <3>1. Shape(d) /\ plan'[d] = plan[d] /\ pc'[d] = pc[d] /\ conn'[d] = conn[d]
            BY <1>4, <1>5, <1>8, <2>2 DEF ClientInv, TypeOK
        <3>2. pc[d] = "work" => conn[d] \in Conns /\ identity'[conn[d]] = identity[conn[d]]
            BY <1>7, <1>8, <2>2, <3>1 DEF ClientInv, TypeOK, Shape
        <3> QED
            BY <3>1, <3>2 DEF Shape
    <2> QED
        BY <2>1, <2>2
<1> QED
    BY <1>6, <1>9, <1>10, <1>11 DEF ClientInv

\* A call that closes its connection, or leaves it in the pool, and goes to l.
LEMMA DropStep ==
    ASSUME ClientInv, NEW c \in Calls, pc[c] \in {"validate", "work"}, plan[c] = << >>,
           conn' = [conn EXCEPT ![c] = NoConn],
           NEW l \in {"dial", "done"}, pc' = [pc EXCEPT ![c] = l],
           l = "dial" => ~ reusable[c],
           NEW r \in Results, result' = [result EXCEPT ![c] = r],
           UNCHANGED <<config, request, plan, entry, reusable, expired>>,
           \/ /\ identity' = [identity EXCEPT ![conn[c]] = "closed"]
              /\ UNCHANGED idle
           \/ /\ idle' = idle \union {conn[c]} /\ Cardinality(idle) < MaxIdle
              /\ identity[conn[c]] = "service"
              /\ UNCHANGED identity
    PROVE  ClientInv'
<1>1. conn[c] \in Conns /\ conn[c] # NoConn /\ conn[c] \notin idle
    BY DEF ClientInv, TypeOK, Shape, Ownership
<1>2. \A d \in Calls : conn'[d] = IF d = c THEN NoConn ELSE conn[d]
    BY DEF ClientInv, TypeOK
<1>3. \A d \in Calls \ {c} : conn[d] # conn[c]
    BY <1>1 DEF ClientInv, Ownership
<1>4. "closed" \in Identities
    BY DEF Identities
<1>5. \A k \in Conns \ {conn[c]} : identity'[k] = identity[k] /\ (k \in idle' <=> k \in idle)
    BY <1>1 DEF ClientInv, TypeOK
<1>6. idle' \subseteq Conns /\ Cardinality(idle') <= MaxIdle
    <2>1. CASE UNCHANGED idle
        BY <2>1 DEF ClientInv, TypeOK
    <2>2. CASE idle' = idle \union {conn[c]} /\ Cardinality(idle) < MaxIdle
        <3>1. idle \subseteq Conns /\ IsFiniteSet(Conns) /\ MaxIdle \in Nat
            BY ClientAssumption DEF ClientInv, TypeOK
        <3>2. IsFiniteSet(idle)
            BY <3>1, FS_Subset
        <3>3. Cardinality(idle) \in Nat /\ Cardinality(idle') = Cardinality(idle) + 1
            BY <1>1, <2>2, <3>2, FS_CardinalityType, FS_AddElement
        <3> QED
            BY <1>1, <2>2, <3>1, <3>3
    <2> QED
        BY <2>1, <2>2
<1>7. TypeOK'
    BY <1>1, <1>4, <1>6 DEF ClientInv, TypeOK, Locations
<1>8. Ownership'
    <2>1. ASSUME NEW d \in Calls, conn'[d] # NoConn
          PROVE  conn'[d] \notin idle' /\ identity'[conn'[d]] # "closed"
        <3>1. d # c /\ conn'[d] = conn[d] /\ conn[d] \in Conns /\ conn[d] # conn[c]
            BY <1>2, <1>3, <2>1 DEF ClientInv, TypeOK
        <3>2. conn[d] \notin idle /\ identity[conn[d]] # "closed"
            BY <2>1, <3>1 DEF ClientInv, Ownership
        <3> QED
            BY <1>5, <3>1, <3>2
    <2>2. ASSUME NEW d \in Calls, NEW f \in Calls, conn'[d] = conn'[f], conn'[d] # NoConn
          PROVE  d = f
        BY <1>2, <2>2 DEF ClientInv, Ownership
    <2>3. ASSUME NEW j \in Conns, identity'[j] # "closed"
          PROVE  j \in idle' \/ \E d \in Calls : conn'[d] = j
        <3>1. CASE j = conn[c]
            BY <1>1, <2>3, <3>1 DEF ClientInv, TypeOK
        <3>2. CASE j # conn[c]
            <4>1. j \in idle \/ \E d \in Calls : conn[d] = j
                BY <1>5, <2>3, <3>2 DEF ClientInv, Ownership
            <4> QED
                BY <1>2, <1>5, <3>2, <4>1
        <3> QED
            BY <3>1, <3>2
    <2> QED
        BY <2>1, <2>2, <2>3 DEF Ownership
<1>9. PoolServiceBound'
    <2> SUFFICES ASSUME NEW k \in idle' PROVE identity'[k] = "service"
        BY DEF PoolServiceBound
    <2>1. CASE k = conn[c]
        BY <1>1, <2>1
    <2>2. CASE k # conn[c]
        BY <1>5, <1>6, <2>2 DEF ClientInv, PoolServiceBound
    <2> QED
        BY <2>1, <2>2
<1>10. ASSUME NEW d \in Calls PROVE Shape(d)'
    <2>1. CASE d = c
        BY <1>2, <2>1 DEF ClientInv, TypeOK, Shape
    <2>2. CASE d # c
        <3>1. Shape(d) /\ pc'[d] = pc[d] /\ conn'[d] = conn[d] /\ plan'[d] = plan[d]
            BY <1>2, <2>2 DEF ClientInv, TypeOK
        <3>2. pc[d] = "work" => identity'[conn[d]] = identity[conn[d]]
            BY <1>3, <1>5, <2>2, <3>1 DEF ClientInv, TypeOK, Shape
        <3> QED
            BY <3>1, <3>2 DEF Shape
    <2> QED
        BY <2>1, <2>2
<1> QED
    BY <1>7, <1>8, <1>9, <1>10 DEF ClientInv

\* validatePooledConn preserves the invariant, whether or not it succeeds.
LEMMA StepValidate == ASSUME ClientInv, NEW c \in Calls, Validate(c) PROVE ClientInv'
<1>1. pc[c] = "validate" /\ UNCHANGED <<config, request, reusable, expired, idle>>
    BY DEF Validate
<1>2. conn[c] \in Conns /\ plan[c] = << >> /\ ~ reusable[c]
    BY <1>1 DEF ClientInv, TypeOK, Shape
<1>3. CASE ServiceBind(c, "ok") /\ Connected(c, conn[c])
    <2>1. PICK x \in Identities \ {"closed"} : identity' = [identity EXCEPT ![conn[c]] = x]
        BY <1>1, <1>3, ServiceBindEffect
    <2> QED
        BY <1>1, <1>2, <1>3, <2>1, ConnectedStep
<1>4. CASE /\ identity' = [identity EXCEPT ![conn[c]] = "closed"]
           /\ conn' = [conn EXCEPT ![c] = NoConn]
           /\ pc' = [pc EXCEPT ![c] = "dial"]
           /\ UNCHANGED <<entry, plan, result>>
    BY <1>1, <1>2, <1>4, DropStep, CallTypes
<1> QED
    BY <1>3, <1>4 DEF Validate

\* releaseConn preserves the invariant, whether or not it succeeds.
LEMMA StepRelease == ASSUME ClientInv, NEW c \in Calls, Release(c) PROVE ClientInv'
<1>1. /\ pc[c] = "work" /\ plan[c] = << >>
      /\ conn' = [conn EXCEPT ![c] = NoConn] /\ pc' = [pc EXCEPT ![c] = "done"]
      /\ UNCHANGED <<config, request, plan, entry, reusable, expired>>
    BY DEF Release, Return
<1>2. PICK r \in Results : result' = [result EXCEPT ![c] = r]
    <2>1. result[c] \in Results /\ "success" \in Results
        BY CallTypes DEF Results
    <2> QED
        BY <2>1 DEF Release, Return
<1>3. reusable[c] => identity[conn[c]] = "service"
    BY <1>1 DEF ClientInv, Shape
<1>4. \/ /\ identity' = [identity EXCEPT ![conn[c]] = "closed"]
         /\ UNCHANGED idle
      \/ /\ idle' = idle \union {conn[c]} /\ Cardinality(idle) < MaxIdle
         /\ identity[conn[c]] = "service"
         /\ UNCHANGED identity
    BY <1>3 DEF Release
<1> QED
    BY <1>1, <1>2, <1>4, DropStep

\* dial preserves the invariant, whether or not it succeeds.
LEMMA StepDial == ASSUME ClientInv, NEW c \in Calls, Dial(c) PROVE ClientInv'
<1>1. pc[c] = "dial" /\ UNCHANGED <<config, request, reusable, expired, idle>>
    BY DEF Dial
<1>2. conn[c] = NoConn
    BY <1>1 DEF ClientInv, Shape
<1>3. ASSUME NEW k \in Conns, identity[k] = "closed",
             identity' = [identity EXCEPT ![k] = "anonymous"], Connected(c, k)
      PROVE  ClientInv'
    <2>1. "anonymous" \in Identities \ {"closed"}
        BY DEF Identities
    <2> QED
        BY <1>1, <1>2, <1>3, <2>1, ConnectedStep
<1>4. ASSUME NEW code \in Results, Return(c, code), UNCHANGED <<conn, entry, plan, identity>>
      PROVE  ClientInv'
    <2>1. pc' = [pc EXCEPT ![c] = "done"] /\ result' = [result EXCEPT ![c] = code]
        BY <1>4 DEF Return
    <2>2. TypeOK'
        BY <1>1, <1>4, <2>1 DEF ClientInv, TypeOK, Locations
    <2>3. Ownership' /\ PoolServiceBound'
        BY <1>1, <1>4 DEF ClientInv, Ownership, PoolServiceBound
    <2>4. ASSUME NEW d \in Calls PROVE Shape(d)'
        BY <1>1, <1>2, <1>4, <2>1 DEF ClientInv, TypeOK, Shape
    <2> QED
        BY <2>2, <2>3, <2>4 DEF ClientInv
<1>5. \A f : DialResult(f) \in {"up", "directory_tls_error", "directory_unavailable"}
    BY DEF DialResult
<1>6. "directory_tls_error" \in Results /\ "directory_unavailable" \in Results
    BY DEF Results, DirectoryErrors
<1>7. \/ \E k \in Conns : /\ identity[k] = "closed"
                          /\ identity' = [identity EXCEPT ![k] = "anonymous"]
                          /\ Connected(c, k)
      \/ \E code \in Results :
            Return(c, code) /\ UNCHANGED <<conn, entry, plan, identity>>
    BY <1>5, <1>6 DEF Dial
<1> QED
    BY <1>3, <1>4, <1>7

-----------------------------------------------------------------------------
(* Theorems *)

\* Every step of every call preserves the invariant.
LEMMA InvNext == ClientInv /\ [Next]_vars => ClientInv'
<1> SUFFICES ASSUME ClientInv, [Next]_vars PROVE ClientInv'
    OBVIOUS
<1>1. ASSUME NEW c \in Calls, ContextEnds(c) PROVE ClientInv'
    <2>1. /\ UNCHANGED <<config, pc, request, plan, conn, entry, reusable, result,
                         identity, idle>>
          /\ expired' \subseteq Calls
        BY <1>1 DEF ContextEnds, ClientInv, TypeOK
    <2> QED
        BY <2>1 DEF ClientInv, TypeOK, Ownership, PoolServiceBound, Shape
<1>2. CASE UNCHANGED vars
    BY <1>2 DEF vars, ClientInv, TypeOK, Ownership, PoolServiceBound, Shape
<1> QED
    BY <1>1, <1>2, StepStart, StepAcquire, StepValidate, StepDial, StepBindService,
       StepSearch, StepReadEntry, StepBindUser, StepRestore, StepRelease
       DEF Next, Finished

\* The invariant holds of the client in every state: through all the exchanges, failures
\* and pool operations of VerifyPassword and TestConnection.
THEOREM ClientInvAlways == Spec => []ClientInv
    BY InitInv, InvNext, PTL DEF Spec

\* The pool is never fuller than max_idle, and the state of calls and connections has
\* its types, for any number of calls, connections and endpoints.
THEOREM ClientTypeCorrect == Spec => []TypeOK
<1>1. ClientInv => TypeOK
    BY DEF ClientInv
<1> QED
    BY <1>1, ClientInvAlways, PTL

\* A connection is idle, or held by one call, or closed: none leaks and none is shared,
\* whichever exchange of whichever call fails.
THEOREM OwnershipAlways == Spec => []Ownership
<1>1. ClientInv => Ownership
    BY DEF ClientInv
<1> QED
    BY <1>1, ClientInvAlways, PTL

\* A connection in the pool is bound as the service account.
THEOREM PoolServiceBoundAlways == Spec => []PoolServiceBound
<1>1. ClientInv => PoolServiceBound
    BY DEF ClientInv
<1> QED
    BY <1>1, ClientInvAlways, PTL

-----------------------------------------------------------------------------
(* What is known of a call's verdict *)

Has(p, a) == \E i \in 1 .. Len(p) : p[i] = a

\* Every search comes right after a bind as the service account.
ServiceSearches(p) ==
    \A i \in 2 .. Len(p) : p[i] = "search" => p[i - 1] = "bind_service"

\* The user is bound only once it has been searched for.
SearchFirst(p) ==
    \A i, j \in 1 .. Len(p) : p[i] = "search" /\ p[j] = "bind_user" => i < j

\* The server has accepted the password of the entry that the call vouches for.
Accepted(c) ==
    /\ request[c].password # "" /\ Vouched(c) \in Entries
    /\ Password[Vouched(c)] = request[c].password
    /\ Status[Vouched(c)] = "ok"

\* What the rest of the plan says of the entry: it is that of the template, or was
\* found by the search if that is over, and is searched for as the service.
Found(c) ==
    /\ config.mode = "dn_template" => entry[c] = Named[request[c].user]
    /\ config.mode # "dn_template" =>
          /\ ~ Has(plan[c], "read_entry")
          /\ ~ Has(plan[c], "search") =>
                entry[c] \in Matching[request[c].user] \union Referred[request[c].user]
          /\ ServiceSearches(plan[c])
          /\ plan[c] # << >> /\ Head(plan[c]) = "search" => identity[conn[c]] = "service"

\* What the rest of the plan says of the password: it was accepted, if the user's
\* bind is over, and no search changes the entry from then on.
Bound(c) ==
    /\ config.mode = "search_then_bind" =>
          SearchFirst(plan[c]) /\ (Has(plan[c], "search") => Has(plan[c], "bind_user"))
    /\ ~ Has(plan[c], "bind_user") => Accepted(c)

Undecided(c) == pc[c] = "work" /\ result[c] = "none"

\* The right password of a normal account is not refused, at any time.
NotRefused(c) ==
    /\ ~ request[c].test /\ request[c].user \in Users
    /\ NormalAccount(request[c].user, request[c].password)
    => result[c] \notin Refusals

Verdict(c) ==
    /\ pc[c] \notin {"work", "done"} => result[c] = "none"
    /\ pc[c] \notin {"idle", "done"} /\ ~ request[c].test => request[c].user \in Users
    /\ pc[c] = "work" => result[c] # "success" /\ (result[c] # "none" => plan[c] = << >>)
    /\ Undecided(c) => request[c].user \in Users \union {""}
    /\ Undecided(c) /\ request[c].user \in Users =>
          Found(c) /\ (request[c].bind => Bound(c))
    /\ pc[c] = "done" /\ result[c] = "success" /\ request[c].bind =>
          request[c].user \in Users /\ entry[c] \in Entries /\ Accepted(c)
    /\ NotRefused(c)

\* The inductive invariant of the verdicts: what each call knows while it works, and
\* what it may have answered.
VerdictInv == \A c \in Calls : Verdict(c)

-----------------------------------------------------------------------------
(* Plans and verdicts *)

\* What is left of a plan when its first exchange is done.
LEMMA TailHas ==
    ASSUME NEW p \in Seq(Exchanges), p # << >>
    PROVE  /\ \A a : Has(p, a) <=> Head(p) = a \/ Has(Tail(p), a)
           /\ ServiceSearches(p) => ServiceSearches(Tail(p))
           /\ SearchFirst(p) => SearchFirst(Tail(p))
           /\ SearchFirst(p) /\ Head(p) = "bind_user" => ~ Has(Tail(p), "search")
           /\ ServiceSearches(p) /\ Tail(p) # << >> /\ Head(Tail(p)) = "search" =>
                 Head(p) = "bind_service"
<1> DEFINE t == Tail(p)
<1>1. /\ t \in Seq(Exchanges) /\ Len(t) = Len(p) - 1
      /\ \A i \in 1 .. Len(t) : t[i] = p[i + 1]
    BY HeadTailProperties
<1>2. Len(p) \in Nat /\ Len(p) >= 1 /\ Head(p) = p[1] /\ Len(t) \in Nat
    BY <1>1, EmptySeq, LenProperties
<1>3. t # << >> => Len(t) >= 1 /\ Head(t) = t[1]
    BY <1>1, EmptySeq, LenProperties
<1> HIDE DEF t
<1>4. ASSUME NEW a PROVE Has(p, a) <=> Head(p) = a \/ Has(t, a)
    <2>1. ASSUME NEW i \in 1 .. Len(p), p[i] = a, i # 1 PROVE Has(t, a)
        <3>1. i - 1 \in 1 .. Len(t) /\ t[i - 1] = p[(i - 1) + 1] /\ (i - 1) + 1 = i
            BY <1>1, <1>2, <2>1
        <3> QED
            BY <2>1, <3>1 DEF Has
    <2>2. ASSUME NEW i \in 1 .. Len(t), t[i] = a PROVE Has(p, a)
        <3>1. i + 1 \in 1 .. Len(p) /\ p[i + 1] = a
            BY <1>1, <1>2, <2>2
        <3> QED
            BY <3>1 DEF Has
    <2>3. 1 \in 1 .. Len(p)
        BY <1>2
    <2> QED
        BY <1>2, <2>1, <2>2, <2>3 DEF Has
<1>5. ASSUME ServiceSearches(p), NEW i \in 2 .. Len(t), t[i] = "search"
      PROVE  t[i - 1] = "bind_service"
    <2>1. /\ i + 1 \in 2 .. Len(p) /\ t[i] = p[i + 1] /\ (i + 1) - 1 = (i - 1) + 1
          /\ i - 1 \in 1 .. Len(t) /\ t[i - 1] = p[(i - 1) + 1]
        BY <1>1, <1>2
    <2> QED
        BY <1>5, <2>1 DEF ServiceSearches
<1>6. ASSUME SearchFirst(p), NEW i \in 1 .. Len(t), NEW j \in 1 .. Len(t),
             t[i] = "search", t[j] = "bind_user"
      PROVE  i < j
    <2>1. /\ i + 1 \in 1 .. Len(p) /\ j + 1 \in 1 .. Len(p)
          /\ p[i + 1] = "search" /\ p[j + 1] = "bind_user"
        BY <1>1, <1>2, <1>6
    <2>2. i + 1 < j + 1
        BY <1>6, <2>1 DEF SearchFirst
    <2> QED
        BY <2>2
<1>7. ASSUME SearchFirst(p), Head(p) = "bind_user" PROVE ~ Has(t, "search")
    <2>1. ASSUME NEW i \in 1 .. Len(t), t[i] = "search" PROVE FALSE
        <3>1. i + 1 \in 1 .. Len(p) /\ p[i + 1] = "search" /\ 1 \in 1 .. Len(p)
            BY <1>1, <1>2, <2>1
        <3>2. i + 1 < 1
            BY <1>2, <1>7, <3>1 DEF SearchFirst
        <3> QED
            BY <3>2
    <2> QED
        BY <2>1 DEF Has
<1>8. ASSUME ServiceSearches(p), t # << >>, Head(t) = "search"
      PROVE  Head(p) = "bind_service"
    <2>1. 2 \in 2 .. Len(p) /\ t[1] = p[2] /\ 2 - 1 = 1
        BY <1>1, <1>2, <1>3, <1>8
    <2> QED
        BY <1>2, <1>3, <1>8, <2>1 DEF ServiceSearches
<1> QED
    BY <1>4, <1>5, <1>6, <1>7, <1>8 DEF t, ServiceSearches, SearchFirst

\* Nothing is left of an empty plan.
LEMMA NothingLeft == \A a : ~ Has(<< >>, a)
    BY DEF Has

\* What a plan contains stays in it behind another exchange.
LEMMA AfterHas ==
    ASSUME NEW t \in Seq(Exchanges), NEW a, Has(t, a)
    PROVE  Has(<<"search">> \o t, a)
<1> DEFINE s == <<"search">>
<1>1. s \in Seq(Exchanges) /\ Len(s) = 1
    BY DEF Exchanges
<1> HIDE DEF s
<1>2. PICK i \in 1 .. Len(t) : t[i] = a
    BY DEF Has
<1>3. Len(t) \in Nat
    BY LenProperties
<1>4. /\ Len(s \o t) = Len(s) + Len(t)
      /\ \A j \in 1 .. Len(s) + Len(t) :
            (s \o t)[j] = IF j <= Len(s) THEN s[j] ELSE t[j - Len(s)]
    BY <1>1, ConcatProperties
<1>5. i + 1 \in 1 .. Len(s \o t) /\ (s \o t)[i + 1] = t[(i + 1) - 1] /\ (i + 1) - 1 = i
    BY <1>1, <1>3, <1>4
<1>6. Has(s \o t, a)
    BY <1>2, <1>5 DEF Has
<1> QED
    BY <1>6 DEF s

\* The three plans of the modes that search for the user.
LEMMA SearchPlans ==
    /\ \A p \in {SearchPlan, BindSearchPlan, SearchBindPlan} :
          /\ Has(p, "search") /\ ~ Has(p, "read_entry")
          /\ ServiceSearches(p) /\ Head(p) # "search"
    /\ Has(BindSearchPlan, "bind_user") /\ Has(SearchBindPlan, "bind_user")
    /\ SearchFirst(SearchPlan) /\ SearchFirst(SearchBindPlan)
<1>1. /\ Has(SearchPlan, "search") /\ ~ Has(SearchPlan, "read_entry")
    BY DEF Has, SearchPlan
<1>2. /\ ServiceSearches(SearchPlan) /\ Head(SearchPlan) # "search"
    BY DEF ServiceSearches, SearchPlan
<1>3. SearchFirst(SearchPlan)
    BY DEF SearchFirst, SearchPlan
<1>4. Has(BindSearchPlan, "search") /\ Has(BindSearchPlan, "bind_user")
    BY DEF Has, BindSearchPlan
<1>5. ~ Has(BindSearchPlan, "read_entry")
    BY DEF Has, BindSearchPlan
<1>6. ServiceSearches(BindSearchPlan)
    BY DEF ServiceSearches, BindSearchPlan
<1>7. Head(BindSearchPlan) # "search" /\ Head(SearchBindPlan) # "search"
    BY DEF BindSearchPlan, SearchBindPlan
<1>8. Has(SearchBindPlan, "search") /\ Has(SearchBindPlan, "bind_user")
    BY DEF Has, SearchBindPlan
<1>9. ~ Has(SearchBindPlan, "read_entry")
    BY DEF Has, SearchBindPlan
<1>10. ServiceSearches(SearchBindPlan)
    BY DEF ServiceSearches, SearchBindPlan
<1>11. SearchFirst(SearchBindPlan)
    BY DEF SearchFirst, SearchBindPlan
<1> QED
    BY <1>1, <1>2, <1>3, <1>4, <1>5, <1>6, <1>7, <1>8, <1>9, <1>10, <1>11

\* The two plans of the mode that does not search.
LEMMA TemplatePlans == Has(BindPlan, "bind_user") /\ Has(ReadPlan, "bind_user")
<1>1. Has(BindPlan, "bind_user")
    BY DEF Has, BindPlan
<1>2. Has(ReadPlan, "bind_user")
    BY DEF Has, ReadPlan
<1> QED
    BY <1>1, <1>2

\* The plans of the requests that name a user.
LEMMA PlanVerdict ==
    ASSUME NEW q, q.user # ""
    PROVE  /\ q.bind => Has(Plan(q), "bind_user")
           /\ config.mode # "dn_template" =>
                 /\ ~ Has(Plan(q), "read_entry") /\ Has(Plan(q), "search")
                 /\ ServiceSearches(Plan(q)) /\ Head(Plan(q)) # "search"
           /\ config.mode = "search_then_bind" => SearchFirst(Plan(q))
<1>1. CASE config.mode = "dn_template"
    BY <1>1, PlanOfMode, TemplatePlans
<1>2. CASE config.mode # "dn_template"
    BY <1>2, PlanOfMode, SearchPlans
<1> QED
    BY <1>1, <1>2

-----------------------------------------------------------------------------
(* Steps and verdicts *)

\* A call whose own state stays, and whose connection keeps its identity, knows what it
\* knew.
LEMMA SameVerdict ==
    ASSUME NEW d \in Calls, Verdict(d), UNCHANGED <<config, request>>,
           pc'[d] = pc[d], plan'[d] = plan[d], result'[d] = result[d],
           entry'[d] = entry[d], conn'[d] = conn[d],
           pc[d] = "work" => identity'[conn[d]] = identity[conn[d]]
    PROVE  Verdict(d)'
<1>1. Accepted(d) <=> Accepted(d)'
    BY DEF Accepted, Vouched
<1>2. NotRefused(d)'
    BY DEF Verdict, NotRefused, NormalAccount
<1>3. Undecided(d)' => Undecided(d) /\ (Found(d) => Found(d)') /\ (Bound(d) => Bound(d)')
    <2> SUFFICES ASSUME Undecided(d)'
                 PROVE  Undecided(d) /\ (Found(d) => Found(d)') /\ (Bound(d) => Bound(d)')
        OBVIOUS
    <2>1. Undecided(d) /\ identity'[conn'[d]] = identity[conn[d]]
        BY DEF Undecided
    <2>2. Found(d) => Found(d)'
        BY <2>1 DEF Found
    <2>3. Bound(d) => Bound(d)'
        BY <1>1 DEF Bound
    <2> QED
        BY <2>1, <2>2, <2>3
<1> QED
    BY <1>1, <1>2, <1>3 DEF Verdict

\* An exchange of a call concerns its own connection only.
LEMMA OtherConnections ==
    ASSUME ClientInv, NEW c \in Calls, NEW d \in Calls, d # c,
           pc[c] \in {"validate", "work"}, pc[d] = "work",
           \A k \in Conns \ {conn[c]} : identity'[k] = identity[k]
    PROVE  identity'[conn[d]] = identity[conn[d]]
<1>1. conn[c] \in Conns /\ conn[d] \in Conns /\ conn[c] # NoConn
    BY DEF ClientInv, TypeOK, Shape
<1>2. conn[d] # conn[c]
    BY <1>1 DEF ClientInv, Ownership
<1> QED
    BY <1>1, <1>2 DEF ClientInv, TypeOK

\* An exchange of call c that keeps what is known of it keeps what is known of all.
LEMMA ExchangeVerdict ==
    ASSUME ClientInv, VerdictInv, NEW c \in Calls, pc[c] = "work",
           UNCHANGED <<config, pc, request, conn>>,
           \A k \in Conns \ {conn[c]} : identity'[k] = identity[k],
           \A d \in Calls \ {c} : /\ plan'[d] = plan[d] /\ result'[d] = result[d]
                                  /\ entry'[d] = entry[d],
           Verdict(c)'
    PROVE  VerdictInv'
<1> SUFFICES ASSUME NEW d \in Calls, d # c PROVE Verdict(d)'
    BY DEF VerdictInv
<1>1. pc[d] = "work" => identity'[conn[d]] = identity[conn[d]]
    BY OtherConnections
<1> QED
    BY <1>1, SameVerdict DEF VerdictInv

\* A call that still has something to do has not decided.
LEMMA StillUndecided ==
    ASSUME ClientInv, VerdictInv, NEW c \in Calls, pc[c] = "work", plan[c] # << >>
    PROVE  /\ Undecided(c) /\ Verdict(c) /\ request[c] \in Requests
           /\ result[c] = "none"
           /\ request[c].user \in Users =>
                 Found(c) /\ (request[c].bind => Bound(c))
    BY DEF ClientInv, TypeOK, VerdictInv, Verdict, Undecided

\* A call that gives up may say anything but success, if it may say so.
LEMMA FailVerdict ==
    ASSUME ClientInv, VerdictInv, NEW c \in Calls, pc[c] = "work", plan[c] # << >>,
           UNCHANGED <<config, pc, request, conn, entry>>,
           \A k \in Conns \ {conn[c]} : identity'[k] = identity[k],
           NEW code \in DirectoryErrors \union Refusals, Fail(c, code),
           code \in Refusals =>
              \/ request[c].test \/ request[c].user \notin Users
              \/ ~ NormalAccount(request[c].user, request[c].password)
    PROVE  VerdictInv'
<1>1. plan' = [plan EXCEPT ![c] = << >>] /\ result' = [result EXCEPT ![c] = code]
    BY DEF Fail
<1>2. plan'[c] = << >> /\ result'[c] = code
    BY <1>1 DEF ClientInv, TypeOK
<1>3. code # "none" /\ code # "success"
    BY DEF DirectoryErrors, Refusals
<1>4. NotRefused(c)'
    BY <1>2 DEF NotRefused, NormalAccount
<1>5. Verdict(c)'
    BY <1>2, <1>3, <1>4 DEF VerdictInv, Verdict, Undecided
<1>6. \A d \in Calls \ {c} : plan'[d] = plan[d] /\ result'[d] = result[d] /\ entry'[d] = entry[d]
    BY <1>1 DEF ClientInv, TypeOK
<1> QED
    BY <1>5, <1>6, ExchangeVerdict

\* A call that goes on has done its exchange.
LEMMA ProceedVerdict ==
    ASSUME ClientInv, VerdictInv, NEW c \in Calls, pc[c] = "work", plan[c] # << >>,
           UNCHANGED <<config, pc, request, conn>>,
           \A k \in Conns \ {conn[c]} : identity'[k] = identity[k],
           \A d \in Calls \ {c} : plan'[d] = plan[d] /\ entry'[d] = entry[d],
           UNCHANGED result,
           request[c].user \in Users =>
              Found(c)' /\ (request[c].bind => Bound(c)')
    PROVE  VerdictInv'
<1>1. Undecided(c) /\ Verdict(c) /\ result[c] = "none"
    BY StillUndecided
<1>2. NotRefused(c)'
    BY <1>1 DEF Verdict, NotRefused, NormalAccount
<1>3. Verdict(c)'
    BY <1>1, <1>2 DEF Verdict, Undecided
<1> QED
    BY <1>3, ExchangeVerdict

\* A service bind concerns the call's own connection only.
LEMMA ServiceBindOthers ==
    ASSUME ClientInv, NEW c \in Calls, NEW code, ServiceBind(c, code)
    PROVE  \A k \in Conns \ {conn[c]} : identity'[k] = identity[k]
    BY DEF ServiceBind, ClientInv, TypeOK

\* The plan of call c without its first exchange.
LEMMA ShorterPlan ==
    ASSUME ClientInv, NEW c \in Calls, plan[c] # << >>,
           plan' = [plan EXCEPT ![c] = Tail(plan[c])]
    PROVE  /\ plan'[c] = Tail(plan[c])
           /\ \A a : Has(plan[c], a) <=> Head(plan[c]) = a \/ Has(plan'[c], a)
           /\ ServiceSearches(plan[c]) => ServiceSearches(plan'[c])
           /\ SearchFirst(plan[c]) => SearchFirst(plan'[c])
           /\ SearchFirst(plan[c]) /\ Head(plan[c]) = "bind_user" =>
                 ~ Has(plan'[c], "search")
           /\ ServiceSearches(plan[c]) /\ plan'[c] # << >> /\ Head(plan'[c]) = "search" =>
                 Head(plan[c]) = "bind_service"
<1>1. plan[c] \in Seq(Exchanges) /\ plan'[c] = Tail(plan[c])
    BY DEF ClientInv, TypeOK
<1> QED
    BY <1>1, TailHas

\* An exchange other than the search leaves what is known of the entry.
LEMMA KeepsFound ==
    ASSUME ClientInv, NEW c \in Calls, plan[c] # << >>, Found(c),
           plan' = [plan EXCEPT ![c] = Tail(plan[c])],
           UNCHANGED <<config, request, conn, entry>>,
           Head(plan[c]) # "search",
           Head(plan[c]) = "bind_service" => identity'[conn[c]] = "service"
    PROVE  Found(c)'
<1>1. ASSUME config.mode # "dn_template"
      PROVE  /\ ~ Has(plan'[c], "read_entry")
             /\ ~ Has(plan'[c], "search") =>
                   entry[c] \in Matching[request[c].user] \union Referred[request[c].user]
             /\ ServiceSearches(plan'[c])
             /\ plan'[c] # << >> /\ Head(plan'[c]) = "search" =>
                   identity'[conn[c]] = "service"
    BY <1>1, ShorterPlan DEF Found
<1> QED
    BY <1>1 DEF Found

\* An exchange other than the user's bind and the search leaves what is known of the
\* password.
LEMMA KeepsBound ==
    ASSUME ClientInv, NEW c \in Calls, plan[c] # << >>, Bound(c),
           plan' = [plan EXCEPT ![c] = Tail(plan[c])],
           UNCHANGED <<config, request>>,
           Head(plan[c]) # "bind_user",
           \/ UNCHANGED entry
           \/ config.mode = "direct_bind"
           \/ config.mode = "search_then_bind" /\ Head(plan[c]) = "search"
    PROVE  Bound(c)'
<1>1. Accepted(c) /\ (UNCHANGED entry \/ config.mode = "direct_bind") => Accepted(c)'
    BY DEF Accepted, Vouched
<1>2. config.mode = "search_then_bind" =>
         /\ SearchFirst(plan'[c])
         /\ Has(plan'[c], "search") => Has(plan'[c], "bind_user")
    BY ShorterPlan DEF Bound
<1>3. ~ Has(plan'[c], "bind_user") => Accepted(c)'
    <2> SUFFICES ASSUME ~ Has(plan'[c], "bind_user") PROVE Accepted(c)'
        OBVIOUS
    <2>1. ~ Has(plan[c], "bind_user")
        BY ShorterPlan
    <2>2. ~ (config.mode = "search_then_bind" /\ Head(plan[c]) = "search")
        BY <2>1, ShorterPlan DEF Bound
    <2> QED
        BY <1>1, <2>1, <2>2 DEF Bound
<1> QED
    BY <1>2, <1>3 DEF Bound

\* bindService keeps what is known: its failures are not verdicts.
LEMMA VerdictBindService ==
    ASSUME ClientInv, VerdictInv, NEW c \in Calls, BindService(c) PROVE VerdictInv'
<1>1. /\ pc[c] = "work" /\ plan[c] # << >> /\ Head(plan[c]) = "bind_service"
      /\ UNCHANGED <<config, pc, request, conn, entry>>
    BY DEF BindService, Doing
<1>2. CASE ServiceBind(c, "ok") /\ Proceed(c)
    <2>1. PICK x \in Identities \ {"closed"} :
             identity' = [identity EXCEPT ![conn[c]] = x] /\ x = "service"
        BY <1>1, <1>2, ServiceBindEffect
    <2>2. identity'[conn[c]] = "service"
        BY <1>1, <2>1 DEF ClientInv, TypeOK, Shape
    <2>3. plan' = [plan EXCEPT ![c] = Tail(plan[c])] /\ UNCHANGED result
        BY <1>2 DEF Proceed
    <2>4. request[c].user \in Users => Found(c)' /\ (request[c].bind => Bound(c)')
        BY <1>1, <2>2, <2>3, StillUndecided, KeepsFound, KeepsBound
    <2>5. \A k \in Conns \ {conn[c]} : identity'[k] = identity[k]
        BY <1>2, ServiceBindOthers
    <2>6. \A d \in Calls \ {c} : plan'[d] = plan[d] /\ entry'[d] = entry[d]
        BY <1>1, <2>3 DEF ClientInv, TypeOK
    <2> QED
        BY <1>1, <2>3, <2>4, <2>5, <2>6, ProceedVerdict
<1>3. CASE \E code \in DirectoryErrors : ServiceBind(c, code) /\ Fail(c, code)
    <2>1. PICK code \in DirectoryErrors : ServiceBind(c, code) /\ Fail(c, code)
        BY <1>3
    <2>2. \A k \in Conns \ {conn[c]} : identity'[k] = identity[k]
        BY <2>1, ServiceBindOthers
    <2>3. code \notin Refusals
        BY DEF DirectoryErrors, Refusals
    <2> QED
        BY <1>1, <2>1, <2>2, <2>3, FailVerdict
<1> QED
    BY <1>2, <1>3 DEF BindService

\* restoreServiceBindForReuse keeps what is known: the verdict is out.
LEMMA VerdictRestore ==
    ASSUME ClientInv, VerdictInv, NEW c \in Calls, Restore(c) PROVE VerdictInv'
<1>1. /\ pc[c] = "work" /\ plan[c] # << >> /\ Head(plan[c]) = "restore"
      /\ UNCHANGED <<config, pc, request, conn, entry>>
    BY DEF Restore, Doing
<1>2. plan' = [plan EXCEPT ![c] = Tail(plan[c])] /\ UNCHANGED result
    BY DEF Restore, Proceed
<1>3. \A k \in Conns \ {conn[c]} : identity'[k] = identity[k]
    BY ServiceBindOthers DEF Restore
<1>4. request[c].user \in Users => Found(c)' /\ (request[c].bind => Bound(c)')
    BY <1>1, <1>2, StillUndecided, KeepsFound, KeepsBound
<1>5. \A d \in Calls \ {c} : plan'[d] = plan[d] /\ entry'[d] = entry[d]
    BY <1>1, <1>2 DEF ClientInv, TypeOK
<1> QED
    BY <1>1, <1>2, <1>3, <1>4, <1>5, ProceedVerdict

\* resolveAttributesByDN, which only the template mode calls, keeps what is known.
LEMMA VerdictReadEntry ==
    ASSUME ClientInv, VerdictInv, NEW c \in Calls, ReadEntry(c) PROVE VerdictInv'
<1>1. /\ pc[c] = "work" /\ plan[c] # << >> /\ Head(plan[c]) = "read_entry"
      /\ UNCHANGED <<config, pc, request, conn, entry, identity>>
    BY DEF ReadEntry, Doing
<1>2. request[c].user \in Users
    BY <1>1, TailStep
<1>3. Found(c) /\ (request[c].bind => Bound(c))
    BY <1>1, <1>2, StillUndecided
<1>4. plan[c] \in Seq(Exchanges)
    BY DEF ClientInv, TypeOK
<1>5. config.mode = "dn_template" /\ entry[c] = Named[request[c].user]
    <2>1. Has(plan[c], "read_entry")
        BY <1>1, <1>4, TailHas
    <2> QED
        BY <1>3, <2>1 DEF Found
<1>6. CASE \E code \in DirectoryErrors : Fail(c, code)
    <2>1. DirectoryErrors \intersect Refusals = {}
        BY DEF DirectoryErrors, Refusals
    <2> QED
        BY <1>1, <1>6, <2>1, FailVerdict
<1>7. ASSUME NEW p \in {Tail(plan[c]), <<"search">> \o Tail(plan[c])},
             plan' = [plan EXCEPT ![c] = p], UNCHANGED result
      PROVE  VerdictInv'
    <2>1. plan'[c] = p
        BY <1>7 DEF ClientInv, TypeOK
    <2>2. Found(c)'
        BY <1>1, <1>5 DEF Found
    <2>3. ASSUME request[c].bind, ~ Has(p, "bind_user") PROVE ~ Has(plan[c], "bind_user")
        <3>1. Tail(plan[c]) \in Seq(Exchanges)
            BY <1>1, <1>4, HeadTailProperties
        <3>2. ~ Has(Tail(plan[c]), "bind_user")
            <4>1. CASE p = Tail(plan[c])
                BY <2>3, <4>1
            <4>2. CASE p = <<"search">> \o Tail(plan[c])
                BY <2>3, <3>1, <4>2, AfterHas
            <4> QED
                BY <4>1, <4>2
        <3> QED
            BY <1>1, <1>4, <3>2, TailHas
    <2>4. request[c].bind => Bound(c)'
        <3>1. Accepted(c) => Accepted(c)'
            BY <1>1 DEF Accepted, Vouched
        <3> QED
            BY <1>1, <1>3, <1>5, <2>1, <2>3, <3>1 DEF Bound
    <2>5. \A d \in Calls \ {c} : plan'[d] = plan[d] /\ entry'[d] = entry[d]
        BY <1>1, <1>7 DEF ClientInv, TypeOK
    <2> QED
        BY <1>1, <1>7, <2>2, <2>4, <2>5, ProceedVerdict
<1>8. "directory_error" \in DirectoryErrors /\ Faults(c) \subseteq DirectoryErrors
    BY DEF DirectoryErrors, Faults
<1>9. \/ \E code \in DirectoryErrors : Fail(c, code)
      \/ \E p \in {Tail(plan[c]), <<"search">> \o Tail(plan[c])} :
            plan' = [plan EXCEPT ![c] = p] /\ UNCHANGED result
    BY <1>8 DEF ReadEntry, Proceed
<1> QED
    BY <1>6, <1>7, <1>9

\* A search as the service account finds a normal account.
LEMMA NormalIsFound ==
    ASSUME NEW c \in Calls, NormalAccount(request[c].user, request[c].password)
    PROVE  Cardinality(Matching[request[c].user]) + Cardinality(Referred[request[c].user]) = 1
<1>1. PICK e \in Entries : Matching[request[c].user] = {e} /\ Referred[request[c].user] = {}
    BY DEF NormalAccount
<1>2. Cardinality({e}) = 1 /\ Cardinality({}) = 0
    BY FS_Singleton, FS_EmptySet
<1> QED
    BY <1>1, <1>2

\* resolveUserWithAttributes keeps what is known: the entry it finds is one of the user's,
\* and a normal account is found.
LEMMA VerdictSearch ==
    ASSUME ClientInv, VerdictInv, NEW c \in Calls, Search(c) PROVE VerdictInv'
<1> DEFINE u     == request[c].user
           local == IF identity[conn[c]] = "service" THEN Matching[u] ELSE {}
           found == Cardinality(local) + Cardinality(Referred[u])
<1>1. /\ pc[c] = "work" /\ plan[c] # << >> /\ Head(plan[c]) = "search"
      /\ UNCHANGED <<config, pc, request, conn, identity>>
    BY DEF Search, Doing
<1>2. u \in Users
    BY <1>1, TailStep
<1>3. Found(c) /\ (request[c].bind => Bound(c))
    BY <1>1, <1>2, StillUndecided
<1>4. CASE \E code \in DirectoryErrors : Fail(c, code) /\ UNCHANGED entry
    <2>1. DirectoryErrors \intersect Refusals = {}
        BY DEF DirectoryErrors, Refusals
    <2> QED
        BY <1>1, <1>4, <2>1, FailVerdict
<1>5. CASE /\ found # 1 /\ NotOne(c, found) # "ok"
           /\ Fail(c, NotOne(c, found)) /\ UNCHANGED entry
    <2>1. NotOne(c, found) \in {"directory_error", "invalid_credentials"}
        BY <1>5 DEF NotOne
    <2>2. NotOne(c, found) \in DirectoryErrors \union Refusals
        BY <2>1 DEF DirectoryErrors, Refusals
    <2>3. ASSUME NotOne(c, found) \in Refusals
          PROVE  request[c].test \/ ~ NormalAccount(u, request[c].password)
        <3>1. config.mode # "dn_template"
            BY <1>5, <2>3 DEF NotOne, Refusals
        <3>2. identity[conn[c]] = "service"
            BY <1>1, <1>3, <3>1 DEF Found
        <3> QED
            BY <1>5, <3>2, NormalIsFound
    <2> HIDE DEF u, found
    <2> QED
        BY <1>1, <1>5, <2>2, <2>3, FailVerdict DEF u
<1>6. ASSUME Proceed(c),
             \/ config.mode = "dn_template" /\ UNCHANGED entry
             \/ /\ config.mode # "dn_template"
                /\ \E e \in local \union Referred[u] : entry' = [entry EXCEPT ![c] = e]
      PROVE  VerdictInv'
    <2>1. plan' = [plan EXCEPT ![c] = Tail(plan[c])] /\ UNCHANGED result
        BY <1>6 DEF Proceed
    <2>2. \A d \in Calls \ {c} : plan'[d] = plan[d] /\ entry'[d] = entry[d]
        BY <1>6, <2>1 DEF ClientInv, TypeOK
    <2>3. Found(c)'
        <3>1. CASE config.mode = "dn_template"
            BY <1>1, <1>3, <1>6, <3>1 DEF Found
        <3>2. CASE config.mode # "dn_template"
            <4>1. entry'[c] \in Matching[u] \union Referred[u]
                BY <1>6, <3>2 DEF ClientInv, TypeOK
            <4>2. /\ ~ Has(plan'[c], "read_entry") /\ ServiceSearches(plan'[c])
                  /\ ~ (plan'[c] # << >> /\ Head(plan'[c]) = "search")
                BY <1>1, <1>3, <2>1, <3>2, ShorterPlan DEF Found
            <4> QED
                BY <1>1, <3>2, <4>1, <4>2 DEF Found
        <3> QED
            BY <3>1, <3>2
    <2>4. request[c].bind => Bound(c)'
        <3>1. config.mode \in Modes
            BY ClientAssumption DEF ClientInv, TypeOK, ConfigType
        <3> QED
            BY <1>1, <1>3, <1>6, <2>1, <3>1, KeepsBound DEF Modes
    <2> QED
        BY <1>1, <2>1, <2>2, <2>3, <2>4, ProceedVerdict
<1>7. Faults(c) \subseteq DirectoryErrors
    BY DEF Faults, DirectoryErrors
<1>8. /\ "directory_error" \in DirectoryErrors /\ "directory_referral" \in DirectoryErrors
    BY DEF DirectoryErrors
<1>9. NotOne(c, found) = "ok" => config.mode = "dn_template"
    BY DEF NotOne
<1>10. \/ \E code \in DirectoryErrors : Fail(c, code) /\ UNCHANGED entry
       \/ Proceed(c) /\ config.mode = "dn_template" /\ UNCHANGED entry
       \/ /\ Proceed(c) /\ config.mode # "dn_template"
          /\ \E e \in local \union Referred[u] : entry' = [entry EXCEPT ![c] = e]
       \/ /\ found # 1 /\ NotOne(c, found) # "ok"
          /\ Fail(c, NotOne(c, found)) /\ UNCHANGED entry
    BY <1>7, <1>8, <1>9 DEF Search
<1> QED
    BY <1>4, <1>5, <1>6, <1>10

\* The server accepts a bind only with the entry's own password.
LEMMA AcceptedBind ==
    ASSUME NEW e, NEW w, BindVerdict(e, w) = "ok"
    PROVE  e # NoEntry /\ Password[e] = w /\ Status[e] = "ok"
    BY DEF BindVerdict

\* The entry that call c binds as, if the server accepts it, is the one it vouches for.
LEMMA BindsVouched ==
    ASSUME NEW c \in Calls, Found(c), config.mode \in Modes,
           NEW e \in BindEntries(c), e # NoEntry
    PROVE  Vouched(c) = e
<1>1. CASE config.mode = "search_then_bind"
    BY <1>1 DEF BindEntries, Vouched
<1>2. CASE config.mode = "dn_template"
    BY <1>2 DEF BindEntries, Vouched, Found
<1>3. CASE config.mode = "direct_bind"
    BY <1>3 DEF BindEntries, Vouched
<1> QED
    BY <1>1, <1>2, <1>3 DEF Modes

\* VerifyPassword binds as the entry of a normal account, and is accepted.
LEMMA NormalIsAccepted ==
    ASSUME ClientInv, VerdictInv, NEW c \in Calls, pc[c] = "work", plan[c] # << >>,
           Head(plan[c]) = "bind_user", ~ request[c].test, request[c].user \in Users,
           NormalAccount(request[c].user, request[c].password),
           NEW e \in BindEntries(c)
    PROVE  BindVerdict(e, request[c].password) = "ok"
<1>1. PICK a \in Entries :
         /\ Matching[request[c].user] = {a} /\ Referred[request[c].user] = {}
         /\ Named[request[c].user] = a
         /\ Password[a] = request[c].password /\ Status[a] = "ok"
    BY DEF NormalAccount
<1>2. request[c].bind
    BY ClientAssumption DEF ClientInv, TypeOK
<1>3. Found(c) /\ Bound(c)
    BY <1>2, StillUndecided
<1>4. e = a
    <2>1. CASE config.mode # "search_then_bind"
        BY <1>1, <2>1 DEF BindEntries
    <2>2. CASE config.mode = "search_then_bind"
        <3>1. plan[c] \in Seq(Exchanges) /\ SearchFirst(plan[c])
            BY <1>3, <2>2 DEF ClientInv, TypeOK, Bound
        <3>2. ~ Has(plan[c], "search")
            BY <3>1, TailHas
        <3>3. entry[c] \in {a}
            BY <1>1, <1>3, <2>2, <3>2 DEF Found
        <3> QED
            BY <1>1, <2>2, <3>3 DEF BindEntries
    <2> QED
        BY <2>1, <2>2
<1>5. a # NoEntry
    BY DirectoryAssumption
<1> QED
    BY <1>1, <1>4, <1>5 DEF BindVerdict

\* bindUser keeps what is known: what the server accepts is the password of the entry
\* that the call vouches for, and the password of a normal account is accepted.
LEMMA VerdictBindUser ==
    ASSUME ClientInv, VerdictInv, NEW c \in Calls, BindUser(c) PROVE VerdictInv'
<1>1. /\ pc[c] = "work" /\ plan[c] # << >> /\ Head(plan[c]) = "bind_user"
      /\ UNCHANGED <<config, pc, request, conn, entry>>
    BY DEF BindUser, Doing
<1>2. request[c].user \in Users
    BY <1>1, TailStep
<1>3. Found(c) /\ (request[c].bind => Bound(c))
    BY <1>1, <1>2, StillUndecided
<1>4. config.mode \in Modes
    BY ClientAssumption DEF ClientInv, TypeOK, ConfigType
<1>5. PICK e \in BindEntries(c) :
         LET outcome == BindVerdict(e, request[c].password)
         IN  IF request[c].password = ""
             THEN Fail(c, "invalid_credentials") /\ UNCHANGED identity
             ELSE \/ \E code \in Faults(c) :
                        /\ Fail(c, code)
                        /\ identity' = IF c \in expired THEN identity
                                       ELSE [identity EXCEPT ![conn[c]] = "unsettled"]
                  \/ /\ c \notin expired /\ outcome = "ok"
                     /\ Proceed(c)
                     /\ identity' = [identity EXCEPT ![conn[c]] = e]
                  \/ /\ c \notin expired /\ outcome # "ok"
                     /\ Fail(c, outcome)
                     /\ identity' = [identity EXCEPT ![conn[c]] = "unsettled"]
    BY DEF BindUser
<1> DEFINE outcome == BindVerdict(e, request[c].password)
<1>6. \A k \in Conns \ {conn[c]} : identity'[k] = identity[k]
    BY <1>5 DEF ClientInv, TypeOK
<1>7. CASE request[c].password = ""
    <2>1. ~ NormalAccount(request[c].user, request[c].password)
        BY <1>7 DEF NormalAccount
    <2>2. "invalid_credentials" \in Refusals
        BY DEF Refusals
    <2> QED
        BY <1>1, <1>5, <1>6, <1>7, <2>1, <2>2, FailVerdict
<1>8. CASE \E code \in Faults(c) : Fail(c, code)
    <2>1. Faults(c) \subseteq DirectoryErrors /\ DirectoryErrors \intersect Refusals = {}
        BY DEF Faults, DirectoryErrors, Refusals
    <2> QED
        BY <1>1, <1>6, <1>8, <2>1, FailVerdict
<1>9. CASE request[c].password # "" /\ outcome = "ok" /\ Proceed(c)
    <2>1. plan' = [plan EXCEPT ![c] = Tail(plan[c])] /\ UNCHANGED result
        BY <1>9 DEF Proceed
    <2>2. \A d \in Calls \ {c} : plan'[d] = plan[d] /\ entry'[d] = entry[d]
        BY <1>1, <2>1 DEF ClientInv, TypeOK
    <2>3. Found(c)'
        BY <1>1, <1>3, <2>1, KeepsFound
    <2>4. e # NoEntry /\ Password[e] = request[c].password /\ Status[e] = "ok"
        BY <1>9, AcceptedBind
    <2>5. Vouched(c) = e
        BY <1>3, <1>4, <2>4, BindsVouched
    <2>6. e \in Entries
        <3>1. entry[c] \in Entries \union {NoEntry}
            BY DEF ClientInv, TypeOK
        <3>2. Named[request[c].user] \in Entries \union {NoEntry}
            BY <1>2, DirectoryAssumption
        <3> QED
            BY <2>4, <2>5, <3>1, <3>2 DEF Vouched
    <2>7. Accepted(c)'
        BY <1>1, <1>9, <2>4, <2>5, <2>6 DEF Accepted, Vouched
    <2>8. request[c].bind => Bound(c)'
        BY <1>1, <1>3, <2>1, <2>7, ShorterPlan DEF Bound
    <2> QED
        BY <1>1, <1>6, <2>1, <2>2, <2>3, <2>8, ProceedVerdict
<1>10. CASE outcome # "ok" /\ Fail(c, outcome)
    <2>1. outcome \in Refusals
        <3>1. e = NoEntry \/ e \in Entries
            <4>1. entry[c] \in Entries \union {NoEntry}
                BY DEF ClientInv, TypeOK
            <4>2. Named[request[c].user] \in Entries \union {NoEntry}
                BY <1>2, DirectoryAssumption
            <4> QED
                BY <4>1, <4>2 DEF BindEntries
        <3>2. e \in Entries => Status[e] \in Refusals \union {"ok"}
            BY DirectoryAssumption
        <3>3. "invalid_credentials" \in Refusals
            BY DEF Refusals
        <3> QED
            BY <1>10, <3>1, <3>2, <3>3 DEF BindVerdict
    <2>2. request[c].test \/ ~ NormalAccount(request[c].user, request[c].password)
        BY <1>1, <1>2, <1>10, NormalIsAccepted
    <2> HIDE DEF outcome
    <2> QED
        BY <1>1, <1>6, <1>10, <2>1, <2>2, FailVerdict
<1> QED
    BY <1>5, <1>7, <1>8, <1>9, <1>10

\* A step of call c that keeps the connections of the others keeps what they know.
LEMMA StepVerdict ==
    ASSUME ClientInv, VerdictInv, NEW c \in Calls, UNCHANGED <<config, request>>,
           \A d \in Calls \ {c} :
              /\ pc'[d] = pc[d] /\ plan'[d] = plan[d] /\ result'[d] = result[d]
              /\ entry'[d] = entry[d] /\ conn'[d] = conn[d]
              /\ pc[d] = "work" => identity'[conn[d]] = identity[conn[d]],
           Verdict(c)'
    PROVE  VerdictInv'
<1> SUFFICES ASSUME NEW d \in Calls, d # c PROVE Verdict(d)'
    BY DEF VerdictInv
<1> QED
    BY SameVerdict DEF VerdictInv

\* VerifyPassword refuses at once only what no normal account sends.
LEMMA VerdictStart ==
    ASSUME ClientInv, VerdictInv, NEW c \in Calls, Start(c) PROVE VerdictInv'
<1>1. /\ pc[c] = "idle"
      /\ UNCHANGED <<config, request, plan, conn, entry, identity>>
    BY DEF Start
<1>2. Verdict(c) /\ result[c] = "none"
    BY <1>1 DEF VerdictInv, Verdict
<1>3. \A d \in Calls \ {c} : pc'[d] = pc[d] /\ result'[d] = result[d]
    BY DEF Start, Return, ClientInv, TypeOK
<1>4. Verdict(c)'
    <2>1. CASE /\ ~ request[c].test
               /\ request[c].password = "" \/ request[c].user \notin Users
               /\ Return(c, "invalid_credentials")
        <3>1. pc'[c] = "done" /\ result'[c] = "invalid_credentials"
            BY <2>1 DEF Return, ClientInv, TypeOK
        <3>2. NotRefused(c)'
            BY <1>1, <2>1 DEF NotRefused, NormalAccount
        <3> QED
            BY <3>1, <3>2 DEF Verdict, Undecided
    <2>2. CASE /\ request[c].test \/ request[c].user \in Users
               /\ pc' = [pc EXCEPT ![c] = "acquire"] /\ UNCHANGED result
        <3>1. pc'[c] = "acquire"
            BY <2>2 DEF ClientInv, TypeOK
        <3>2. NotRefused(c)'
            BY <1>1, <1>2, <2>2 DEF Verdict, NotRefused, NormalAccount
        <3> QED
            BY <1>1, <1>2, <2>2, <3>1, <3>2 DEF Verdict, Undecided
    <2> QED
        BY <2>1, <2>2 DEF Start
<1> QED
    BY <1>1, <1>3, <1>4, StepVerdict

\* A call on its way to its connection has answered nothing.
LEMMA MovingVerdict ==
    ASSUME ClientInv, VerdictInv, NEW c \in Calls, pc[c] \in {"acquire", "validate"},
           UNCHANGED <<config, request, plan, result, entry>>,
           NEW l \in {"validate", "dial"}, pc' = [pc EXCEPT ![c] = l]
    PROVE  Verdict(c)'
<1>1. Verdict(c) /\ result[c] = "none" /\ pc'[c] = l
    BY DEF VerdictInv, Verdict, ClientInv, TypeOK
<1>2. NotRefused(c)'
    BY <1>1 DEF Verdict, NotRefused, NormalAccount
<1> QED
    BY <1>1, <1>2 DEF Verdict, Undecided

\* acquireConn keeps what is known.
LEMMA VerdictAcquire ==
    ASSUME ClientInv, VerdictInv, NEW c \in Calls, Acquire(c) PROVE VerdictInv'
<1>1. /\ pc[c] = "acquire"
      /\ UNCHANGED <<config, request, plan, entry, result, identity>>
    BY DEF Acquire
<1>2. \E l \in {"validate", "dial"} : pc' = [pc EXCEPT ![c] = l]
    BY DEF Acquire
<1>3. Verdict(c)'
    BY <1>1, <1>2, MovingVerdict
<1>4. \A d \in Calls \ {c} : pc'[d] = pc[d] /\ conn'[d] = conn[d]
    BY DEF Acquire, ClientInv, TypeOK
<1> QED
    BY <1>1, <1>3, <1>4, StepVerdict

\* A call that goes to work knows nothing yet, and all of its plan lies before it.
LEMMA ConnectedVerdict ==
    ASSUME ClientInv, VerdictInv, NEW c \in Calls, pc[c] \in {"validate", "dial"},
           UNCHANGED <<config, request>>, NEW k, Connected(c, k)
    PROVE  Verdict(c)'
<1> DEFINE q == request[c]
<1>1. Verdict(c) /\ result[c] = "none" /\ plan[c] = << >> /\ q \in Requests
    BY DEF VerdictInv, Verdict, ClientInv, TypeOK, Shape
<1>2. /\ pc'[c] = "work"
      /\ entry'[c] = IF config.mode = "dn_template" /\ q.user \in Users
                     THEN Named[q.user] ELSE NoEntry
    BY DEF Connected, ClientInv, TypeOK
<1>3. CASE q.user \in Users \/ (q.test /\ q.user = "")
    <2>1. plan'[c] = Plan(q) /\ UNCHANGED result
        BY <1>3 DEF Connected, ClientInv, TypeOK
    <2>2. NotRefused(c)'
        BY <1>1, <2>1 DEF Verdict, NotRefused, NormalAccount
    <2>3. ASSUME q.user \in Users PROVE Found(c)' /\ (q.bind => Bound(c)')
        <3>1. q.user # ""
            BY <2>3, DirectoryAssumption
        <3>2. /\ q.bind => Has(plan'[c], "bind_user")
              /\ config.mode # "dn_template" =>
                    /\ ~ Has(plan'[c], "read_entry") /\ Has(plan'[c], "search")
                    /\ ServiceSearches(plan'[c]) /\ Head(plan'[c]) # "search"
              /\ config.mode = "search_then_bind" => SearchFirst(plan'[c])
            BY <2>1, <3>1, PlanVerdict
        <3> QED
            BY <1>2, <2>3, <3>2 DEF Found, Bound
    <2> QED
        BY <1>1, <1>2, <1>3, <2>1, <2>2, <2>3 DEF Verdict, Undecided
<1>4. CASE ~ (q.user \in Users \/ (q.test /\ q.user = ""))
    <2>1. result'[c] = "directory_error" /\ UNCHANGED plan
        BY <1>4 DEF Connected, ClientInv, TypeOK
    <2>2. NotRefused(c)'
        BY <1>4, <2>1 DEF NotRefused
    <2> QED
        BY <1>1, <1>2, <1>4, <2>1, <2>2 DEF Verdict, Undecided
<1> QED
    BY <1>3, <1>4

\* validatePooledConn keeps what is known.
LEMMA VerdictValidate ==
    ASSUME ClientInv, VerdictInv, NEW c \in Calls, Validate(c) PROVE VerdictInv'
<1>1. pc[c] = "validate" /\ UNCHANGED <<config, request>>
    BY DEF Validate
<1>2. Verdict(c)'
    <2>1. CASE Connected(c, conn[c])
        BY <1>1, <2>1, ConnectedVerdict
    <2>2. CASE pc' = [pc EXCEPT ![c] = "dial"] /\ UNCHANGED <<entry, plan, result>>
        BY <1>1, <2>2, MovingVerdict
    <2> QED
        BY <2>1, <2>2 DEF Validate
<1>3. \A k \in Conns \ {conn[c]} : identity'[k] = identity[k]
    <2>1. CASE ServiceBind(c, "ok")
        BY <2>1, ServiceBindOthers
    <2>2. CASE identity' = [identity EXCEPT ![conn[c]] = "closed"]
        BY <2>2 DEF ClientInv, TypeOK
    <2> QED
        BY <2>1, <2>2 DEF Validate
<1>4. \A d \in Calls \ {c} :
         /\ pc'[d] = pc[d] /\ plan'[d] = plan[d] /\ result'[d] = result[d]
         /\ entry'[d] = entry[d] /\ conn'[d] = conn[d]
    BY DEF Validate, Connected, ClientInv, TypeOK
<1>5. \A d \in Calls \ {c} : pc[d] = "work" => identity'[conn[d]] = identity[conn[d]]
    BY <1>1, <1>3, OtherConnections
<1> QED
    BY <1>1, <1>2, <1>4, <1>5, StepVerdict

\* dial keeps what is known: not to reach the directory is not a verdict.
LEMMA VerdictDial ==
    ASSUME ClientInv, VerdictInv, NEW c \in Calls, Dial(c) PROVE VerdictInv'
<1>1. pc[c] = "dial" /\ UNCHANGED <<config, request>>
    BY DEF Dial
<1>2. \/ \E k \in Conns : /\ identity[k] = "closed"
                          /\ identity' = [identity EXCEPT ![k] = "anonymous"]
                          /\ Connected(c, k)
      \/ \E code \in DirectoryErrors :
            Return(c, code) /\ UNCHANGED <<conn, entry, plan, identity>>
    <2>1. \A f : DialResult(f) # "up" => DialResult(f) \in DirectoryErrors
        BY DEF DialResult, DirectoryErrors
    <2> QED
        BY <2>1 DEF Dial
<1>3. CASE \E code \in DirectoryErrors :
              Return(c, code) /\ UNCHANGED <<conn, entry, plan, identity>>
    <2>1. PICK code \in DirectoryErrors :
             Return(c, code) /\ UNCHANGED <<conn, entry, plan, identity>>
        BY <1>3
    <2>2. pc'[c] = "done" /\ result'[c] = code
        BY <2>1 DEF Return, ClientInv, TypeOK
    <2>3. code \notin Refusals /\ code # "success"
        BY DEF DirectoryErrors, Refusals
    <2>4. Verdict(c)'
        BY <1>1, <2>2, <2>3 DEF Verdict, Undecided, NotRefused
    <2>5. \A d \in Calls \ {c} : pc'[d] = pc[d] /\ result'[d] = result[d]
        BY <2>1 DEF Return, ClientInv, TypeOK
    <2> QED
        BY <1>1, <2>1, <2>4, <2>5, StepVerdict
<1>4. ASSUME NEW k \in Conns, identity[k] = "closed",
             identity' = [identity EXCEPT ![k] = "anonymous"], Connected(c, k)
      PROVE  VerdictInv'
    <2>1. Verdict(c)'
        BY <1>1, <1>4, ConnectedVerdict
    <2>2. \A d \in Calls \ {c} :
             /\ pc'[d] = pc[d] /\ plan'[d] = plan[d] /\ result'[d] = result[d]
             /\ entry'[d] = entry[d] /\ conn'[d] = conn[d]
        BY <1>4 DEF Connected, ClientInv, TypeOK
    <2>3. ASSUME NEW d \in Calls, pc[d] = "work" PROVE identity'[conn[d]] = identity[conn[d]]
        <3>1. conn[d] \in Conns /\ conn[d] # NoConn
            BY <2>3 DEF ClientInv, TypeOK, Shape
        <3>2. conn[d] # k
            BY <1>4, <3>1 DEF ClientInv, Ownership
        <3> QED
            BY <1>4, <3>1, <3>2 DEF ClientInv, TypeOK
    <2> QED
        BY <1>1, <2>1, <2>2, <2>3, StepVerdict
<1> QED
    BY <1>2, <1>3, <1>4

\* A call that has done all of its plan without giving up succeeds, and rightly.
LEMMA VerdictRelease ==
    ASSUME ClientInv, VerdictInv, NEW c \in Calls, Release(c) PROVE VerdictInv'
<1>1. /\ pc[c] = "work" /\ plan[c] = << >>
      /\ UNCHANGED <<config, request, plan, entry>>
    BY DEF Release
<1>2. pc'[c] = "done" /\ result'[c] = IF result[c] = "none" THEN "success" ELSE result[c]
    BY DEF Release, Return, ClientInv, TypeOK
<1>3. Verdict(c) /\ request[c] \in Requests
    BY DEF VerdictInv, ClientInv, TypeOK
<1>4. ASSUME result[c] = "none", request[c].bind
      PROVE  request[c].user \in Users /\ entry[c] \in Entries /\ Accepted(c)
    <2>1. request[c].user \in Users
        BY <1>1, <1>3, <1>4, ClientAssumption DEF Verdict, Undecided
    <2>2. Found(c) /\ Bound(c)
        BY <1>1, <1>3, <1>4, <2>1 DEF Verdict, Undecided
    <2>3. Accepted(c)
        BY <1>1, <2>2, NothingLeft DEF Bound
    <2>4. CASE config.mode = "dn_template"
        BY <2>1, <2>3, <2>4 DEF Accepted, Vouched
    <2>5. CASE config.mode # "dn_template"
        <3>1. entry[c] \in Matching[request[c].user] \union Referred[request[c].user]
            BY <1>1, <2>2, <2>5, NothingLeft DEF Found
        <3> QED
            BY <2>1, <2>3, <3>1, DirectoryAssumption
    <2> QED
        BY <2>1, <2>3, <2>4, <2>5
<1>5. Accepted(c) => Accepted(c)'
    BY <1>1 DEF Accepted, Vouched
<1>6. NotRefused(c)'
    <2>1. "success" \notin Refusals
        BY DEF Refusals
    <2> QED
        BY <1>1, <1>2, <1>3, <2>1 DEF Verdict, NotRefused, NormalAccount
<1>7. Verdict(c)'
    BY <1>1, <1>2, <1>3, <1>4, <1>5, <1>6 DEF Verdict, Undecided
<1>8. \A k \in Conns \ {conn[c]} : identity'[k] = identity[k]
    BY DEF Release, ClientInv, TypeOK
<1>9. \A d \in Calls \ {c} : pc[d] = "work" => identity'[conn[d]] = identity[conn[d]]
    BY <1>1, <1>8, OtherConnections
<1>10. \A d \in Calls \ {c} :
          pc'[d] = pc[d] /\ result'[d] = result[d] /\ conn'[d] = conn[d]
    BY DEF Release, Return, ClientInv, TypeOK
<1> QED
    BY <1>1, <1>7, <1>9, <1>10, StepVerdict

\* Every step of every call keeps what is known of all verdicts.
LEMMA VerdictNext == ClientInv /\ VerdictInv /\ [Next]_vars => VerdictInv'
<1> SUFFICES ASSUME ClientInv, VerdictInv, [Next]_vars PROVE VerdictInv'
    OBVIOUS
<1>1. ASSUME UNCHANGED <<config, pc, request, plan, conn, entry, result, identity>>
      PROVE  VerdictInv'
    BY <1>1, SameVerdict DEF VerdictInv
<1>2. ASSUME NEW c \in Calls, ContextEnds(c) PROVE VerdictInv'
    BY <1>1, <1>2 DEF ContextEnds
<1>3. CASE UNCHANGED vars
    BY <1>1, <1>3 DEF vars
<1> QED
    BY <1>2, <1>3, VerdictStart, VerdictAcquire, VerdictValidate, VerdictDial,
       VerdictBindService, VerdictSearch, VerdictReadEntry, VerdictBindUser,
       VerdictRestore, VerdictRelease
       DEF Next, Finished

-----------------------------------------------------------------------------
(* Theorems about verdicts *)

\* The invariant of the verdicts holds in every state.
THEOREM VerdictInvAlways == Spec => []VerdictInv
<1>1. Init => VerdictInv
    <2> SUFFICES ASSUME Init, NEW c \in Calls PROVE Verdict(c)
        BY DEF VerdictInv
    <2>1. "none" \notin Refusals
        BY DEF Refusals
    <2> QED
        BY <2>1 DEF Init, Verdict, Undecided, NotRefused
<1> QED
    BY <1>1, VerdictNext, ClientInvAlways, PTL DEF Spec

\* No configuration, directory, fault or interleaving of calls makes VerifyPassword or
\* TestConnection accept a password that the server has not accepted for the entry it
\* vouches for: never an empty password, never the service account's own bind.
THEOREM NoFalseAcceptAlways == Spec => []NoFalseAccept
<1>1. VerdictInv => NoFalseAccept
    BY DEF VerdictInv, Verdict, NoFalseAccept, Accepted
<1> QED
    BY <1>1, VerdictInvAlways, PTL

\* VerifyPassword never calls the right password of a normal account wrong, whatever
\* fails meanwhile and whatever was done before with the connection it uses.
THEOREM NoFalseRejectAlways == Spec => []NoFalseReject
<1>1. VerdictInv => NoFalseReject
    BY DEF VerdictInv, Verdict, NotRefused, NoFalseReject
<1> QED
    BY <1>1, VerdictInvAlways, PTL
=============================================================================

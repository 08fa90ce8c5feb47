----------------------------- MODULE GroupSearch -----------------------------
(***************************************************************************)
(* groupFacts of internal/adapters/ldap/client.go: which groups of a user  *)
(* are reported, by each of the three strategies.  A search is answered by *)
(* the directory in any order and may fail: the operation times out, the   *)
(* context ends, the connection breaks.                                    *)
(*                                                                         *)
(* memberOf[x] are the groups that list x as a member, so memberOf is what *)
(* the filter (member=x) finds: search_member_attribute is the attribute   *)
(* by which groups name their members.                                     *)
(***************************************************************************)
EXTENDS Integers, SequencesExt

CONSTANTS
    User,          \* the DN of the user
    Groups,        \* the DNs of the groups
    Memberships,   \* the membership relations to consider
    Strategies,    \* directory_profile.group_strategy, or none: groups not asked for
    DepthLimits,   \* groups.max_depth
    NumberLimits   \* groups.max_groups

ASSUME GroupAssumption ==
    /\ User \notin Groups /\ IsFiniteSet(Groups)
    /\ Memberships \subseteq [Groups \union {User} -> SUBSET Groups]
    /\ Strategies \subseteq
          {"none", "member_attribute_only", "ad_matching_rule",
           "bfs_member_search"}
    /\ DepthLimits \subseteq Nat \ {0}
    /\ NumberLimits \subseteq Nat \ {0}

VARIABLES
    memberOf,    \* the directory
    strategy, maxDepth, maxGroups,
    status,      \* what becomes of the lookup: searching, complete or failed
    depth,       \* the loop variable of bfsGroupFacts
    frontier,    \* the members of this level that are still to be searched for
    next,        \* the groups found for the next level
    facts        \* the result so far

setting == <<memberOf, strategy, maxDepth, maxGroups>>

vars == <<setting, status, depth, frontier, next, facts>>

Init ==
    /\ memberOf \in Memberships
    /\ strategy \in Strategies
    /\ maxDepth \in DepthLimits
    /\ maxGroups \in NumberLimits
    /\ status = "searching"
    /\ depth = 1
    /\ frontier = <<User>>
    /\ next = <<>>
    /\ facts = <<>>

\* The groups of which x is a member, directly or through other groups: the least
\* set that holds the groups of x and of all its own members.
Closure(x) ==
    {g \in Groups :
        \A S \in SUBSET Groups :
            memberOf[x] \subseteq S /\ (\A h \in S : memberOf[h] \subseteq S) => g \in S}

FactsAt(dns, d) == [i \in DOMAIN dns |-> [dn |-> dns[i], depth |-> d]]

\* The first n of a set that comes in any order, or all of it.
UpTo(n, S) == kSubset(IF Cardinality(S) < n THEN Cardinality(S) ELSE n, S)

\* searchGroupEntries: what the caller may be given of the matching groups. The
\* size limit of the request is maxGroups; a server that ignores it sends more,
\* which the client cuts off.
Answers(matching) == UpTo(maxGroups, matching)

Finish(s) == status' = s /\ UNCHANGED <<setting, depth, frontier, next>>

\* groupFacts: the groups are not enabled, or not among the requested attributes.
NotRequested ==
    /\ status = "searching" /\ strategy = "none"
    /\ UNCHANGED facts
    /\ Finish("complete")

\* memberAttributeGroupFacts: the values of the user's own attribute. No limit.
ReadAttribute ==
    /\ status = "searching" /\ strategy = "member_attribute_only"
    /\ \E dns \in SetToSeqs(memberOf[User]) : facts' = FactsAt(dns, 1)
    /\ Finish("complete")

\* adMatchingRuleGroupFacts: one search that the directory resolves itself.
SearchByRule ==
    /\ status = "searching" /\ strategy = "ad_matching_rule"
    /\ \E found \in Answers(Closure(User)) :
          \E dns \in SetToSeqs(found) : facts' = FactsAt(dns, 1)
    /\ Finish("complete")

\* A search fails, also because a server heeds the size limit: what was found
\* before is the result.
SearchFails ==
    /\ status = "searching" /\ strategy \in {"ad_matching_rule", "bfs_member_search"}
    /\ UNCHANGED facts
    /\ Finish("failed")

Seen == {facts[i].dn : i \in DOMAIN facts}

\* bfsGroupFacts reports the groups taken. Those found are the next level, which
\* begins when the frontier is used up, if there is any, unless the depth or the
\* number limit is reached.
Advance(taken, found) ==
    LET level == Tail(frontier) = <<>>
        over  == \/ Len(facts \o taken) >= maxGroups
                 \/ level /\ (found = <<>> \/ depth = maxDepth)
    IN  /\ facts' = facts \o FactsAt(taken, depth)
        /\ frontier' = IF level THEN found ELSE Tail(frontier)
        /\ next' = IF level THEN <<>> ELSE found
        /\ depth' = IF level /\ ~ over THEN depth + 1 ELSE depth
        /\ status' = IF over THEN "complete" ELSE "searching"
        /\ UNCHANGED setting

\* Mutant: the groups of the current level are not marked as seen.
SearchMember_LateMark ==
    /\ status = "searching" /\ strategy = "bfs_member_search"
    /\ \E found \in Answers(memberOf[Head(frontier)]) :
          LET marked == {facts[i].dn : i \in {j \in DOMAIN facts : facts[j].depth < depth}}
          IN  \E new \in UpTo(maxGroups - Len(facts), found \ marked) :
                 \E taken \in SetToSeqs(new) : Advance(taken, next \o taken)

\* Mutant: the number limit is that of each search, not of the whole.
SearchMember_LimitPerSearch ==
    /\ status = "searching" /\ strategy = "bfs_member_search"
    /\ \E found \in Answers(memberOf[Head(frontier)]) :
          \E taken \in SetToSeqs(found \ Seen) : Advance(taken, next \o taken)

\* Mutant: the new groups are put in front, as if the frontier were a stack.
SearchMember_DepthFirst ==
    /\ status = "searching" /\ strategy = "bfs_member_search"
    /\ \E found \in Answers(memberOf[Head(frontier)]) :
          \E new \in UpTo(maxGroups - Len(facts), found \ Seen) :
             \E taken \in SetToSeqs(new) :
                LET rest == taken \o Tail(frontier)
                    over == Len(facts \o taken) >= maxGroups \/ rest = <<>>
                               \/ depth = maxDepth
                IN  /\ facts' = facts \o FactsAt(taken, depth)
                    /\ frontier' = rest
                    /\ depth' = IF over THEN depth ELSE depth + 1
                    /\ status' = IF over THEN "complete" ELSE "searching"
    /\ UNCHANGED <<setting, next>>

\* Mutant: the search goes on while there is a group to search for, and groups
\* seen before are searched for again.
SearchMember_Cycles ==
    /\ status = "searching" /\ strategy = "bfs_member_search"
    /\ \E found \in Answers(memberOf[Head(frontier)]) :
          \E new \in UpTo(maxGroups - Len(facts), found \ Seen) :
             \E taken \in SetToSeqs(new),
                more \in SetToSeqs(found \ Range(Tail(frontier))) :
                LET again == Tail(frontier) \o more
                IN  /\ facts' = facts \o FactsAt(taken, depth)
                    /\ frontier' = again
                    /\ status' = IF again = <<>> THEN "complete" ELSE "searching"
    /\ UNCHANGED <<setting, next, depth>>

\* bfsGroupFacts: one search of its inner loop, for the groups of the next member
\* of the frontier. New groups are marked, reported and queued at once, until the
\* number limit.
SearchMember ==
    /\ status = "searching" /\ strategy = "bfs_member_search"
    /\ \E found \in Answers(memberOf[Head(frontier)]) :
          \E new \in UpTo(maxGroups - Len(facts), found \ Seen) :
             \E taken \in SetToSeqs(new) : Advance(taken, next \o taken)

\* The lookup has returned.
Returned == status # "searching" /\ UNCHANGED vars

Next ==
    \/ NotRequested \/ ReadAttribute \/ SearchByRule \/ SearchMember
    \/ SearchFails
    \/ Returned

Spec == Init /\ [][Next]_vars

\* Every search ends: each gets the time that is left of the request's.
FairSpec == Spec /\ WF_vars(NotRequested \/ ReadAttribute \/ SearchByRule \/ SearchMember)

-----------------------------------------------------------------------------
(* Properties *)

\* A reference: the chains of n memberships that start from the user, and the
\* groups in which they end. A group lies at distance n if its shortest chain has
\* n memberships.
Chains(n) ==
    {chain \in [1 .. n -> Groups] :
        \A i \in 1 .. n : chain[i] \in memberOf[IF i = 1 THEN User ELSE chain[i - 1]]}

ReachedIn(n) == {chain[n] : chain \in Chains(n)}

AtDistance(g, n) == g \in ReachedIn(n) /\ \A i \in 1 .. n - 1 : g \notin ReachedIn(i)

\* Whatever is reported, and however early the search broke off, is a group of the
\* user, reported once; the breadth-first search gives its distance.
FactsCorrect ==
    \A i \in DOMAIN facts :
        /\ facts[i].dn \in Closure(User)
        /\ \A j \in DOMAIN facts : facts[i].dn = facts[j].dn => i = j
        /\ strategy = "bfs_member_search" => AtDistance(facts[i].dn, facts[i].depth)

\* bfsGroupFacts loses only the farthest groups: when it reports a group it has
\* reported all that are nearer, and a search that neither failed nor met the
\* number limit reports all groups within the depth limit. (That a server ignores
\* the size limit, and searchGroupEntries cuts its answer, costs nothing more.)
NearestFirst ==
    strategy = "bfs_member_search" =>
        \A g \in Groups, n \in 1 .. maxDepth :
            /\ \/ \E i \in DOMAIN facts : facts[i].depth > n
               \/ status = "complete" /\ Len(facts) < maxGroups
            /\ AtDistance(g, n)
            => g \in Seen

\* The searching strategies report at most max_groups groups, none deeper than
\* max_depth.
WithinLimits ==
    strategy # "member_attribute_only" =>
        /\ Len(facts) <= maxGroups
        /\ \A i \in DOMAIN facts : facts[i].depth <= maxDepth

\* What a breadth-first lookup may still search for: the members queued and the
\* groups it may still report.
Budget == Len(frontier) + Len(next) + (maxGroups - Len(facts))

\* Every search of bfsGroupFacts uses up one of at most max_groups searches, whatever
\* the cycles and however the answers overlap. (As a group is queued only when it is
\* reported, and reported once by FactsCorrect, none is searched for twice.) Each
\* search has a timeout of its own, so this bounds the time of a lookup.
SearchesBounded ==
    [][SearchMember => Budget > 1 /\ Budget' = Budget - 1 /\ Budget <= 1 + maxGroups]_vars

\* The lookup ends on every membership relation, cyclic ones included.
Terminates == <> (status # "searching")
=============================================================================

---------------------------- MODULE GroupProofs ----------------------------
(***************************************************************************)
(* Theorems about GroupSearch, for every membership relation on any finite *)
(* set of groups and any limits.                                           *)
(***************************************************************************)
EXTENDS GroupSearch, FiniteSetTheorems, SequenceTheorems, WellFoundedInduction, TLAPS

Fact == [dn : Groups, depth : Nat]

-----------------------------------------------------------------------------
(* The operators *)

\* Every set of naturals has a least element: induction, by a least counterexample.
LEMMA LeastNat ==
    ASSUME NEW T \in SUBSET Nat, T # {}
    PROVE  \E m \in T : \A k \in T : m <= k
<1>1. IsWellFoundedOn(OpToRel(<, Nat), Nat)
    BY NatLessThanWellFounded
<1>2. PICK m \in T : \A k \in T : ~ (<<k, m>> \in OpToRel(<, Nat))
    BY <1>1, WFMin
<1>3. ASSUME NEW k \in T PROVE m <= k
  <2>1. ~ (<<k, m>> \in OpToRel(<, Nat))
      BY <1>2, <1>3
  <2>2. k \in Nat /\ m \in Nat
      OBVIOUS
  <2>3. ~ (k < m)
      BY <2>1, <2>2 DEF OpToRel
  <2> QED
      BY <2>2, <2>3
<1> QED
    BY <1>3

\* As much of a set as fits below a limit; less than the limit is all of it.
LEMMA UpToFits ==
    ASSUME NEW n \in Nat, NEW S, IsFiniteSet(S), NEW T \in UpTo(n, S)
    PROVE  /\ T \in SUBSET S /\ IsFiniteSet(T) /\ Cardinality(T) \in Nat
           /\ Cardinality(T) <= n
           /\ Cardinality(T) < n => T = S
           /\ Cardinality(T) = IF Cardinality(S) < n THEN Cardinality(S) ELSE n
<1>1. T \in SUBSET S /\ Cardinality(T) = IF Cardinality(S) < n THEN Cardinality(S) ELSE n
    BY DEF UpTo, kSubset
<1>2. IsFiniteSet(T) /\ (Cardinality(S) = Cardinality(T) => S = T)
    BY <1>1, FS_Subset
<1>3. Cardinality(S) \in Nat /\ Cardinality(T) \in Nat
    BY <1>2, FS_CardinalityType
<1> QED
    BY <1>1, <1>2, <1>3

\* An arrangement of a set names each of its elements once.
LEMMA Arrangement ==
    ASSUME NEW S, IsFiniteSet(S), NEW s \in SetToSeqs(S)
    PROVE  /\ s \in Seq(S) /\ Len(s) = Cardinality(S) /\ Len(s) \in Nat
           /\ DOMAIN s = 1 .. Len(s)
           /\ \A i, j \in 1 .. Len(s) : s[i] = s[j] => i = j
           /\ \A x \in S : \E i \in 1 .. Len(s) : s[i] = x
<1>1. Cardinality(S) \in Nat
    BY FS_CardinalityType
<1>2. /\ s \in [1 .. Cardinality(S) -> S]
      /\ \A i, j \in 1 .. Cardinality(S) : i # j => s[i] # s[j]
    BY DEF SetToSeqs
<1>3. s \in Seq(S) /\ Len(s) = Cardinality(S)
    BY <1>1, <1>2
<1>4. s \in Injection(1 .. Cardinality(S), S)
    BY <1>2 DEF Injection, IsInjective
<1>5. IsFiniteSet(1 .. Cardinality(S)) /\ Cardinality(1 .. Cardinality(S)) = Cardinality(S)
    BY <1>1, FS_Interval
<1>6. s \in Surjection(1 .. Cardinality(S), S)
    BY <1>4, <1>5, FS_Injection
<1> QED
    BY <1>1, <1>2, <1>3, <1>6 DEF Surjection

LEMMA SeenFact ==
    ASSUME facts \in Seq(Fact)
    PROVE  \A x : x \in Seen <=> \E i \in 1 .. Len(facts) : x = facts[i].dn
<1>1. DOMAIN facts = 1 .. Len(facts)
    OBVIOUS
<1> QED
    BY <1>1 DEF Seen

\* Nothing reported is counted for less than a fact.
LEMMA SeenFits ==
    ASSUME facts \in Seq(Fact)
    PROVE  /\ IsFiniteSet(Seen) /\ Cardinality(Seen) \in Nat
           /\ Cardinality(Seen) <= Len(facts) /\ Seen \in SUBSET Groups
<1>1. Len(facts) \in Nat /\ DOMAIN facts = 1 .. Len(facts)
    OBVIOUS
<1> DEFINE f == [i \in 1 .. Len(facts) |-> facts[i].dn]
<1>2. f \in Surjection(1 .. Len(facts), Seen)
    BY <1>1 DEF Surjection, Seen
<1>3. IsFiniteSet(1 .. Len(facts)) /\ Cardinality(1 .. Len(facts)) = Len(facts)
    BY <1>1, FS_Interval
<1>4. IsFiniteSet(Seen) /\ Cardinality(Seen) <= Len(facts)
    BY <1>2, <1>3, FS_Surjection
<1>5. \A i \in DOMAIN facts : facts[i] \in Fact
    BY <1>1, ElementOfSeq
<1>6. Seen \in SUBSET Groups
    BY <1>5 DEF Seen, Fact
<1> QED
    BY <1>4, <1>6, FS_CardinalityType

\* A search whose new groups do not fill up the result has met no limit: neither
\* the cut of the answer at maxGroups nor that of the result has lost a group.
LEMMA NothingCut ==
    ASSUME facts \in Seq(Fact), maxGroups \in Nat,
           Len(facts) < maxGroups, NEW matching, IsFiniteSet(matching),
           NEW found \in Answers(matching),
           NEW new \in UpTo(maxGroups - Len(facts), found \ Seen),
           Cardinality(new) < maxGroups - Len(facts)
    PROVE  matching \subseteq Seen \union new
<1>1. /\ found \in SUBSET matching /\ IsFiniteSet(found) /\ Cardinality(found) \in Nat
      /\ Cardinality(found) < maxGroups => found = matching
    BY UpToFits DEF Answers
<1>2. IsFiniteSet(found \ Seen) /\ Cardinality(found \ Seen) \in Nat
    BY <1>1, FS_Subset, FS_CardinalityType
<1>3. maxGroups - Len(facts) \in Nat /\ Len(facts) \in Nat
    OBVIOUS
<1>4. new = found \ Seen
    BY <1>2, <1>3, UpToFits
<1>5. Cardinality(found) <= Cardinality(Seen) + Cardinality(found \ Seen)
  <2>1. Cardinality(found \ Seen) = Cardinality(found) - Cardinality(found \cap Seen)
      BY <1>1, SeenFits, FS_Difference
  <2>2. Cardinality(found \cap Seen) <= Cardinality(Seen)
        /\ Cardinality(found \cap Seen) \in Nat
      BY SeenFits, FS_Subset, FS_CardinalityType
  <2> QED
      BY <1>1, <1>2, <2>1, <2>2, SeenFits
<1>6. Cardinality(found) < maxGroups
    BY <1>1, <1>2, <1>3, <1>4, <1>5, SeenFits
<1> QED
    BY <1>1, <1>4, <1>6

-----------------------------------------------------------------------------
(* Chains of memberships *)

MembersTyped == memberOf \in [Groups \union {User} -> SUBSET Groups]

LEMMA ReachedFirst == ASSUME MembersTyped PROVE ReachedIn(1) = memberOf[User]
<1>1. ASSUME NEW g \in ReachedIn(1) PROVE g \in memberOf[User]
    BY <1>1 DEF ReachedIn, Chains
<1>2. ASSUME NEW g \in memberOf[User] PROVE g \in ReachedIn(1)
  <2> DEFINE chain == [i \in 1 .. 1 |-> g]
  <2>1. g \in Groups
      BY <1>2 DEF MembersTyped
  <2>2. chain \in Chains(1) /\ chain[1] = g
      BY <1>2, <2>1 DEF Chains
  <2> QED
      BY <2>2 DEF ReachedIn
<1> QED
    BY <1>1, <1>2

\* A chain is a shorter one and one more membership.
LEMMA ReachedNext ==
    ASSUME MembersTyped, NEW n \in Nat, n >= 1, NEW g
    PROVE  g \in ReachedIn(n + 1) <=> \E x \in ReachedIn(n) : g \in memberOf[x]
<1>1. ASSUME g \in ReachedIn(n + 1) PROVE \E x \in ReachedIn(n) : g \in memberOf[x]
  <2>1. PICK p \in Chains(n + 1) : g = p[n + 1]
      BY <1>1 DEF ReachedIn
  <2>2. /\ p \in [1 .. n + 1 -> Groups]
        /\ \A i \in 1 .. n + 1 : p[i] \in memberOf[IF i = 1 THEN User ELSE p[i - 1]]
      BY <2>1 DEF Chains
  <2> DEFINE q == [i \in 1 .. n |-> p[i]]
  <2>3. q \in Chains(n)
      BY <2>2 DEF Chains
  <2>4. q[n] \in ReachedIn(n)
      BY <2>3 DEF ReachedIn
  <2>5. g \in memberOf[p[n]] /\ q[n] = p[n]
      BY <2>1, <2>2
  <2> QED
      BY <2>4, <2>5
<1>2. ASSUME NEW x \in ReachedIn(n), g \in memberOf[x] PROVE g \in ReachedIn(n + 1)
  <2>1. PICK p \in Chains(n) : x = p[n]
      BY <1>2 DEF ReachedIn
  <2>2. /\ p \in [1 .. n -> Groups]
        /\ \A i \in 1 .. n : p[i] \in memberOf[IF i = 1 THEN User ELSE p[i - 1]]
      BY <2>1 DEF Chains
  <2>3. x \in Groups /\ g \in Groups
      BY <1>2, <2>1, <2>2 DEF MembersTyped
  <2> DEFINE q == [i \in 1 .. n + 1 |-> IF i = n + 1 THEN g ELSE p[i]]
  <2>4. q \in [1 .. n + 1 -> Groups] /\ q[n + 1] = g
      BY <2>2, <2>3
  <2>5. ASSUME NEW i \in 1 .. n + 1
        PROVE  q[i] \in memberOf[IF i = 1 THEN User ELSE q[i - 1]]
    <3>1. CASE i = n + 1
        BY <1>2, <2>1, <3>1
    <3>2. CASE i # n + 1
      <4>1. i \in 1 .. n /\ q[i] = p[i] /\ (i # 1 => q[i - 1] = p[i - 1])
          BY <3>2
      <4> QED
          BY <2>2, <4>1
    <3> QED
        BY <3>1, <3>2
  <2>6. q \in Chains(n + 1)
      BY <2>4, <2>5 DEF Chains
  <2> QED
      BY <2>4, <2>6 DEF ReachedIn
<1> QED
    BY <1>1, <1>2

\* No chain leaves a set that holds the groups of the user and of its members.
LEMMA ReachedWithin ==
    ASSUME MembersTyped, NEW S, memberOf[User] \subseteq S,
           \A h \in S : memberOf[h] \subseteq S, NEW n \in Nat, n >= 1
    PROVE  ReachedIn(n) \subseteq S
<1> DEFINE Outside == {k \in Nat : k >= 1 /\ ~ (ReachedIn(k) \subseteq S)}
<1> SUFFICES ASSUME Outside # {} PROVE FALSE
    OBVIOUS
<1>1. PICK m \in Outside : \A k \in Outside : m <= k
    BY LeastNat
<1>2. m # 1
    BY <1>1, ReachedFirst
<1>3. m - 1 \in Nat /\ m - 1 >= 1 /\ ReachedIn(m - 1) \subseteq S
    BY <1>1, <1>2
<1>4. ASSUME NEW g \in ReachedIn((m - 1) + 1) PROVE g \in S
    BY <1>3, <1>4, ReachedNext
<1> QED
    BY <1>1, <1>4

\* The groups of the user, and those of all its groups, belong to its closure.
LEMMA ClosureGrows ==
    ASSUME MembersTyped
    PROVE  /\ memberOf[User] \subseteq Closure(User) /\ Closure(User) \in SUBSET Groups
           /\ \A h \in Closure(User) : memberOf[h] \subseteq Closure(User)
<1>1. Closure(User) \in SUBSET Groups
    BY DEF Closure
<1>2. memberOf[User] \subseteq Closure(User)
    BY DEF Closure, MembersTyped
<1>3. ASSUME NEW h \in Closure(User), NEW g \in memberOf[h] PROVE g \in Closure(User)
    BY <1>3 DEF Closure, MembersTyped
<1> QED
    BY <1>1, <1>2, <1>3

-----------------------------------------------------------------------------
(* The inductive invariant *)

GroupTyped ==
    /\ MembersTyped
    /\ maxDepth \in Nat /\ maxDepth >= 1 /\ maxGroups \in Nat /\ maxGroups >= 1
    /\ depth \in Nat /\ 1 <= depth /\ depth <= maxDepth
    /\ frontier \in Seq(Groups \union {User}) /\ next \in Seq(Groups)
    /\ facts \in Seq(Fact)

\* What is reported are groups of the user, each once, within the limits.
Reported ==
    /\ \A i \in 1 .. Len(facts) :
          /\ facts[i].dn \in Closure(User)
          /\ 1 <= facts[i].depth /\ facts[i].depth <= depth
    /\ \A i, j \in 1 .. Len(facts) : facts[i].dn = facts[j].dn => i = j
    /\ strategy # "member_attribute_only" => Len(facts) <= maxGroups

Level(n) == IF n = 0 THEN {User} ELSE ReachedIn(n)

\* While it searches, every group found was searched for, or waits to be: those of
\* the last level in the frontier, those of this level in next.
Queued ==
    /\ Len(facts) < maxGroups
    /\ frontier # <<>>
    /\ \A i \in 1 .. Len(frontier) :
          frontier[i] \in Level(depth - 1) /\ frontier[i] \in Seen \union {User}
    /\ \A i \in 1 .. Len(next) : next[i] \in Seen /\ AtDistance(next[i], depth)
    /\ \A x \in Seen \union {User} :
          \/ \E i \in 1 .. Len(frontier) : x = frontier[i]
          \/ \E i \in 1 .. Len(next) : x = next[i]
          \/ memberOf[x] \subseteq Seen

\* The levels before this one are complete, and a search that ends without having
\* met the number limit has completed all of them.
LevelsComplete ==
    /\ \A i \in 1 .. Len(facts) : AtDistance(facts[i].dn, facts[i].depth)
    /\ \A n \in Nat : 1 <= n /\ n < depth => ReachedIn(n) \subseteq Seen
    /\ status = "searching" => Queued
    /\ status = "complete" /\ Len(facts) < maxGroups =>
          \A n \in Nat : 1 <= n /\ n <= maxDepth => ReachedIn(n) \subseteq Seen

GroupInv ==
    /\ GroupTyped /\ Reported
    /\ strategy = "bfs_member_search" => LevelsComplete

\* The facts made of a list of groups.
LEMMA FactsOf ==
    ASSUME NEW dns \in Seq(Groups), NEW d \in Nat
    PROVE  LET f == FactsAt(dns, d)
           IN  /\ f \in Seq(Fact) /\ Len(f) = Len(dns)
               /\ \A i \in 1 .. Len(dns) : f[i].dn = dns[i] /\ f[i].depth = d
<1>1. Len(dns) \in Nat /\ DOMAIN dns = 1 .. Len(dns)
    OBVIOUS
<1>2. FactsAt(dns, d) = [i \in 1 .. Len(dns) |-> [dn |-> dns[i], depth |-> d]]
    BY <1>1 DEF FactsAt
<1>3. FactsAt(dns, d) \in [1 .. Len(dns) -> Fact]
    BY <1>1, <1>2, ElementOfSeq DEF Fact
<1> QED
    BY <1>1, <1>2, <1>3

\* Where the elements of two lists are when they are joined.
LEMMA Joined ==
    ASSUME NEW S, NEW s \in Seq(S), NEW t \in Seq(S)
    PROVE  /\ s \o t \in Seq(S) /\ Len(s \o t) = Len(s) + Len(t)
           /\ \A i \in 1 .. Len(s) : (s \o t)[i] = s[i]
           /\ \A i \in 1 .. Len(t) : (s \o t)[Len(s) + i] = t[i]
           /\ \A i \in 1 .. Len(s) + Len(t) :
                 i \in 1 .. Len(s) \/ \E j \in 1 .. Len(t) : i = Len(s) + j
<1>1. Len(s) \in Nat /\ Len(t) \in Nat
    OBVIOUS
<1>2. \A i \in 1 .. Len(s) + Len(t) :
         (s \o t)[i] = IF i <= Len(s) THEN s[i] ELSE t[i - Len(s)]
    BY ConcatProperties
<1>3. ASSUME NEW i \in 1 .. Len(t) PROVE (s \o t)[Len(s) + i] = t[i]
    BY <1>1, <1>2
<1>4. ASSUME NEW i \in 1 .. Len(s) + Len(t), i \notin 1 .. Len(s)
      PROVE  \E j \in 1 .. Len(t) : i = Len(s) + j
  <2>1. i - Len(s) \in 1 .. Len(t) /\ i = Len(s) + (i - Len(s))
      BY <1>1, <1>4
  <2> QED
      BY <2>1
<1> QED
    BY <1>1, <1>2, <1>3, <1>4, ConcatProperties

\* Reporting more groups.
LEMMA ReportMore ==
    ASSUME facts \in Seq(Fact), NEW taken \in Seq(Groups),
           NEW d \in Nat, facts' = facts \o FactsAt(taken, d)
    PROVE  /\ facts' \in Seq(Fact)
           /\ Len(facts') = Len(facts) + Len(taken)
           /\ \A i \in 1 .. Len(facts) : facts'[i] = facts[i]
           /\ \A i \in 1 .. Len(taken) : /\ facts'[Len(facts) + i].dn = taken[i]
                                         /\ facts'[Len(facts) + i].depth = d
           /\ \A i \in 1 .. Len(facts') :
                 i \in 1 .. Len(facts) \/ \E j \in 1 .. Len(taken) : i = Len(facts) + j
           /\ \A x : x \in Seen' <=> x \in Seen \/ \E i \in 1 .. Len(taken) : x = taken[i]
<1>1. PICK new \in Seq(Fact) :
         /\ new = FactsAt(taken, d) /\ Len(new) = Len(taken)
         /\ \A i \in 1 .. Len(taken) : new[i].dn = taken[i] /\ new[i].depth = d
    BY FactsOf
<1>2. facts' = facts \o new
    BY <1>1
<1>3. /\ facts' \in Seq(Fact) /\ Len(facts') = Len(facts) + Len(new)
      /\ \A i \in 1 .. Len(facts) : facts'[i] = facts[i]
      /\ \A i \in 1 .. Len(new) : facts'[Len(facts) + i] = new[i]
      /\ \A i \in 1 .. Len(facts) + Len(new) :
            i \in 1 .. Len(facts) \/ \E j \in 1 .. Len(new) : i = Len(facts) + j
  <2>1. facts' \in Seq(Fact) /\ Len(facts') = Len(facts) + Len(new)
      BY <1>2, Joined
  <2>2. \A i \in 1 .. Len(facts) : facts'[i] = facts[i]
      BY <1>2, Joined
  <2>3. \A i \in 1 .. Len(new) : facts'[Len(facts) + i] = new[i]
      BY <1>2, Joined
  <2>4. \A i \in 1 .. Len(facts) + Len(new) :
            i \in 1 .. Len(facts) \/ \E j \in 1 .. Len(new) : i = Len(facts) + j
      BY Joined
  <2> QED
      BY <2>1, <2>2, <2>3, <2>4
<1>4. Len(facts) \in Nat /\ Len(taken) \in Nat
    OBVIOUS
<1>5. \A x : x \in Seen <=> \E i \in 1 .. Len(facts) : x = facts[i].dn
    BY SeenFact
<1>6. \A x : x \in Seen' <=> \E i \in 1 .. Len(facts') : x = facts'[i].dn
  <2>1. DOMAIN facts' = 1 .. Len(facts')
      BY <1>3
  <2> QED
      BY <2>1 DEF Seen
<1>7. \A i \in 1 .. Len(facts) : i \in 1 .. Len(facts')
    BY <1>3, <1>4
<1>8. \A i \in 1 .. Len(taken) : Len(facts) + i \in 1 .. Len(facts')
    BY <1>1, <1>3, <1>4
<1>9. ASSUME NEW i \in 1 .. Len(taken)
      PROVE  facts'[Len(facts) + i].dn = taken[i] /\ facts'[Len(facts) + i].depth = d
    BY <1>1, <1>3
<1>10. ASSUME NEW i \in 1 .. Len(facts')
       PROVE  i \in 1 .. Len(facts) \/ \E j \in 1 .. Len(taken) : i = Len(facts) + j
    BY <1>1, <1>3
<1>11. ASSUME NEW x
       PROVE  x \in Seen' <=> x \in Seen \/ \E i \in 1 .. Len(taken) : x = taken[i]
  <2>1. ASSUME x \in Seen' PROVE x \in Seen \/ \E i \in 1 .. Len(taken) : x = taken[i]
    <3>1. PICK i \in 1 .. Len(facts') : x = facts'[i].dn
        BY <1>6, <2>1
    <3>2. CASE i \in 1 .. Len(facts)
        BY <1>3, <1>5, <3>1, <3>2
    <3>3. CASE \E j \in 1 .. Len(taken) : i = Len(facts) + j
        BY <1>9, <3>1, <3>3
    <3> QED
        BY <1>10, <3>2, <3>3
  <2>2. ASSUME x \in Seen PROVE x \in Seen'
      BY <1>3, <1>5, <1>6, <1>7, <2>2
  <2>3. ASSUME NEW i \in 1 .. Len(taken), x = taken[i] PROVE x \in Seen'
      BY <1>6, <1>8, <1>9, <2>3
  <2> QED
      BY <2>1, <2>2, <2>3
<1> QED
    BY <1>1, <1>3, <1>9, <1>10, <1>11

LEMMA SameMembers ==
    ASSUME memberOf' = memberOf
    PROVE  /\ Closure(User)' = Closure(User)
           /\ \A n : ReachedIn(n)' = ReachedIn(n)
           /\ \A g, n : AtDistance(g, n)' <=> AtDistance(g, n)
           /\ \A n : Level(n)' = Level(n)
<1>1. Closure(User)' = Closure(User)
    BY DEF Closure
<1>2. \A n : Chains(n)' = Chains(n)
    BY DEF Chains
<1>3. \A n : ReachedIn(n)' = ReachedIn(n)
    BY <1>2 DEF ReachedIn
<1> QED
    BY <1>1, <1>3 DEF AtDistance, Level

\* A list is its first element and the others.
LEMMA FirstAndRest ==
    ASSUME NEW S, NEW s \in Seq(S), s # <<>>
    PROVE  /\ Head(s) = s[1] /\ Head(s) \in S /\ Tail(s) \in Seq(S)
           /\ Len(s) \in Nat /\ Len(s) >= 1
           /\ \A i \in 1 .. Len(Tail(s)) : i + 1 \in 1 .. Len(s) /\ Tail(s)[i] = s[i + 1]
           /\ \A i \in 1 .. Len(s) : i = 1 \/ \E j \in 1 .. Len(Tail(s)) : Tail(s)[j] = s[i]
           /\ Tail(s) = <<>> => Len(s) = 1
<1>1. Len(s) \in Nat /\ Len(s) >= 1
    BY EmptySeq
<1>2. /\ Head(s) \in S /\ Tail(s) \in Seq(S) /\ Len(Tail(s)) = Len(s) - 1
      /\ \A i \in 1 .. Len(Tail(s)) : Tail(s)[i] = s[i + 1]
    BY HeadTailProperties
<1>3. Head(s) = s[1]
    BY <1>1
<1>4. ASSUME NEW i \in 1 .. Len(s), i # 1
      PROVE  \E j \in 1 .. Len(Tail(s)) : Tail(s)[j] = s[i]
  <2>1. i - 1 \in 1 .. Len(Tail(s)) /\ (i - 1) + 1 = i
      BY <1>1, <1>2, <1>4
  <2> QED
      BY <1>2, <2>1
<1>5. ASSUME Tail(s) = <<>> PROVE Len(s) = 1
  <2>1. Len(<<>>) = 0
      BY EmptySeq
  <2>2. Len(s) - 1 = 0
      BY <1>2, <1>5, <2>1, Zenon
  <2> QED
      BY <1>1, <2>2
<1>6. \A i \in 1 .. Len(Tail(s)) : i + 1 \in 1 .. Len(s)
    BY <1>1, <1>2
<1> QED
    BY <1>1, <1>2, <1>3, <1>4, <1>5, <1>6

\* What one search of the breadth-first strategy finds: new groups of the member
\* searched for, which lie at the distance of this level.
LEMMA SearchFinds ==
    ASSUME GroupInv, LevelsComplete, Queued,
           NEW found \in Answers(memberOf[Head(frontier)]),
           NEW new \in UpTo(maxGroups - Len(facts), found \ Seen),
           NEW taken \in SetToSeqs(new)
    PROVE  LET x == Head(frontier)
           IN  /\ x = frontier[1] /\ x \in Groups \union {User}
               /\ memberOf[x] \in SUBSET Groups
               /\ taken \in Seq(Groups) /\ Len(facts) + Len(taken) <= maxGroups
               /\ \A i, j \in 1 .. Len(taken) : taken[i] = taken[j] => i = j
               /\ \A g : g \in new <=> \E i \in 1 .. Len(taken) : g = taken[i]
               /\ \A g \in new : /\ g \notin Seen /\ g \in memberOf[x]
                                 /\ g \in Closure(User) /\ AtDistance(g, depth)
               /\ Len(facts) + Len(taken) < maxGroups =>
                     memberOf[x] \subseteq Seen \union new
<1> DEFINE x == Head(frontier)
           room == maxGroups - Len(facts)
<1>1. /\ x = frontier[1] /\ x \in Groups \union {User}
      /\ Len(frontier) \in Nat /\ Len(frontier) >= 1
    BY FirstAndRest DEF GroupInv, GroupTyped, Queued
<1>2. memberOf[x] \in SUBSET Groups /\ IsFiniteSet(memberOf[x])
    BY <1>1, GroupAssumption, FS_Subset DEF GroupInv, GroupTyped, MembersTyped
<1>3. room \in Nat /\ maxGroups \in Nat /\ facts \in Seq(Fact) /\ Len(facts) \in Nat
      /\ Len(facts) < maxGroups
    BY DEF GroupInv, GroupTyped, Queued
<1>4. found \in SUBSET memberOf[x] /\ IsFiniteSet(found \ Seen)
  <2>1. found \in UpTo(maxGroups, memberOf[x])
      BY DEF Answers
  <2>2. found \in SUBSET memberOf[x] /\ IsFiniteSet(found)
      BY <1>2, <1>3, <2>1, UpToFits
  <2> QED
      BY <2>2, FS_Difference
<1>5. new \in SUBSET (found \ Seen) /\ IsFiniteSet(new) /\ Cardinality(new) <= room
      /\ Cardinality(new) \in Nat
    BY <1>3, <1>4, UpToFits
<1>6. /\ taken \in Seq(new) /\ Len(taken) = Cardinality(new)
      /\ \A i, j \in 1 .. Len(taken) : taken[i] = taken[j] => i = j
      /\ \A g \in new : \E i \in 1 .. Len(taken) : taken[i] = g
    BY <1>5, Arrangement
<1>7. taken \in Seq(Groups)
    BY <1>2, <1>4, <1>5, <1>6, SeqMonotonic
<1>8. \A i \in 1 .. Len(taken) : taken[i] \in new
    BY <1>6, ElementOfSeq
<1>9. Len(facts) + Len(taken) < maxGroups => memberOf[x] \subseteq Seen \union new
  <2> SUFFICES ASSUME Len(facts) + Len(taken) < maxGroups
               PROVE  memberOf[x] \subseteq Seen \union new
      OBVIOUS
  <2>1. Cardinality(new) < room
      BY <1>3, <1>5, <1>6
  <2> QED
      BY <1>2, <1>3, <2>1, NothingCut
<1>10. x = User \/ x \in Closure(User)
  <2>1. x \in Seen \union {User}
      BY <1>1 DEF Queued
  <2>2. \A g \in Seen : g \in Closure(User)
      BY <1>3, SeenFact DEF GroupInv, Reported
  <2> QED
      BY <2>1, <2>2
<1>11. ASSUME NEW g \in new
       PROVE  /\ g \notin Seen /\ g \in memberOf[x]
              /\ g \in Closure(User) /\ AtDistance(g, depth)
  <2>1. g \notin Seen /\ g \in memberOf[x]
      BY <1>4, <1>5
  <2>2. g \in Closure(User)
      BY <1>10, <2>1, ClosureGrows DEF GroupInv, GroupTyped
  <2>3. x \in Level(depth - 1) /\ depth \in Nat /\ depth >= 1
      BY <1>1 DEF Queued, GroupInv, GroupTyped
  <2>4. g \in ReachedIn(depth)
    <3>1. CASE depth = 1
        BY <2>1, <2>3, <3>1, ReachedFirst DEF Level, GroupInv, GroupTyped
    <3>2. CASE depth # 1
      <4>1. depth - 1 \in Nat /\ depth - 1 >= 1 /\ (depth - 1) + 1 = depth
          BY <2>3, <3>2
      <4>2. x \in ReachedIn(depth - 1)
          BY <2>3, <4>1 DEF Level
      <4>3. g \in ReachedIn((depth - 1) + 1)
          BY <2>1, <4>1, <4>2, ReachedNext DEF GroupInv, GroupTyped
      <4> QED
          BY <4>1, <4>3
    <3> QED
        BY <3>1, <3>2
  <2>5. \A i \in 1 .. depth - 1 : g \notin ReachedIn(i)
      BY <2>1, <2>3 DEF LevelsComplete
  <2> QED
      BY <2>1, <2>2, <2>4, <2>5 DEF AtDistance
<1> QED
    BY <1>1, <1>2, <1>3, <1>5, <1>6, <1>7, <1>8, <1>9, <1>11

\* The last search of a level completes it, unless the number limit is met: what is
\* reached in so many memberships is reached through a group of the level before,
\* which was searched for.
LEMMA LevelEnds ==
    ASSUME GroupInv, LevelsComplete, Queued, Tail(frontier) = <<>>, NEW S,
           Seen \subseteq S, memberOf[Head(frontier)] \subseteq S
    PROVE  ReachedIn(depth) \subseteq S
<1>1. depth \in Nat /\ depth >= 1 /\ MembersTyped
    BY DEF GroupInv, GroupTyped
<1>2. Head(frontier) = frontier[1] /\ Len(frontier) = 1
    BY FirstAndRest DEF GroupInv, GroupTyped, Queued
<1>3. ASSUME NEW y \in Level(depth - 1) PROVE memberOf[y] \subseteq S
  <2>1. y \in Seen \union {User}
    <3>1. CASE depth = 1
        BY <1>3, <3>1 DEF Level
    <3>2. CASE depth # 1
      <4>1. depth - 1 \in Nat /\ 1 <= depth - 1 /\ depth - 1 < depth
          BY <1>1, <3>2
      <4> QED
          BY <1>3, <4>1 DEF Level, LevelsComplete
    <3> QED
        BY <3>1, <3>2
  <2>2. ASSUME NEW i \in 1 .. Len(next), y = next[i] PROVE FALSE
    <3>1. y \in Groups /\ AtDistance(y, depth)
        BY <2>2, ElementOfSeq DEF Queued, GroupInv, GroupTyped
    <3>2. CASE depth = 1
        BY <1>3, <3>1, <3>2, GroupAssumption DEF Level
    <3>3. CASE depth # 1
      <4>1. depth - 1 \in 1 .. depth - 1 /\ depth - 1 # 0
          BY <1>1, <3>3
      <4> QED
          BY <1>3, <3>1, <4>1 DEF Level, AtDistance
    <3> QED
        BY <3>2, <3>3
  <2> QED
      BY <1>2, <2>1, <2>2 DEF Queued
<1>4. ASSUME NEW g \in ReachedIn(depth) PROVE \E y \in Level(depth - 1) : g \in memberOf[y]
  <2>1. CASE depth = 1
      BY <1>1, <1>4, <2>1, ReachedFirst DEF Level
  <2>2. CASE depth # 1
    <3>1. depth - 1 \in Nat /\ depth - 1 >= 1 /\ (depth - 1) + 1 = depth /\ depth - 1 # 0
        BY <1>1, <2>2
    <3>2. \E y \in ReachedIn(depth - 1) : g \in memberOf[y]
        BY <1>1, <1>4, <3>1, ReachedNext
    <3> QED
        BY <3>1, <3>2 DEF Level
  <2> QED
      BY <2>1, <2>2
<1> QED
    BY <1>3, <1>4

\* One search of the breadth-first strategy, as it changes the state.
LEMMA SearchMemberInv ==
    ASSUME GroupInv, SearchMember PROVE GroupInv'
<1>1. /\ LevelsComplete /\ Queued /\ GroupTyped /\ Reported
      /\ status = "searching" /\ strategy = "bfs_member_search"
    BY DEF GroupInv, LevelsComplete, SearchMember
<1>2. PICK found \in Answers(memberOf[Head(frontier)]) :
         \E n \in UpTo(maxGroups - Len(facts), found \ Seen) :
            \E t \in SetToSeqs(n) : Advance(t, next \o t)
    BY DEF SearchMember
<1>3. PICK new \in UpTo(maxGroups - Len(facts), found \ Seen) :
         \E t \in SetToSeqs(new) : Advance(t, next \o t)
    BY <1>2
<1>4. PICK taken \in SetToSeqs(new) : Advance(taken, next \o taken)
    BY <1>3
<1> DEFINE x == Head(frontier)
           queue == next \o taken
           level == Tail(frontier) = <<>>
           full == Len(facts) + Len(taken) >= maxGroups
           over == full \/ (level /\ (queue = <<>> \/ depth = maxDepth))
<1>5. /\ x \in Groups \union {User} /\ memberOf[x] \in SUBSET Groups
      /\ taken \in Seq(Groups) /\ Len(facts) + Len(taken) <= maxGroups
      /\ \A i, j \in 1 .. Len(taken) : taken[i] = taken[j] => i = j
      /\ \A g : g \in new <=> \E i \in 1 .. Len(taken) : g = taken[i]
      /\ \A g \in new : /\ g \notin Seen /\ g \in memberOf[x]
                        /\ g \in Closure(User) /\ AtDistance(g, depth)
      /\ Len(facts) + Len(taken) < maxGroups => memberOf[x] \subseteq Seen \union new
    BY <1>1, SearchFinds
<1>6. /\ facts \in Seq(Fact) /\ Len(facts) \in Nat /\ Len(taken) \in Nat
      /\ depth \in Nat /\ 1 <= depth /\ depth <= maxDepth /\ maxDepth \in Nat
      /\ maxGroups \in Nat /\ maxGroups >= 1 /\ maxDepth >= 1 /\ next \in Seq(Groups)
      /\ frontier \in Seq(Groups \union {User}) /\ frontier # <<>>
    BY <1>1, <1>5 DEF GroupTyped, Queued
<1>7. /\ facts' = facts \o FactsAt(taken, depth)
      /\ frontier' = IF level THEN queue ELSE Tail(frontier)
      /\ next' = IF level THEN <<>> ELSE queue
      /\ depth' = IF level /\ ~ over THEN depth + 1 ELSE depth
      /\ status' = IF over THEN "complete" ELSE "searching"
      /\ memberOf' = memberOf /\ strategy' = strategy
      /\ maxDepth' = maxDepth /\ maxGroups' = maxGroups
  <2>1. Len(facts \o taken) = Len(facts) + Len(taken)
    <3>1. facts \in Seq(Fact \union Groups) /\ taken \in Seq(Fact \union Groups)
        BY <1>5, <1>6, SeqMonotonic
    <3> QED
        BY <3>1, ConcatProperties
  <2> QED
      BY <1>4, <2>1 DEF Advance, setting
<1>8. /\ facts' \in Seq(Fact) /\ Len(facts') = Len(facts) + Len(taken)
      /\ \A i \in 1 .. Len(facts) : facts'[i] = facts[i]
      /\ \A i \in 1 .. Len(taken) : /\ facts'[Len(facts) + i].dn = taken[i]
                                    /\ facts'[Len(facts) + i].depth = depth
      /\ \A i \in 1 .. Len(facts') :
            i \in 1 .. Len(facts) \/ \E j \in 1 .. Len(taken) : i = Len(facts) + j
      /\ \A y : y \in Seen' <=> y \in Seen \/ \E i \in 1 .. Len(taken) : y = taken[i]
    BY <1>5, <1>6, <1>7, ReportMore
<1>9. \A y : y \in Seen' <=> y \in Seen \/ y \in new
    BY <1>5, <1>8
<1>10. /\ queue \in Seq(Groups)
       /\ \A i \in 1 .. Len(queue) :
             (\E j \in 1 .. Len(next) : queue[i] = next[j]) \/ queue[i] \in new
       /\ \A j \in 1 .. Len(next) : \E i \in 1 .. Len(queue) : queue[i] = next[j]
       /\ \A g \in new : \E i \in 1 .. Len(queue) : queue[i] = g
  <2>1. /\ queue \in Seq(Groups) /\ Len(queue) = Len(next) + Len(taken)
        /\ \A i \in 1 .. Len(next) : queue[i] = next[i]
        /\ \A i \in 1 .. Len(taken) : queue[Len(next) + i] = taken[i]
        /\ \A i \in 1 .. Len(next) + Len(taken) :
              i \in 1 .. Len(next) \/ \E j \in 1 .. Len(taken) : i = Len(next) + j
    <3>1. queue \in Seq(Groups) /\ Len(queue) = Len(next) + Len(taken)
        BY <1>5, <1>6, Joined
    <3>2. \A i \in 1 .. Len(next) : queue[i] = next[i]
        BY <1>5, <1>6, Joined
    <3>3. \A i \in 1 .. Len(taken) : queue[Len(next) + i] = taken[i]
        BY <1>5, <1>6, Joined
    <3>4. \A i \in 1 .. Len(next) + Len(taken) :
             i \in 1 .. Len(next) \/ \E j \in 1 .. Len(taken) : i = Len(next) + j
        BY <1>5, <1>6, Joined
    <3> QED
        BY <3>1, <3>2, <3>3, <3>4
  <2>2. Len(next) \in Nat
      BY <1>6
  <2>3. ASSUME NEW i \in 1 .. Len(queue)
        PROVE  (\E j \in 1 .. Len(next) : queue[i] = next[j]) \/ queue[i] \in new
    <3>1. CASE i \in 1 .. Len(next)
        BY <2>1, <3>1
    <3>2. CASE \E j \in 1 .. Len(taken) : i = Len(next) + j
        BY <1>5, <2>1, <3>2
    <3> QED
        BY <2>1, <3>1, <3>2
  <2>4. ASSUME NEW j \in 1 .. Len(next) PROVE \E i \in 1 .. Len(queue) : queue[i] = next[j]
    <3>1. j \in 1 .. Len(queue)
        BY <1>6, <2>1, <2>2
    <3> QED
        BY <2>1, <3>1
  <2>5. ASSUME NEW g \in new PROVE \E i \in 1 .. Len(queue) : queue[i] = g
    <3>1. PICK j \in 1 .. Len(taken) : g = taken[j]
        BY <1>5
    <3>2. Len(next) + j \in 1 .. Len(queue)
        BY <1>6, <2>1, <2>2
    <3> QED
        BY <2>1, <3>1, <3>2
  <2> QED
      BY <2>1, <2>3, <2>4, <2>5
<1>11. GroupTyped'
  <2>1. frontier' \in Seq(Groups \union {User})
    <3>1. queue \in Seq(Groups \union {User})
        BY <1>10, SeqMonotonic
    <3>2. Tail(frontier) \in Seq(Groups \union {User})
        BY <1>6, FirstAndRest
    <3> QED
        BY <1>7, <3>1, <3>2
  <2>2. next' \in Seq(Groups)
      BY <1>7, <1>10, EmptySeq
  <2>3. depth' \in Nat /\ 1 <= depth' /\ depth' <= maxDepth
      BY <1>6, <1>7
  <2>4. MembersTyped'
      BY <1>1, <1>7 DEF GroupTyped, MembersTyped
  <2> QED
      BY <1>6, <1>7, <1>8, <2>1, <2>2, <2>3, <2>4 DEF GroupTyped
<1>12. Reported'
  <2>1. ASSUME NEW i \in 1 .. Len(facts')
        PROVE  /\ facts'[i].dn \in Closure(User)
               /\ 1 <= facts'[i].depth /\ facts'[i].depth <= depth
    <3>1. CASE i \in 1 .. Len(facts)
        BY <1>1, <1>8, <3>1 DEF Reported
    <3>2. CASE \E j \in 1 .. Len(taken) : i = Len(facts) + j
        BY <1>5, <1>6, <1>8, <3>2
    <3> QED
        BY <1>8, <3>1, <3>2
  <2>2. ASSUME NEW i \in 1 .. Len(facts'), NEW j \in 1 .. Len(facts'),
               facts'[i].dn = facts'[j].dn
        PROVE  i = j
    <3>1. \A k \in 1 .. Len(facts) : facts'[k].dn \in Seen
        BY <1>6, <1>8, SeenFact
    <3>2. \A k \in 1 .. Len(taken) : facts'[Len(facts) + k].dn \notin Seen
        BY <1>5, <1>8
    <3>3. CASE i \in 1 .. Len(facts) /\ j \in 1 .. Len(facts)
        BY <1>1, <1>8, <2>2, <3>3 DEF Reported
    <3>4. CASE /\ \E k \in 1 .. Len(taken) : i = Len(facts) + k
               /\ \E k \in 1 .. Len(taken) : j = Len(facts) + k
        BY <1>5, <1>8, <2>2, <3>4
    <3>5. \A k \in 1 .. Len(facts') : k \in 1 .. Len(facts) <=> facts'[k].dn \in Seen
      <4>1. ASSUME NEW k \in 1 .. Len(facts'), k \notin 1 .. Len(facts)
            PROVE  facts'[k].dn \notin Seen
          BY <1>8, <3>2, <4>1
      <4> QED
          BY <3>1, <4>1
    <3>6. i \in 1 .. Len(facts) <=> j \in 1 .. Len(facts)
        BY <2>2, <3>5
    <3> QED
        BY <1>8, <3>3, <3>4, <3>6
  <2>3. depth \in Nat /\ depth' \in Nat /\ depth <= depth'
      BY <1>6, <1>7
  <2>4. \A i \in 1 .. Len(facts') : facts'[i].depth \in Nat
    <3>1. \A i \in 1 .. Len(facts') : facts'[i] \in Fact
        BY <1>8, ElementOfSeq
    <3> QED
        BY <3>1 DEF Fact
  <2>5. \A i \in 1 .. Len(facts') : 1 <= facts'[i].depth /\ facts'[i].depth <= depth'
      BY <2>1, <2>3, <2>4
  <2>6. Len(facts') <= maxGroups'
      BY <1>5, <1>7, <1>8
  <2> QED
      BY <1>7, <2>1, <2>2, <2>5, <2>6, SameMembers DEF Reported
<1>13. ASSUME NEW i \in 1 .. Len(facts') PROVE AtDistance(facts'[i].dn, facts'[i].depth)
  <2>1. CASE i \in 1 .. Len(facts)
      BY <1>1, <1>8, <2>1 DEF LevelsComplete
  <2>2. CASE \E j \in 1 .. Len(taken) : i = Len(facts) + j
      BY <1>5, <1>8, <2>2
  <2> QED
      BY <1>8, <2>1, <2>2
<1>14. ASSUME level, ~ full PROVE ReachedIn(depth) \subseteq Seen'
  <2>1. Seen \subseteq Seen' /\ memberOf[x] \subseteq Seen'
      BY <1>5, <1>6, <1>9, <1>14
  <2> QED
      BY <1>1, <1>14, <2>1, LevelEnds DEF GroupInv
<1>15. ASSUME NEW n \in Nat, 1 <= n, n < depth' PROVE ReachedIn(n) \subseteq Seen'
  <2>1. CASE n < depth
      BY <1>1, <1>9, <1>15, <2>1 DEF LevelsComplete
  <2>2. CASE ~ (n < depth)
      BY <1>6, <1>7, <1>14, <1>15, <2>2
  <2> QED
      BY <2>1, <2>2
<1>16. ASSUME NEW y \in Seen \union {User}, ~ full
       PROVE  \/ \E i \in 1 .. Len(Tail(frontier)) : y = Tail(frontier)[i]
              \/ \E i \in 1 .. Len(queue) : y = queue[i]
              \/ memberOf[y] \subseteq Seen'
  <2>1. CASE \E i \in 1 .. Len(frontier) : y = frontier[i]
    <3>1. PICK i \in 1 .. Len(frontier) : y = frontier[i]
        BY <2>1
    <3>2. CASE i = 1
        BY <1>5, <1>6, <1>9, <1>16, <3>1, <3>2, FirstAndRest
    <3>3. CASE i # 1
        BY <1>6, <3>1, <3>3, FirstAndRest
    <3> QED
        BY <3>2, <3>3
  <2>2. CASE \E i \in 1 .. Len(next) : y = next[i]
      BY <1>10, <2>2
  <2>3. CASE memberOf[y] \subseteq Seen
      BY <1>9, <2>3
  <2> QED
      BY <1>1, <2>1, <2>2, <2>3 DEF Queued
<1>17. ASSUME ~ over PROVE Queued'
  <2>1. Len(facts') < maxGroups'
      BY <1>6, <1>7, <1>8, <1>17
  <2>2. frontier' # <<>>
      BY <1>7, <1>17
  <2>3. \A i \in 1 .. Len(queue) : queue[i] \in Seen' /\ AtDistance(queue[i], depth)
      BY <1>1, <1>5, <1>9, <1>10 DEF Queued
  <2>4. ASSUME NEW i \in 1 .. Len(frontier')
        PROVE  frontier'[i] \in Level(depth' - 1) /\ frontier'[i] \in Seen' \union {User}
    <3>1. CASE level
      <4>1. depth' - 1 = depth /\ depth # 0 /\ frontier' = queue
          BY <1>6, <1>7, <1>17, <3>1
      <4> QED
          BY <2>3, <2>4, <4>1 DEF Level, AtDistance
    <3>2. CASE ~ level
      <4>1. depth' = depth /\ frontier' = Tail(frontier)
          BY <1>7, <3>2
      <4>2. i + 1 \in 1 .. Len(frontier) /\ frontier'[i] = frontier[i + 1]
          BY <1>6, <2>4, <4>1, FirstAndRest
      <4> QED
          BY <1>1, <1>9, <4>1, <4>2 DEF Queued
    <3> QED
        BY <3>1, <3>2
  <2>5. ASSUME NEW i \in 1 .. Len(next')
        PROVE  next'[i] \in Seen' /\ AtDistance(next'[i], depth')
    <3>1. CASE level
      <4>1. Len(next') = 0
          BY <1>7, <3>1, EmptySeq
      <4> QED
          BY <2>5, <4>1
    <3>2. CASE ~ level
        BY <1>7, <2>3, <2>5, <3>2
    <3> QED
        BY <3>1, <3>2
  <2>6. ASSUME NEW y \in Seen' \union {User}
        PROVE  \/ \E i \in 1 .. Len(frontier') : y = frontier'[i]
               \/ \E i \in 1 .. Len(next') : y = next'[i]
               \/ memberOf[y] \subseteq Seen'
    <3>1. \/ \E i \in 1 .. Len(Tail(frontier)) : y = Tail(frontier)[i]
          \/ \E i \in 1 .. Len(queue) : y = queue[i]
          \/ memberOf[y] \subseteq Seen'
        BY <1>9, <1>10, <1>16, <1>17, <2>6
    <3>2. CASE level
      <4>1. Len(Tail(frontier)) = 0 /\ frontier' = queue
          BY <1>7, <3>2, EmptySeq
      <4> QED
          BY <3>1, <4>1
    <3>3. CASE ~ level
        BY <1>7, <3>1, <3>3
    <3> QED
        BY <3>2, <3>3
  <2> QED
      BY <1>7, <2>1, <2>2, <2>4, <2>5, <2>6, SameMembers DEF Queued
<1>18. ASSUME over, Len(facts') < maxGroups, NEW n \in Nat, 1 <= n, n <= maxDepth
       PROVE  ReachedIn(n) \subseteq Seen'
  <2>1. ~ full /\ level /\ (queue = <<>> \/ depth = maxDepth)
      BY <1>6, <1>8, <1>18
  <2>2. CASE depth = maxDepth
    <3>1. n = depth \/ n < depth'
        BY <1>6, <1>7, <1>18, <2>1, <2>2
    <3> QED
        BY <1>14, <1>15, <1>18, <2>1, <3>1
  <2>3. CASE queue = <<>>
    <3>1. Len(queue) = 0 /\ Len(Tail(frontier)) = 0
        BY <2>1, <2>3, EmptySeq
    <3>2. \A y \in Seen \union {User} : memberOf[y] \subseteq Seen'
        BY <1>16, <2>1, <3>1
    <3>3. \A g : g \notin new
        BY <1>10, <3>1
    <3>4. \A y \in Seen' : memberOf[y] \subseteq Seen'
        BY <1>9, <3>2, <3>3
    <3> QED
        BY <1>1, <1>18, <3>2, <3>4, ReachedWithin DEF GroupTyped
  <2> QED
      BY <2>1, <2>2, <2>3
<1>19. LevelsComplete'
    BY <1>7, <1>13, <1>15, <1>17, <1>18, SameMembers DEF LevelsComplete
<1> QED
    BY <1>11, <1>12, <1>19 DEF GroupInv

\* The strategies that make one search report it as it comes.
LEMMA ReportAll ==
    ASSUME GroupInv, strategy # "bfs_member_search", NEW S \in SUBSET Closure(User),
           IsFiniteSet(S), NEW dns \in SetToSeqs(S), facts' = FactsAt(dns, 1),
           strategy # "member_attribute_only" => Cardinality(S) <= maxGroups,
           UNCHANGED <<setting, depth, frontier, next>>
    PROVE  GroupInv'
<1>1. /\ dns \in Seq(S) /\ Len(dns) = Cardinality(S) /\ Len(dns) \in Nat
      /\ \A i, j \in 1 .. Len(dns) : dns[i] = dns[j] => i = j
    BY Arrangement
<1>2. S \in SUBSET Groups
    BY ClosureGrows DEF GroupInv, GroupTyped
<1>3. dns \in Seq(Groups)
    BY <1>1, <1>2, SeqMonotonic
<1>4. /\ facts' \in Seq(Fact) /\ Len(facts') = Len(dns)
      /\ \A i \in 1 .. Len(dns) : facts'[i].dn = dns[i] /\ facts'[i].depth = 1
    BY <1>3, FactsOf
<1>5. \A i \in 1 .. Len(dns) : dns[i] \in Closure(User)
    BY <1>1, ElementOfSeq
<1>6. /\ memberOf' = memberOf /\ strategy' = strategy /\ maxDepth' = maxDepth
      /\ maxGroups' = maxGroups /\ depth' = depth /\ frontier' = frontier /\ next' = next
    BY DEF setting
<1>7. GroupTyped'
    BY <1>4, <1>6 DEF GroupInv, GroupTyped, MembersTyped
<1>8. Reported'
  <2>1. \A i \in 1 .. Len(facts') : /\ facts'[i].dn \in Closure(User)
                                    /\ 1 <= facts'[i].depth /\ facts'[i].depth <= depth'
      BY <1>4, <1>5, <1>6 DEF GroupInv, GroupTyped
  <2>2. \A i, j \in 1 .. Len(facts') : facts'[i].dn = facts'[j].dn => i = j
      BY <1>1, <1>4
  <2>3. strategy' # "member_attribute_only" => Len(facts') <= maxGroups'
      BY <1>1, <1>4, <1>6
  <2> QED
      BY <1>6, <2>1, <2>2, <2>3, SameMembers DEF Reported
<1> QED
    BY <1>6, <1>7, <1>8 DEF GroupInv

LEMMA ClosureFinite ==
    ASSUME GroupInv
    PROVE  /\ IsFiniteSet(Closure(User)) /\ IsFiniteSet(memberOf[User])
           /\ memberOf[User] \in SUBSET Closure(User)
<1>1. /\ memberOf[User] \in SUBSET Closure(User) /\ Closure(User) \in SUBSET Groups
    BY ClosureGrows DEF GroupInv, GroupTyped
<1> QED
    BY <1>1, GroupAssumption, FS_Subset

LEMMA GroupInvNext == GroupInv /\ [Next]_vars => GroupInv'
<1> SUFFICES ASSUME GroupInv, [Next]_vars PROVE GroupInv'
    OBVIOUS
<1>1. CASE ReadAttribute
  <2>1. PICK dns \in SetToSeqs(memberOf[User]) : facts' = FactsAt(dns, 1)
      BY <1>1 DEF ReadAttribute
  <2>2. strategy = "member_attribute_only" /\ UNCHANGED <<setting, depth, frontier, next>>
      BY <1>1 DEF ReadAttribute, Finish
  <2> QED
      BY <2>1, <2>2, ClosureFinite, ReportAll
<1>2. CASE SearchByRule
  <2>1. PICK found \in Answers(Closure(User)) :
           \E dns \in SetToSeqs(found) : facts' = FactsAt(dns, 1)
      BY <1>2 DEF SearchByRule
  <2>2. PICK dns \in SetToSeqs(found) : facts' = FactsAt(dns, 1)
      BY <2>1
  <2>3. strategy = "ad_matching_rule" /\ UNCHANGED <<setting, depth, frontier, next>>
      BY <1>2 DEF SearchByRule, Finish
  <2>4. /\ found \in SUBSET Closure(User) /\ IsFiniteSet(found)
        /\ Cardinality(found) <= maxGroups
    <3>1. found \in UpTo(maxGroups, Closure(User)) /\ maxGroups \in Nat
        BY <2>1 DEF Answers, GroupInv, GroupTyped
    <3> QED
        BY <3>1, ClosureFinite, UpToFits
  <2> QED
      BY <2>2, <2>3, <2>4, ReportAll
<1>3. ASSUME UNCHANGED <<setting, depth, frontier, next, facts>>,
             \/ strategy # "bfs_member_search" \/ status' = "failed" \/ status' = status
      PROVE  GroupInv'
  <2>1. /\ memberOf' = memberOf /\ strategy' = strategy /\ maxDepth' = maxDepth
        /\ maxGroups' = maxGroups
      BY <1>3 DEF setting
  <2>2. GroupTyped'
      BY <1>3, <2>1 DEF GroupInv, GroupTyped, MembersTyped
  <2>3. Reported'
      BY <1>3, <2>1, SameMembers DEF GroupInv, Reported
  <2>4. Seen' = Seen
      BY <1>3 DEF Seen
  <2>5. ASSUME strategy = "bfs_member_search" PROVE LevelsComplete'
    <3>1. LevelsComplete
        BY <2>5 DEF GroupInv
    <3>2. Queued => Queued'
        BY <1>3, <2>1, <2>4, SameMembers DEF Queued
    <3> QED
        BY <1>3, <2>1, <2>4, <2>5, <3>1, <3>2, SameMembers DEF LevelsComplete
  <2> QED
      BY <2>1, <2>2, <2>3, <2>5 DEF GroupInv
<1>4. CASE NotRequested
    BY <1>3, <1>4 DEF NotRequested, Finish
<1>5. CASE SearchFails
    BY <1>3, <1>5 DEF SearchFails, Finish
<1>6. CASE UNCHANGED vars
    BY <1>3, <1>6 DEF vars
<1> QED
    BY <1>1, <1>2, <1>4, <1>5, <1>6, SearchMemberInv DEF Next, Returned

LEMMA GroupInvInit == Init => GroupInv
<1> SUFFICES ASSUME Init PROVE GroupInv
    OBVIOUS
<1>1. facts = <<>> /\ Len(facts) = 0 /\ facts \in Seq(Fact) /\ Seen = {}
    BY EmptySeq DEF Init, Seen
<1>2. frontier = <<User>> /\ Len(frontier) = 1 /\ frontier[1] = User /\ frontier # <<>>
      /\ frontier \in Seq(Groups \union {User})
    BY DEF Init
<1>3. next = <<>> /\ Len(next) = 0 /\ next \in Seq(Groups)
    BY EmptySeq DEF Init
<1>4. GroupTyped
  <2>1. MembersTyped
      BY GroupAssumption DEF Init, MembersTyped
  <2>2. /\ maxDepth \in Nat /\ maxDepth >= 1 /\ maxGroups \in Nat /\ maxGroups >= 1
        /\ depth = 1
      BY GroupAssumption DEF Init
  <2> QED
      BY <1>1, <1>2, <1>3, <2>1, <2>2 DEF GroupTyped
<1>5. Reported
    BY <1>1, <1>4 DEF Reported, GroupTyped
<1>6. Queued
    BY <1>1, <1>2, <1>3, <1>4 DEF Queued, Init, Level, GroupTyped
<1>7. LevelsComplete
    BY <1>1, <1>6 DEF LevelsComplete, Init
<1> QED
    BY <1>4, <1>5, <1>7 DEF GroupInv

LEMMA SpecGroupInv == Spec => []GroupInv
BY GroupInvInit, GroupInvNext, PTL DEF Spec

-----------------------------------------------------------------------------
(* The theorems *)

LEMMA FactsDomain == ASSUME GroupInv PROVE DOMAIN facts = 1 .. Len(facts)
BY DEF GroupInv, GroupTyped

\* Whatever groupFacts reports, and however early a search failed, is a group of the
\* user, reported once, and the depth that bfsGroupFacts gives is its distance: for
\* every membership relation, cyclic or not, and all limits.
THEOREM FactsCorrectAlways == Spec => []FactsCorrect
<1>1. GroupInv => FactsCorrect
    BY FactsDomain DEF FactsCorrect, GroupInv, Reported, LevelsComplete
<1> QED
    BY <1>1, SpecGroupInv, PTL

\* bfsGroupFacts loses only the farthest groups, also where a server ignores the size
\* limit and its answer is cut, and it loses none within the depth limit unless a
\* search fails or the number limit is met.
THEOREM NearestFirstAlways == Spec => []NearestFirst
<1>1. GroupInv => NearestFirst
  <2> SUFFICES ASSUME GroupInv, strategy = "bfs_member_search",
                      NEW g \in Groups, NEW n \in 1 .. maxDepth, AtDistance(g, n),
                      \/ \E i \in DOMAIN facts : facts[i].depth > n
                      \/ status = "complete" /\ Len(facts) < maxGroups
               PROVE  g \in Seen
      BY DEF NearestFirst
  <2>1. g \in ReachedIn(n) /\ n \in Nat /\ 1 <= n /\ n <= maxDepth
      BY DEF AtDistance, GroupInv, GroupTyped
  <2>2. ASSUME NEW i \in DOMAIN facts, facts[i].depth > n PROVE n < depth
    <3>1. i \in 1 .. Len(facts) /\ facts[i].depth \in Nat /\ depth \in Nat
      <4>1. i \in 1 .. Len(facts) /\ facts \in Seq(Fact) /\ depth \in Nat
          BY <2>2, FactsDomain DEF GroupInv, GroupTyped
      <4>2. facts[i] \in Fact
          BY <4>1, ElementOfSeq
      <4> QED
          BY <4>1, <4>2 DEF Fact
    <3>2. facts[i].depth <= depth
        BY <3>1 DEF GroupInv, Reported
    <3> QED
        BY <2>1, <2>2, <3>1, <3>2
  <2> QED
      BY <2>1, <2>2 DEF GroupInv, LevelsComplete
<1> QED
    BY <1>1, SpecGroupInv, PTL

\* The searching strategies never report more than max_groups groups, nor a group
\* deeper than max_depth.
THEOREM WithinLimitsAlways == Spec => []WithinLimits
<1>1. GroupInv => WithinLimits
  <2> SUFFICES ASSUME GroupInv, NEW i \in DOMAIN facts PROVE facts[i].depth <= maxDepth
      BY DEF WithinLimits, GroupInv, Reported
  <2>1. i \in 1 .. Len(facts) /\ facts \in Seq(Fact)
        /\ depth \in Nat /\ maxDepth \in Nat /\ depth <= maxDepth
      BY FactsDomain DEF GroupInv, GroupTyped
  <2>2. facts[i] \in Fact
      BY <2>1, ElementOfSeq
  <2>3. facts[i].depth \in Nat /\ facts[i].depth <= depth
      BY <2>1, <2>2 DEF Fact, GroupInv, Reported
  <2> QED
      BY <2>1, <2>3
<1> QED
    BY <1>1, SpecGroupInv, PTL

-----------------------------------------------------------------------------

\* A member searched for leaves the queues, and a group enters them when it is
\* reported: every search uses up one of the searches left.
LEMMA SearchSpends ==
    ASSUME GroupInv, SearchMember PROVE Budget > 1 /\ Budget' = Budget - 1
<1>1. /\ LevelsComplete /\ Queued /\ GroupTyped
    BY DEF GroupInv, LevelsComplete, SearchMember
<1>2. PICK found \in Answers(memberOf[Head(frontier)]) :
         \E n \in UpTo(maxGroups - Len(facts), found \ Seen) :
            \E t \in SetToSeqs(n) : Advance(t, next \o t)
    BY DEF SearchMember
<1>3. PICK new \in UpTo(maxGroups - Len(facts), found \ Seen) :
         \E t \in SetToSeqs(new) : Advance(t, next \o t)
    BY <1>2
<1>4. PICK taken \in SetToSeqs(new) : Advance(taken, next \o taken)
    BY <1>3
<1>5. taken \in Seq(Groups) /\ Len(taken) \in Nat
    BY <1>1, SearchFinds
<1>6. /\ facts \in Seq(Fact) /\ Len(facts) \in Nat /\ Len(facts) < maxGroups
      /\ maxGroups \in Nat /\ depth \in Nat /\ next \in Seq(Groups) /\ Len(next) \in Nat
      /\ frontier \in Seq(Groups \union {User}) /\ frontier # <<>>
    BY <1>1 DEF GroupTyped, Queued
<1>7. Len(facts') = Len(facts) + Len(taken) /\ maxGroups' = maxGroups
    BY <1>4, <1>5, <1>6, ReportMore DEF Advance, setting
<1>8. Len(next \o taken) = Len(next) + Len(taken)
    BY <1>5, <1>6, Joined
<1>9. /\ Len(frontier) \in Nat /\ Len(frontier) >= 1
      /\ Len(Tail(frontier)) = Len(frontier) - 1
      /\ Tail(frontier) = <<>> => Len(frontier) = 1
    BY <1>6, FirstAndRest, HeadTailProperties
<1>10. /\ Len(frontier') \in Nat /\ Len(next') \in Nat
       /\ Len(frontier') + Len(next') = Len(frontier) + Len(next) + Len(taken) - 1
  <2>1. CASE Tail(frontier) = <<>>
    <3>1. frontier' = next \o taken /\ next' = <<>> /\ Len(<<>>) = 0
        BY <1>4, <2>1, EmptySeq DEF Advance
    <3>2. Len(frontier') = Len(next) + Len(taken) /\ Len(next') = 0
        BY <1>8, <3>1
    <3> QED
        BY <1>5, <1>6, <1>9, <2>1, <3>2
  <2>2. CASE Tail(frontier) # <<>>
    <3>1. frontier' = Tail(frontier) /\ next' = next \o taken
        BY <1>4, <2>2 DEF Advance
    <3>2. Len(frontier') = Len(frontier) - 1 /\ Len(next') = Len(next) + Len(taken)
        BY <1>8, <1>9, <3>1
    <3> QED
        BY <1>5, <1>6, <1>9, <3>2
  <2> QED
      BY <2>1, <2>2
<1>11. PICK a \in Nat, b \in Nat, f \in Nat, t \in Nat, c \in Nat, d \in Nat :
          /\ a = Len(frontier) /\ b = Len(next) /\ f = Len(facts) /\ t = Len(taken)
          /\ c = Len(frontier') /\ d = Len(next')
    BY <1>5, <1>6, <1>9, <1>10
<1>12. /\ a >= 1 /\ f < maxGroups /\ maxGroups \in Nat
       /\ c + d = a + b + t - 1
    BY <1>6, <1>9, <1>10, <1>11
<1>13. /\ Budget = a + b + (maxGroups - f)
       /\ Budget' = c + d + (maxGroups - (f + t))
    BY <1>7, <1>11 DEF Budget
<1>14. Budget > 1
    BY <1>12, <1>13
<1>15. Budget' = Budget - 1
    BY <1>12, <1>13
<1> QED
    BY <1>14, <1>15

\* The searches a breadth-first lookup may still make never exceed max_groups.
WithinBudget == strategy = "bfs_member_search" => Budget <= 1 + maxGroups

LEMMA BudgetNext == GroupInv /\ WithinBudget /\ [Next]_vars => WithinBudget'
<1> SUFFICES ASSUME GroupInv, WithinBudget, [Next]_vars, strategy' = "bfs_member_search"
             PROVE  Budget' <= 1 + maxGroups'
    BY DEF WithinBudget
<1>1. strategy = "bfs_member_search" /\ maxGroups' = maxGroups
    BY DEF Next, NotRequested, ReadAttribute, SearchByRule, SearchFails, Finish,
           SearchMember, Advance, Returned, vars, setting
<1>2. Budget \in Int /\ maxGroups \in Nat
    BY DEF Budget, GroupInv, GroupTyped
<1>3. CASE SearchMember
    BY <1>1, <1>2, <1>3, SearchSpends DEF WithinBudget
<1>4. CASE UNCHANGED <<frontier, next, facts>>
    BY <1>1, <1>4 DEF Budget, WithinBudget
<1> QED
    BY <1>1, <1>3, <1>4 DEF Next, NotRequested, ReadAttribute, SearchByRule, SearchFails,
           Finish, Returned, vars

\* bfsGroupFacts makes at most max_groups searches, on every membership relation: the
\* part of its termination that needs no fairness.
THEOREM SearchesBoundedAlways == Spec => SearchesBounded
<1>1. Init => WithinBudget
  <2> SUFFICES ASSUME Init PROVE Budget <= 1 + maxGroups
      BY DEF WithinBudget
  <2>1. Len(frontier) = 1 /\ Len(next) = 0 /\ Len(facts) = 0 /\ maxGroups \in Nat
      BY GroupAssumption DEF Init
  <2> QED
      BY <2>1 DEF Budget
<1>2. Spec => []WithinBudget
    BY <1>1, BudgetNext, SpecGroupInv, PTL DEF Spec
<1> DEFINE Spent ==
        SearchMember => Budget > 1 /\ Budget' = Budget - 1 /\ Budget <= 1 + maxGroups
<1>3. GroupInv /\ WithinBudget => Spent
    BY SearchSpends DEF WithinBudget, SearchMember
<1>4. GroupInv /\ WithinBudget /\ [Next]_vars => [Spent]_vars
    BY <1>3
<1> QED
    BY <1>2, <1>4, SpecGroupInv, PTL DEF Spec, SearchesBounded
=============================================================================

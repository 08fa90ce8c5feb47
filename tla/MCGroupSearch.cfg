\* All relations, cyclic or not, with limits that bind and limits that do not.
SPECIFICATION FairSpec
CONSTANTS
    User = u
    Groups = {g1, g2, g3}
    Memberships <- AllMemberships
    Strategies = {"none", "member_attribute_only", "ad_matching_rule", "bfs_member_search"}
    DepthLimits = {1, 2, 3}
    NumberLimits = {1, 2, 4}
INVARIANTS
    FactsCorrect
    NearestFirst
    WithinLimits
PROPERTIES
    SearchesBounded
    Terminates

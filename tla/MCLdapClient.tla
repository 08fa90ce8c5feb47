---------------------------- MODULE MCLdapClient ----------------------------
(***************************************************************************)
(* Small instances of LdapClient.                                          *)
(***************************************************************************)
EXTENDS LdapClient, TLC

CONSTANTS e1, e2, e3, e4

AllEntries == {e1, e2, e3, e4}

(* ada is a normal account; bob's account is disabled; eve's name finds two entries; *)
(* sam's finds three; far's entry lies behind a referral; nil is not in the directory. *)
AllUsers == {"ada", "bob", "eve", "sam", "far", "nil"}

MCMatching == [u \in AllUsers |->
    CASE u = "ada" -> {e1}
      [] u = "bob" -> {e2}
      [] u = "eve" -> {e1, e3}
      [] u = "sam" -> {e1, e2, e3}
      [] OTHER     -> {}]

MCReferred == [u \in AllUsers |-> IF u = "far" THEN {e4} ELSE {}]

MCNamed == [u \in AllUsers |->
    CASE u = "ada" -> e1
      [] u = "bob" -> e2
      [] u = "eve" -> e3
      [] u = "far" -> e4
      [] OTHER     -> NoEntry]

MCPassword == [e \in AllEntries |-> IF e = e1 THEN "p1" ELSE "p2"]

MCStatus == [e \in AllEntries |-> IF e = e2 THEN "account_disabled" ELSE "ok"]

Verify(u, password, attributes) ==
    [test |-> FALSE, user |-> u, password |-> password, bind |-> TRUE,
     attributes |-> attributes]

Test(u, password, bind) ==
    [test |-> TRUE, user |-> u, password |-> password, bind |-> bind,
     attributes |-> FALSE]

Config(mode, serviceSearch, subjectAttribute, followReferrals, adStatus) ==
    [mode |-> mode, serviceSearch |-> serviceSearch, subjectAttribute |-> subjectAttribute,
     followReferrals |-> followReferrals, adStatus |-> adStatus]

PoolRequests == {Verify("ada", "p1", TRUE), Verify("ada", "p2", TRUE)}

PoolConfigs ==
    {Config(mode, TRUE, FALSE, TRUE, TRUE) : mode \in Modes}

VerdictRequests ==
    {Verify(u, password, attributes) :
        u \in AllUsers \union {"?"}, password \in {"", "p1", "p2"}, attributes \in BOOLEAN}
    \union {Test(u, password, TRUE) :
        u \in AllUsers \union {"?"}, password \in {"", "p1", "p2"}}
    \union {Test(u, "", FALSE) : u \in AllUsers \union {"", "?"}}

VerdictConfigs == ConfigType

NormalTest == {Test("ada", "p1", TRUE)}

ProfileConfigs == {Config("search_then_bind", TRUE, TRUE, FALSE, TRUE)}

PoolSymmetry == Permutations(Calls) \union Permutations(Conns)
=============================================================================

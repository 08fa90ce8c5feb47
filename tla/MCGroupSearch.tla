---------------------------- MODULE MCGroupSearch ----------------------------
(* Every membership relation on three groups and a user. *)
EXTENDS GroupSearch

AllMemberships == [Groups \union {User} -> SUBSET Groups]
=============================================================================

------------------------- MODULE MCSpaceGovernance -------------------------
(***************************************************************************)
(* Finite instances of SpaceGovernance for TLC.                            *)
(***************************************************************************)
EXTENDS SpaceGovernance, TLC

CONSTANTS creator, ann, bob, i1

ThreeUsers == {creator, ann, bob}
Guests == Permutations({ann, bob})
OneInvite == {i1}
TwoUses == [r \in Roles |-> IF r = "member" THEN 2 ELSE 1]
TwoRoles == {"owner", "member"}
ThreeRoles == {"owner", "admin", "member"}
=============================================================================

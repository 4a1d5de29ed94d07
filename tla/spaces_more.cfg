\* Types, and below them what the code does not satisfy (README): take the
\* comment off one line at a time.
SPECIFICATION Spec
CONSTANTS
    creator = creator
    ann = ann
    bob = bob
    i1 = i1
    None = None
    Users <- ThreeUsers
    Creator = creator
    Invites <- OneInvite
    Uses <- TwoUses
    Offered <- TwoRoles
    Backend = "memory"
    MaxBusy = 2
    MaxCalls = 3
INVARIANTS
    GovernanceTypeOK
\*  SpaceKeepsOwner
PROPERTIES
    RevocationIsFinal
\*  OwnerIsAskedFirst
CHECK_DEADLOCK FALSE

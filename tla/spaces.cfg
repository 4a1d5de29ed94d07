CONSTANTS
    creator = creator
    ann = ann
    bob = bob
    i1 = i1
    None = None
    Users <- ThreeUsers
    Creator = creator
    Invites <- OneInvite
    Uses <- TwoUses
    Offered <- TwoRoles
    Backend = "firestore"
    MaxBusy = 2
    MaxCalls = 3
SPECIFICATION Spec
SYMMETRY Guests
CHECK_DEADLOCK FALSE
INVARIANTS
    AdmissionsAreBounded
PROPERTIES
    OwnerRemains

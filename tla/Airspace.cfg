SPECIFICATION AirspaceSpec
CONSTANTS
    Key = {g, k1, k2}
    NoOne = none
    ProtocolGovernor = g
CHECK_DEADLOCK FALSE
SYMMETRY MCSymmetry
INVARIANTS ProposalIsCurrent RestrictedPermitsWereGranted

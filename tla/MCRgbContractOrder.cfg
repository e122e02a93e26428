CONSTANTS
    WitnessTx = WitnessTx
    NoTx = NoTx
    FB = FB
    FL = FL
    B1 = B1
    B2 = B2
    L1 = L1
    Types = {1}
    PubTypes = {7}
    Schema <- MCSchema
    Txids = {FB, FL, B1, B2, L1}
    TxLayer <- MCTxLayer
    FundingTxids = {FB, FL}
    Vouts = {0}
    NewAssignments <- MCNewAssignments
    MaxNodes = 3
    MaxAssign = 1
    Timestamps <- MCTimestamps2
SPECIFICATION Spec
INVARIANTS WitnessOrdFollowsSpending

SYMMETRY MCSymmetry

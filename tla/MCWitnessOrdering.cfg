CONSTANTS
    WitnessTx = WitnessTx
    Witnesses <- MCWitnesses
    WidTxids <- MCWidTxids
    Heights <- MCHeights
    Times <- MCTimes
SPECIFICATION Spec
INVARIANTS
    WitnessIdOrderTotal

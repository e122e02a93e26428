-------------------------- MODULE MCWitnessOrdering --------------------------
(***************************************************************************)
(* A small instance of WitnessOrdering: three witnesses, two txids, the    *)
(* heights 0 (the mempool) to 2 and three timestamps around the Bitcoin    *)
(* genesis block, so that a resolver answer can be rejected for its height *)
(* or its time and two accepted positions can share a timestamp.           *)
(***************************************************************************)
EXTENDS WitnessOrdering

MCWitnesses == {1, 2, 3}
MCWidTxids == {1, 2}
MCHeights == {0, 1, 2}
MCTimes == {BitcoinGenesisTimestamp - 1, BitcoinGenesisTimestamp,
            BitcoinGenesisTimestamp + 1}

=============================================================================

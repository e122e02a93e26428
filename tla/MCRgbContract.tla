---------------------------- MODULE MCRgbContract ----------------------------
(* A small instance of RgbContract: one owned-right type, one public-right *)
(* type, a funding transaction and witnesses on each layer-1.             *)
EXTENDS RgbContract, TLC

CONSTANTS FB, FL, B1, B2, L1

MCTxLayer == (FB :> "bitcoin") @@ (B1 :> "bitcoin") @@ (B2 :> "bitcoin")
             @@ (FL :> "liquid") @@ (L1 :> "liquid")

MCSchema == [t \in {1} |-> "Structured"]

\* Revealed states: the schema's strategy, and a mismatching one.
MCStructured == [strat |-> "Structured", proofOk |-> TRUE]
MCDeclarative == [strat |-> "Declarative", proofOk |-> TRUE]

\* New assignments: on the bitcoin funding output, on output 0 of a bitcoin
\* witness, and, of the wrong strategy, on output 0 of a liquid witness.
MCNewAssignments ==
    {[seal |-> XSealWith("bitcoin", FB, 0), sealRev |-> TRUE, state |-> MCStructured, stateRev |-> TRUE],
     [seal |-> XSealWith("bitcoin", WitnessTx, 0), sealRev |-> TRUE, state |-> MCStructured, stateRev |-> TRUE],
     [seal |-> XSealWith("liquid", WitnessTx, 0), sealRev |-> TRUE, state |-> MCDeclarative, stateRev |-> TRUE]}

\* The same without the mismatching one, for the main run, whose
\* properties are about nodes the schema accepts.
MCNewAssignmentsMatching ==
    {[seal |-> XSealWith("bitcoin", FB, 0), sealRev |-> TRUE, state |-> MCStructured, stateRev |-> TRUE],
     [seal |-> XSealWith("bitcoin", WitnessTx, 0), sealRev |-> TRUE, state |-> MCStructured, stateRev |-> TRUE]}

\* The two bitcoin witnesses are interchangeable.
MCSymmetry == Permutations({B1, B2})

\* A valid block timestamp and one below the Bitcoin genesis timestamp (a
\* resolver answer with_mempool_or_height turns into OffChain); and two
\* valid, decreasing timestamps for the run about witness ordering.
MCTimestamps == {1700000000, 0}
MCTimestamps2 == {1700000000, 1699999000}

=============================================================================

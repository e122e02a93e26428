------------------------ MODULE WitnessOrderingProofs ------------------------
(***************************************************************************)
(* Proofs, for every value of the constants, about the orders of          *)
(* src/contract/seal.rs.  Ord for WitnessId is a total order consistent    *)
(* with its derived Eq over the ids held (the law the witness_order run    *)
(* checks); the invariant HeldInv, that every id held is a WitnessId,      *)
(* reduces it to a fact about CmpWitnessId, proved once as a lemma.  Two   *)
(* more theorems state the findings of the ord_eq and decoded_height runs  *)
(* for every instance.                                                     *)
(***************************************************************************)
EXTENDS WitnessOrdering, TLAPS

USE WitnessOrderingAssumption

\* The inductive invariant: every id held is a WitnessId, with an integer
\* txid.
HeldInv == wid \in [Witnesses -> WitnessIds]

-----------------------------------------------------------------------------
(* Lemmas about the comparisons of src/contract/seal.rs *)

\* CmpInt is a three-way comparison: it returns -1, 0 or 1, 0 exactly on
\* equal integers, and swapping its arguments negates it.
LEMMA CmpIntProps ==
    ASSUME NEW a \in Int, NEW b \in Int
    PROVE  /\ CmpInt(a, b) \in {-1, 0, 1}
           /\ CmpInt(a, b) = 0 <=> a = b
           /\ CmpInt(a, b) <= 0 <=> a <= b
BY DEF CmpInt

\* Ord for WitnessId (seal.rs:303-313) on two WitnessIds, case by case.
LEMMA WidLeqCases ==
    ASSUME NEW a \in WitnessIds, NEW b \in WitnessIds
    PROVE  /\ a.layer = b.layer => (WidLeq(a, b) <=> a.txid <= b.txid)
           /\ a.layer = "liquid" /\ b.layer = "bitcoin" => WidLeq(a, b)
           /\ a.layer = "bitcoin" /\ b.layer = "liquid" => ~WidLeq(a, b)
<1>1. a.txid \in Int /\ b.txid \in Int
    BY DEF WitnessIds
<1>2. a.layer \in Layer1 /\ b.layer \in Layer1
    BY DEF WitnessIds
<1>3. CASE a.layer = b.layer
    <2>1. CmpWitnessId(a, b) = CmpInt(a.txid, b.txid)
        BY <1>2, <1>3, Zenon DEF CmpWitnessId, Layer1
    <2>. QED
        BY <1>1, <1>3, <2>1, CmpIntProps DEF WidLeq
<1>4. CASE a.layer = "liquid" /\ b.layer = "bitcoin"
    <2>1. CmpWitnessId(a, b) = -1
        BY <1>4, Zenon DEF CmpWitnessId
    <2>. QED
        BY <1>4, <2>1 DEF WidLeq
<1>5. CASE a.layer = "bitcoin" /\ b.layer = "liquid"
    <2>1. CmpWitnessId(a, b) = 1
        BY <1>5, Zenon DEF CmpWitnessId
    <2>. QED
        BY <1>5, <2>1 DEF WidLeq
<1>. QED
    BY <1>2, <1>3, <1>4, <1>5 DEF Layer1

\* A WitnessId is determined by its layer and its txid (the derived Eq).
LEMMA WidExt ==
    ASSUME NEW a \in WitnessIds, NEW b \in WitnessIds,
           a.layer = b.layer, a.txid = b.txid
    PROVE  a = b
BY DEF WitnessIds

\* Ord for WitnessId (seal.rs:303-313) is a total order on any set of
\* WitnessIds: reflexive, antisymmetric with respect to the derived Eq,
\* transitive and total.
LEMMA WidLeqTotal ==
    ASSUME NEW S \in SUBSET WitnessIds
    PROVE  WidTotalOrder(S)
<1>1. ASSUME NEW a \in S PROVE WidLeq(a, a)
    <2>1. a \in WitnessIds /\ a.txid \in Int
        BY DEF WitnessIds
    <2>. QED
        BY <2>1, WidLeqCases
<1>2. ASSUME NEW a \in S, NEW b \in S, WidLeq(a, b), WidLeq(b, a)
      PROVE  a = b
    <2>1. a.layer \in Layer1 /\ b.layer \in Layer1 /\ a.txid \in Int /\ b.txid \in Int
        BY DEF WitnessIds
    <2>2. a.layer = b.layer
        BY <1>2, <2>1, WidLeqCases DEF Layer1
    <2>3. a.txid = b.txid
        BY <1>2, <2>1, <2>2, WidLeqCases
    <2>. QED
        BY <2>2, <2>3, WidExt
<1>3. ASSUME NEW a \in S, NEW b \in S, NEW c \in S, WidLeq(a, b), WidLeq(b, c)
      PROVE  WidLeq(a, c)
    <2>1. /\ a.layer \in Layer1 /\ b.layer \in Layer1 /\ c.layer \in Layer1
          /\ a.txid \in Int /\ b.txid \in Int /\ c.txid \in Int
        BY DEF WitnessIds
    <2>2. /\ a.layer = b.layer => (WidLeq(a, b) <=> a.txid <= b.txid)
          /\ a.layer = "liquid" /\ b.layer = "bitcoin" => WidLeq(a, b)
          /\ a.layer = "bitcoin" /\ b.layer = "liquid" => ~WidLeq(a, b)
          /\ b.layer = c.layer => (WidLeq(b, c) <=> b.txid <= c.txid)
          /\ b.layer = "liquid" /\ c.layer = "bitcoin" => WidLeq(b, c)
          /\ b.layer = "bitcoin" /\ c.layer = "liquid" => ~WidLeq(b, c)
          /\ a.layer = c.layer => (WidLeq(a, c) <=> a.txid <= c.txid)
          /\ a.layer = "liquid" /\ c.layer = "bitcoin" => WidLeq(a, c)
        BY WidLeqCases
    <2>. QED
        BY <1>3, <2>1, <2>2 DEF Layer1
<1>4. ASSUME NEW a \in S, NEW b \in S PROVE WidLeq(a, b) \/ WidLeq(b, a)
    <2>1. a.layer \in Layer1 /\ b.layer \in Layer1 /\ a.txid \in Int /\ b.txid \in Int
        BY DEF WitnessIds
    <2>. QED
        BY <2>1, WidLeqCases DEF Layer1
<1>. QED
    BY <1>1, <1>2, <1>3, <1>4 DEF WidTotalOrder

-----------------------------------------------------------------------------
(* The inductive invariant and the theorems *)

LEMMA HeldInvInit == Init => HeldInv
BY DEF Init, HeldInv

LEMMA HeldInvStep == HeldInv /\ [Next]_vars => HeldInv'
<1> SUFFICES ASSUME HeldInv, [Next]_vars PROVE HeldInv'
    OBVIOUS
<1>1. ASSUME NEW w \in Witnesses, NEW h \in Heights, NEW t \in Times, Resolve(w, h, t)
      PROVE  HeldInv'
    BY <1>1 DEF Resolve, HeldInv
<1>2. ASSUME NEW w \in Witnesses, NEW o \in DecodableOrds, Decode(w, o)
      PROVE  HeldInv'
    BY <1>2 DEF Decode, HeldInv
<1>3. CASE UNCHANGED vars
    BY <1>3 DEF vars, HeldInv
<1>. QED
    BY <1>1, <1>2, <1>3 DEF Next

\* Ord for WitnessId (seal.rs:303-313) stays a total order, consistent with
\* Eq, over the witness ids a client holds, whatever it resolves or loads.
THEOREM WitnessIdOrderTotalHolds == Spec => []WitnessIdOrderTotal
<1>1. HeldInv => WitnessIdOrderTotal
    <2> SUFFICES ASSUME HeldInv PROVE WitnessIdOrderTotal
        OBVIOUS
    <2>1. HeldIds \in SUBSET WitnessIds
        BY DEF HeldInv, HeldIds
    <2>. QED
        BY <2>1, WidLeqTotal DEF WitnessIdOrderTotal
<1>. QED
    BY <1>1, HeldInvInit, HeldInvStep, PTL DEF Spec

-----------------------------------------------------------------------------
(* The two findings of the violation runs, for every value of the constants *)

\* Ord for WitnessPos (seal.rs:248) ignores the height: two positions mined
\* in the same second at different heights compare Equal in both
\* directions though the derived Eq tells them apart, so WitnessOrd is not
\* antisymmetric (the ord_eq run finds two such positions).
THEOREM WitnessPosCmpIgnoresHeight ==
    ASSUME NEW h1 \in Nat, NEW h2 \in Nat, NEW t \in Int, h1 # h2
    PROVE  /\ OrdLeq(OnChain(h1, t), OnChain(h2, t))
           /\ OrdLeq(OnChain(h2, t), OnChain(h1, t))
           /\ OnChain(h1, t) # OnChain(h2, t)
<1>1. CmpOrd(OnChain(h1, t), OnChain(h2, t)) = CmpInt(t, t)
      /\ CmpOrd(OnChain(h2, t), OnChain(h1, t)) = CmpInt(t, t)
    BY Zenon DEF CmpOrd, CmpPos, OnChain
<1>. QED
    BY <1>1, CmpIntProps DEF OrdLeq, OnChain

\* WitnessOrd::with_mempool_or_height never yields an OnChain position with
\* height 0: only decoding a stored WitnessOrd can, which is why the
\* decoded_height run needs a Decode step to make WitnessPos::height panic.
THEOREM ResolvedHeightNonZero ==
    ASSUME NEW h \in Nat, NEW t \in Int,
           WithMempoolOrHeight(h, t).tag = "OnChain"
    PROVE  WithMempoolOrHeight(h, t).height # 0
BY DEF WithMempoolOrHeight, WitnessPosValid, OnChain, OffChain

=============================================================================

--------------------------- MODULE WitnessOrdering ---------------------------
(***************************************************************************)
(* The witness positions a client keeps for a few witness transactions,    *)
(* and the orders src/contract/seal.rs puts on them.  A position is        *)
(* obtained in one of the two ways the code offers:                        *)
(*   - from a resolver answer (height, timestamp), through                 *)
(*     WitnessOrd::with_mempool_or_height, which applies WitnessPos::new;  *)
(*   - by decoding a stored WitnessOrd (derived StrictDecode / serde),     *)
(*     which builds the struct field by field and so bypasses              *)
(*     WitnessPos::new.                                                    *)
(* Each witness also has its WitnessId, fixed when the client learns of it.*)
(* The properties are the laws of Ord / Eq that sorted containers          *)
(* (BTreeMap, BTreeSet, sort) rely on, over the values actually held.      *)
(***************************************************************************)
EXTENDS Seals

CONSTANTS
    Witnesses,   \* the witness transactions the client tracks
    WidTxids,    \* txids of witness ids, as numbers (only their order matters)
    Heights,     \* block heights a resolver answer or a stored value may carry
    Times        \* block timestamps a resolver answer or a stored value may carry

ASSUME WitnessOrderingAssumption ==
    /\ WidTxids \subseteq Int
    /\ Heights \subseteq Nat
    /\ Times \subseteq Int

VARIABLES
    pos,   \* pos[w]: the WitnessOrd held for witness w
    wid    \* wid[w]: the WitnessId of witness w

vars == <<pos, wid>>

\* WitnessId::Bitcoin(txid) / WitnessId::Liquid(txid)
WitnessIds == [layer: Layer1, txid: WidTxids]

\* Every value of type WitnessOrd the decoder can produce: any u32 height
\* and i64 timestamp inside OnChain, or OffChain.
DecodableOrds == {OnChain(h, t) : h \in Heights, t \in Times} \cup {OffChain}

Init ==
    /\ pos = [w \in Witnesses |-> OffChain]
    /\ wid \in [Witnesses -> WitnessIds]

\* The resolver answers (height, timestamp) for witness w, and the client
\* stores WitnessOrd::with_mempool_or_height(height, timestamp).
Resolve(w, h, t) ==
    /\ pos' = [pos EXCEPT ![w] = WithMempoolOrHeight(h, t)]
    /\ UNCHANGED wid

\* The client loads the WitnessOrd of w from its stash: StrictDecode (or
\* Deserialize) of WitnessOrd, whose WitnessPos fields are read as is.
Decode(w, o) ==
    /\ pos' = [pos EXCEPT ![w] = o]
    /\ UNCHANGED wid

Next ==
    \/ \E w \in Witnesses, h \in Heights, t \in Times : Resolve(w, h, t)
    \/ \E w \in Witnesses, o \in DecodableOrds : Decode(w, o)

Spec == Init /\ [][Next]_vars

(***************************************************************************)
(* Properties.                                                             *)
(***************************************************************************)

\* "a <= b" under each hand-written or derived Ord.
WidLeq(a, b) == CmpWitnessId(a, b) <= 0
OrdLeq(a, b) == CmpOrd(a, b) <= 0

HeldIds == {wid[w] : w \in Witnesses}
HeldOrds == {pos[w] : w \in Witnesses}

\* The laws of an order, stated over a set S of held values.
WidTotalOrder(S) ==
    /\ \A a \in S : WidLeq(a, a)
    /\ \A a, b \in S : WidLeq(a, b) /\ WidLeq(b, a) => a = b
    /\ \A a, b, c \in S : WidLeq(a, b) /\ WidLeq(b, c) => WidLeq(a, c)
    /\ \A a, b \in S : WidLeq(a, b) \/ WidLeq(b, a)

\* The laws of a total preorder (reflexive, transitive, total), what
\* sorting needs to be deterministic up to ties.
OrdTotalPreorder(S) ==
    /\ \A a \in S : OrdLeq(a, a)
    /\ \A a, b, c \in S : OrdLeq(a, b) /\ OrdLeq(b, c) => OrdLeq(a, c)
    /\ \A a, b \in S : OrdLeq(a, b) \/ OrdLeq(b, a)

\* Ord for WitnessId (seal.rs:303-313) is a total order consistent with its
\* derived Eq over the ids held: in particular Bitcoin(t) and Liquid(t),
\* which Eq tells apart, never compare Equal, so a BTreeSet of witness ids
\* keeps both.
WitnessIdOrderTotal == WidTotalOrder(HeldIds)

\* Spec §3 calls WitnessOrd a total order, and Rust's Ord requires cmp to
\* return Equal exactly when == holds.  Ord for WitnessPos (seal.rs:248)
\* compares timestamps only while Eq compares height too, so two positions
\* resolved at different heights in the same second compare Equal yet are
\* not equal: a BTreeMap keyed by WitnessOrd merges them.
WitnessOrdTotalOrder ==
    /\ OrdTotalPreorder(HeldOrds)
    /\ \A a, b \in HeldOrds : OrdLeq(a, b) /\ OrdLeq(b, a) => a = b

\* WitnessPos::height (seal.rs:240) unwraps NonZeroU32::new(height) with
\* expect("invariant"): every OnChain position held must have a non-zero
\* height, or the call panics; spec §7 says the core never panics on
\* input data.
HeldHeightsNonZero ==
    \A w \in Witnesses : pos[w].tag = "OnChain" => pos[w].height # 0

=============================================================================

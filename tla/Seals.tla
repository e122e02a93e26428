-------------------------------- MODULE Seals --------------------------------
(***************************************************************************)
(* The seal layer of src/contract/seal.rs: single-use seals tagged with a  *)
(* layer-1 (XSeal), witness identifiers (WitnessId) and the mined position *)
(* of a witness transaction (WitnessPos, WitnessOrd).                      *)
(*                                                                         *)
(* An inner seal (GraphSeal / GenesisSeal / ExplicitSeal of the bp crate)  *)
(* is abstracted to the outpoint it names: a txid and an output number.    *)
(* The txid is either a concrete transaction or the placeholder WitnessTx, *)
(* which stands for "the witness transaction of the node defining the      *)
(* seal".  The close method and the blinding nonce are left out: no        *)
(* property tells seals apart by them.                                     *)
(***************************************************************************)
EXTENDS Integers

CONSTANT WitnessTx   \* the witness-transaction placeholder of a GraphSeal

\* Layer1::{Bitcoin, Liquid}
Layer1 == {"bitcoin", "liquid"}

\* Result of a failed seal conversion (Option::None / Err(self)).
NoSeal == [error |-> TRUE]

\* XSeal::with(layer1, seal): tag an inner seal with its layer-1.
XSealWith(layer1, txid, vout) == [layer |-> layer1, txid |-> txid, vout |-> vout]

\* SealTxid::outpoint_or(txid): the placeholder resolves to the given txid.
OutpointOr(sealTxid, txid) == IF sealTxid = WitnessTx THEN txid ELSE sealTxid

\* XSeal::to_output_seal: an explicit seal, or None when the txid is still
\* the witness placeholder (seal.outpoint() is None).
ToOutputSeal(x) == IF x.txid = WitnessTx THEN NoSeal ELSE x

\* XSeal::try_to_output_seal(witness_id): the seal resolved against the
\* witness, provided both live on the same layer-1; Err(self) otherwise.
TryToOutputSeal(x, wid) ==
    IF x.layer = wid.layer
    THEN XSealWith(x.layer, OutpointOr(x.txid, wid.txid), x.vout)
    ELSE NoSeal

(***************************************************************************)
(* WitnessPos and WitnessOrd.                                              *)
(***************************************************************************)

\* Timestamp of the Bitcoin genesis block, the least timestamp WitnessPos
\* accepts.
BitcoinGenesisTimestamp == 1231006505

\* WitnessPos::new(height, timestamp) returns Some iff this holds.
WitnessPosValid(height, timestamp) ==
    height # 0 /\ timestamp >= BitcoinGenesisTimestamp

OnChain(height, timestamp) ==
    [tag |-> "OnChain", height |-> height, timestamp |-> timestamp]

OffChain == [tag |-> "OffChain", height |-> 0, timestamp |-> 0]

\* Fault variant of WithMempoolOrHeight: the position is built without
\* the checks of WitnessPos::new.
WithMempoolOrHeightUnchecked(height, timestamp) == OnChain(height, timestamp)

\* WitnessOrd::with_mempool_or_height: an invalid position (in particular
\* height 0, the mempool) maps to OffChain.
WithMempoolOrHeight(height, timestamp) ==
    IF WitnessPosValid(height, timestamp)
    THEN OnChain(height, timestamp)
    ELSE OffChain

\* Three-way comparison of integers, as core::cmp::Ordering (-1, 0, 1).
CmpInt(a, b) == IF a < b THEN -1 ELSE IF a = b THEN 0 ELSE 1

\* Ord for WitnessPos: by timestamp alone.
CmpPos(a, b) == CmpInt(a.timestamp, b.timestamp)

\* Ord for WitnessOrd, derived: variants in declaration order (OnChain
\* before OffChain), then WitnessPos::cmp inside OnChain.
CmpOrd(a, b) ==
    CASE a.tag = "OnChain" /\ b.tag = "OnChain" -> CmpPos(a, b)
      [] a.tag = "OnChain" /\ b.tag = "OffChain" -> -1
      [] a.tag = "OffChain" /\ b.tag = "OnChain" -> 1
      [] OTHER -> 0

(***************************************************************************)
(* WitnessId.  Its Eq is derived, so Bitcoin(t) and Liquid(t) differ; its  *)
(* Ord is written by hand.  A txid is compared as a number here: the       *)
(* derived Ord of Txid is some total order on the hashes, and only its     *)
(* being total matters.                                                    *)
(***************************************************************************)

\* Fault variant of CmpWitnessId: the layer is ignored and only the txids
\* are compared, as if two witness ids never shared a txid.
CmpWitnessIdTxidOnly(a, b) == CmpInt(a.txid, b.txid)

\* Ord for WitnessId: every Bitcoin id is greater than every Liquid id;
\* ids of one layer compare by txid.
CmpWitnessId(a, b) ==
    CASE a.layer = "bitcoin" /\ b.layer = "liquid" -> 1
      [] a.layer = "liquid" /\ b.layer = "bitcoin" -> -1
      [] OTHER -> CmpInt(a.txid, b.txid)

=============================================================================

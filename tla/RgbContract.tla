----------------------------- MODULE RgbContract -----------------------------
(***************************************************************************)
(* The operation graph of one RGB contract (src/contract/operations.rs),  *)
(* anchored to witness transactions on a UTXO ledger, and its validation.  *)
(*                                                                         *)
(* ops      the contract's operations in creation order: ops[1] is the     *)
(*          genesis, later entries transitions and extensions; a slot is   *)
(*          a node, and a parent always has a smaller slot than its child. *)
(* anchor   the witness (WitnessId) anchoring each transition.             *)
(* ord      what the seal resolver reports for each transaction: Unused    *)
(*          (never built), OffChain (broadcast, in the mempool) or         *)
(*          OnChain(height, timestamp).                                    *)
(* txin     the outpoints each broadcast transaction spends.               *)
(* spentBy  the ledger: the transaction that spent each outpoint, if any;  *)
(*          an outpoint is spent once (the single-use guarantee of the     *)
(*          chain).                                                        *)
(* tip      the height of the last block of each layer-1.                  *)
(*                                                                         *)
(* A NodeId is the commitment of the node's strict encoding (the Strict    *)
(* commit strategy of Genesis, Transition and Extension).  Nodes are       *)
(* immutable except for concealment, and distinct nodes have distinct      *)
(* encodings, so the commitment is abstracted as the slot paired with the  *)
(* revealed/concealed form of every assignment: two encodings of one node *)
(* differ exactly when these forms differ.                                 *)
(*                                                                         *)
(* The validator (the crate's validation engine, not part of src/) is      *)
(* modelled from spec section 4.7: per node, the StateSchema check of     *)
(* src/validation/state.rs, and for transitions the seal check that every *)
(* parent owned right is closed by the transition's own witness.           *)
(***************************************************************************)
EXTENDS Assignments, Sequences, FiniteSets

CONSTANTS
    Types,          \* owned-right types (OwnedRightType)
    PubTypes,       \* public-right types (PublicRightType)
    Schema,         \* [Types -> Strategies]: the schema's StateSchema per type
    Txids,          \* transaction ids
    TxLayer,        \* [Txids -> Layer1]: the layer-1 each transaction is on
    FundingTxids,   \* transactions mined before genesis, holding its seals
    Vouts,          \* output numbers
    NewAssignments, \* the assignments an operation may define
    MaxNodes,       \* bound on the number of operations
    MaxAssign,      \* bound on the assignments per owned-right type
    Timestamps,     \* the block timestamps the seal resolver may report
    NoTx            \* "no transaction"

-----------------------------------------------------------------------------
(* Data *)

\* Revealed seals (GraphSeal / GenesisSeal under an XSeal) and the explicit
\* outpoints (OutputSeal) they resolve to.
SealSet == [layer: Layer1, txid: Txids \cup {WitnessTx}, vout: Vouts]
OutputSeals == [layer: Layer1, txid: Txids, vout: Vouts]

Assignment == [seal: SealSet, sealRev: BOOLEAN, state: States, stateRev: BOOLEAN]

ASSUME ConstantsAssumption ==
    /\ Schema \in [Types -> Strategies]
    /\ TxLayer \in [Txids -> Layer1]
    /\ FundingTxids \subseteq Txids
    /\ NoTx \notin Txids /\ WitnessTx \notin Txids /\ NoTx # WitnessTx
    /\ Vouts \subseteq Nat
    /\ MaxNodes \in Nat \ {0}
    /\ MaxAssign \in Nat \ {0}
    /\ Timestamps \subseteq Int
    /\ NewAssignments \subseteq Assignment


\* NodeId: the node's slot and the form of each of its assignments.
Form(n) == [t \in Types |->
               [i \in DOMAIN n.owned[t] |->
                   <<n.owned[t][i].sealRev, n.owned[t][i].stateRev>>]]

\* NodeOutpoint { node_id, ty, no } (no is the 0-based u16 output number)
\* and a reference to a parent's public right.
NodeOutpoint(id, ty, no) == [node |-> id, ty |-> ty, no |-> no]

\* The placeholder contract id of nodes that do not store one.
NoContract == <<0>>

\* The id of some other contract, which Extension::with equally accepts.
OtherContract == <<0, 0>>

NoAnchor == [layer |-> "none", txid |-> NoTx]

\* The status of a transaction nobody has built.
Unused == [tag |-> "Unused", height |-> 0, timestamp |-> 0]

\* Sequences of 1..MaxAssign new assignments per owned-right type.
OwnedChoices ==
    [Types -> UNION {[1..k -> NewAssignments] : k \in 1..MaxAssign}]

-----------------------------------------------------------------------------
VARIABLES ops, anchor, ord, txin, spentBy, tip

vars == <<ops, anchor, ord, txin, spentBy, tip>>

Slots == 1..MaxNodes

\* Node::node_id (and Genesis::contract_id, byte-equal to it).
NodeIdOf(s) == <<s, Form(ops[s])>>

Nodes == 1..Len(ops)

\* The assignment a NodeOutpoint names in node p, when it exists.
HasOutput(p, ty, no) == no + 1 \in DOMAIN ops[p].owned[ty]
OutputAt(p, ty, no) == ops[p].owned[ty][no + 1]

\* Every NodeOutpoint of an existing node, including output numbers past
\* the end of its assignments (which a transition may still reference).
AllNodeOutpoints ==
    {NodeOutpoint(NodeIdOf(p), t, no) : p \in Nodes, t \in Types,
                                         no \in 0..(MaxAssign - 1)}

\* The public rights declared by existing nodes, as ParentPublicRights
\* entries.
AllPublicRights ==
    UNION {{[node |-> NodeIdOf(p), ty |-> t] : t \in ops[p].pub} : p \in Nodes}

\* Node::node_outputs(witness_txid) restricted to the outputs it maps to a
\* concrete transaction: every revealed seal of node p, with the witness
\* placeholder replaced by witness_txid.
NodeOutputs(p, witnessTxid) ==
    UNION {{[nout |-> NodeOutpoint(NodeIdOf(p), t, i - 1),
             txid |-> OutpointOr(ops[p].owned[t][i].seal.txid, witnessTxid),
             vout |-> ops[p].owned[t][i].seal.vout] :
               i \in {j \in DOMAIN ops[p].owned[t] : ops[p].owned[t][j].sealRev}} :
           t \in Types}

\* The inputs a wallet gives the witness transaction of a new transition on
\* `layer`: the outpoints node_outputs reports for the referenced outputs.
WitnessInputs(refs, layer) ==
    {[layer |-> layer, txid |-> o.txid, vout |-> o.vout] :
        o \in {o \in UNION {NodeOutputs(p, anchor[p].txid) : p \in Nodes} :
                  o.nout \in refs /\ o.txid \in Txids}}

\* An outpoint exists once its transaction is mined on its layer-1.
OutputExists(o) == TxLayer[o.txid] = o.layer /\ ord[o.txid].tag = "OnChain"

\* The node constructors Genesis::with, Transition::with, Extension::with.
GenesisNode(owned, pub) ==
    [kind |-> "genesis", owned |-> owned, pub |-> pub,
     parentOwned |-> {}, parentPub |-> {}, contract |-> NoContract]

TransitionNode(owned, pub, refs) ==
    [kind |-> "transition", owned |-> owned, pub |-> pub,
     parentOwned |-> refs, parentPub |-> {}, contract |-> NoContract]

ExtensionNode(owned, pub, prefs, contract) ==
    [kind |-> "extension", owned |-> owned, pub |-> pub,
     parentOwned |-> {}, parentPub |-> prefs, contract |-> contract]

\* conceal_state_except(seals) and conceal_seals(seals) of a node: applied
\* to every assignment of every owned-right type
\* (owned_rights_mut().keyed_values_mut()).
ConcealNodeState(n, seals) ==
    [n EXCEPT !.owned = [t \in Types |->
        [i \in DOMAIN n.owned[t] |-> ConcealStateExcept(n.owned[t][i], seals)]]]

ConcealNodeSeals(n, seals) ==
    [n EXCEPT !.owned = [t \in Types |->
        [i \in DOMAIN n.owned[t] |-> ConcealSeals(n.owned[t][i], seals)]]]

\* The secret seals of a node's assignments: the lists a caller may pass to
\* the conceal operations.
SecretsOf(p) ==
    UNION {{SecretOf(ops[p].owned[t][i].seal) : i \in DOMAIN ops[p].owned[t]} : t \in Types}

-----------------------------------------------------------------------------
(* Validation (spec 4.7) *)

\* The explicit outpoint a parent's seal resolves to: against the parent's
\* witness for a transition (try_to_output_seal), as it stands otherwise
\* (to_output_seal: genesis and extensions have no witness).
ResolveSeal(p, a) ==
    IF ops[p].kind = "transition"
    THEN TryToOutputSeal(a.seal, anchor[p])
    ELSE ToOutputSeal(a.seal)

\* The seal check of one parent owned right r of transition t: the parent
\* is present, has the output, its seal is revealed, resolves, and the
\* ledger shows it spent by t's own witness.
SealClosed(t, r) ==
    \E p \in Nodes :
        /\ NodeIdOf(p) = r.node
        /\ HasOutput(p, r.ty, r.no)
        /\ OutputAt(p, r.ty, r.no).sealRev
        /\ ResolveSeal(p, OutputAt(p, r.ty, r.no)) # NoSeal
        /\ spentBy[ResolveSeal(p, OutputAt(p, r.ty, r.no))] = anchor[t].txid

\* StateSchema::validate over every assignment of node s reports no failure.
StateValid(s) ==
    \A t \in Types : \A i \in DOMAIN ops[s].owned[t] :
        StateFailures(Schema[t], NodeIdOf(s), t, ops[s].owned[t][i]) = {}

\* Every parent owned right of a transition is closed by its witness.
InputsValid(s) ==
    ops[s].kind = "transition" => \A r \in ops[s].parentOwned : SealClosed(s, r)

\* An extension names its contract and public rights its parents declare.
ExtensionValid(s) ==
    ops[s].kind = "extension" =>
        /\ ops[s].contract = NodeIdOf(1)
        /\ \A r \in ops[s].parentPub :
              \E p \in Nodes : NodeIdOf(p) = r.node /\ r.ty \in ops[p].pub

\* The per-node checks of the validator.
NodeOk(s) == StateValid(s) /\ InputsValid(s) /\ ExtensionValid(s)

\* The present nodes a node references as parents.
ParentNodes(s) ==
    {p \in Nodes : \E r \in ops[s].parentOwned \cup ops[s].parentPub : NodeIdOf(p) = r.node}

\* Node s is valid: it and every ancestor pass the per-node checks.
Valid(s) ==
    \E S \in SUBSET Nodes :
        s \in S /\ \A x \in S : NodeOk(x) /\ ParentNodes(x) \subseteq S

-----------------------------------------------------------------------------
(* Actions *)

Init ==
    /\ ops = <<>>
    /\ anchor = [s \in Slots |-> NoAnchor]
    /\ ord = [x \in Txids |-> IF x \in FundingTxids
                               THEN OnChain(1, BitcoinGenesisTimestamp)
                               ELSE Unused]
    /\ txin = [x \in Txids |-> {}]
    /\ spentBy = [o \in OutputSeals |-> NoTx]
    /\ tip = [l \in Layer1 |-> 1]

\* Genesis::with: the first operation; its seals (GenesisSeal) name
\* concrete outpoints.
CreateGenesis ==
    /\ ops = <<>>
    /\ \E owned \in OwnedChoices, pub \in SUBSET PubTypes :
          /\ \A t \in Types : \A i \in DOMAIN owned[t] : owned[t][i].seal.txid # WitnessTx
          /\ ops' = <<GenesisNode(owned, pub)>>
    /\ UNCHANGED <<anchor, ord, txin, spentBy, tip>>

\* Transition::with, together with the wallet building and broadcasting its
\* witness transaction tx, which spends the outputs node_outputs gives for
\* the referenced parent outputs.
CreateTransition ==
    /\ Len(ops) \in 1..(MaxNodes - 1)
    /\ \E refs \in SUBSET AllNodeOutpoints, owned \in OwnedChoices,
          pub \in SUBSET PubTypes, tx \in Txids :
          /\ ord[tx] = Unused
          /\ ops' = Append(ops, TransitionNode(owned, pub, refs))
          /\ anchor' = [anchor EXCEPT ![Len(ops) + 1] = [layer |-> TxLayer[tx], txid |-> tx]]
          /\ ord' = [ord EXCEPT ![tx] = OffChain]
          /\ txin' = [txin EXCEPT ![tx] = WitnessInputs(refs, TxLayer[tx])]
    /\ UNCHANGED <<spentBy, tip>>

\* Extension::with: a state extension of public rights of earlier nodes,
\* committing to the contract id it is given: this contract's (the
\* genesis NodeId) or another one's.
CreateExtension ==
    /\ Len(ops) \in 1..(MaxNodes - 1)
    /\ \E prefs \in SUBSET AllPublicRights, owned \in OwnedChoices, pub \in SUBSET PubTypes,
          cid \in {NodeIdOf(1), OtherContract} :
          ops' = Append(ops, ExtensionNode(owned, pub, prefs, cid))
    /\ UNCHANGED <<anchor, ord, txin, spentBy, tip>>

\* ConcealState::conceal_state_except(seals) on node s.
ConcealStateOf(s) ==
    /\ \E keep \in SUBSET SecretsOf(s) :
          ops' = [ops EXCEPT ![s] = ConcealNodeState(ops[s], keep)]
    /\ UNCHANGED <<anchor, ord, txin, spentBy, tip>>

\* ConcealSeals::conceal_seals(seals) on node s.
ConcealSealsOf(s) ==
    /\ \E seals \in SUBSET SecretsOf(s) :
          ops' = [ops EXCEPT ![s] = ConcealNodeSeals(ops[s], seals)]
    /\ UNCHANGED <<anchor, ord, txin, spentBy, tip>>

\* The chain (not this crate): a broadcast transaction whose inputs exist
\* and are unspent is mined in the next block of its layer-1, and the seal
\* resolver then reports it through with_mempool_or_height at that height
\* and the block's timestamp.  Block timestamps need not increase from
\* block to block, and a timestamp below the genesis one is reported as
\* OffChain.
Mine(tx) ==
    /\ ord[tx] = OffChain
    /\ txin[tx] # {}
    /\ \A o \in txin[tx] : OutputExists(o) /\ spentBy[o] = NoTx
    /\ \E ts \in Timestamps :
          ord' = [ord EXCEPT ![tx] = WithMempoolOrHeight(tip[TxLayer[tx]] + 1, ts)]
    /\ spentBy' = [o \in OutputSeals |-> IF o \in txin[tx] THEN tx ELSE spentBy[o]]
    /\ tip' = [tip EXCEPT ![TxLayer[tx]] = @ + 1]
    /\ UNCHANGED <<ops, anchor, txin>>

Next ==
    \/ CreateGenesis
    \/ CreateTransition
    \/ CreateExtension
    \/ \E s \in Nodes : ConcealStateOf(s)
    \/ \E s \in Nodes : ConcealSealsOf(s)
    \/ \E tx \in Txids : Mine(tx)

Spec == Init /\ [][Next]_vars

-----------------------------------------------------------------------------
(* Properties *)

NodeIds == Slots \X [Types -> Seq(BOOLEAN \X BOOLEAN)]

NodeRecords ==
    [kind: {"genesis", "transition", "extension"},
     owned: [Types -> Seq(Assignment)],
     pub: SUBSET PubTypes,
     parentOwned: SUBSET [node: NodeIds, ty: Types, no: Nat],
     parentPub: SUBSET [node: NodeIds, ty: PubTypes],
     contract: NodeIds \cup {NoContract, OtherContract}]

\* A resolver answer; an OnChain position keeps the invariant WitnessPos::new
\* establishes (height() unwraps a NonZeroU32).
WitnessOrds ==
    {Unused, OffChain} \cup
    {o \in [tag: {"OnChain"}, height: Nat, timestamp: Int] : WitnessPosValid(o.height, o.timestamp)}

TypeOK ==
    /\ ops \in Seq(NodeRecords)
    /\ Len(ops) <= MaxNodes
    /\ anchor \in [Slots -> [layer: Layer1 \cup {"none"}, txid: Txids \cup {NoTx}]]
    /\ ord \in [Txids -> WitnessOrds]
    /\ txin \in [Txids -> SUBSET OutputSeals]
    /\ spentBy \in [OutputSeals -> Txids \cup {NoTx}]
    /\ tip \in [Layer1 -> Nat]

\* Concealment keeps the schema check (src/validation/state.rs): concealing
\* the state or the seals of assignments (conceal_state_except,
\* conceal_seals) never makes StateSchema::validate report a failure for a
\* node it accepted, nor does any other step.
ConcealKeepsStateValid ==
    [][\A s \in Nodes : StateValid(s) => StateValid(s)']_vars

\* The spec (3, lifecycle) lets assignments be concealed in place with a
\* bit-equivalent commitment, so that a sender can hide state before
\* handing a consignment over: a conceal_state_except step never turns a
\* valid node invalid.
ConcealStateKeepsValidity ==
    [][(\E s \in Nodes : ConcealStateOf(s)) =>
          \A x \in Nodes : Valid(x) => Valid(x)']_vars

\* WitnessOrd "defines the ordering of the contract state data"
\* (seal.rs:251): a valid transition is never ordered before a parent
\* transition whose output it spends.
WitnessOrdFollowsSpending ==
    \A t \in Nodes : \A p \in ParentNodes(t) :
        (/\ ops[t].kind = "transition" /\ ops[p].kind = "transition"
         /\ NodeOk(t)
         /\ ord[anchor[p].txid].tag = "OnChain"
         /\ ord[anchor[t].txid].tag = "OnChain")
        => CmpOrd(ord[anchor[p].txid], ord[anchor[t].txid]) # 1

=============================================================================

-------------------------- MODULE RgbContractProofs --------------------------
(***************************************************************************)
(* Proofs about RgbContract for every value of its constants: the type    *)
(* invariant, and the lemmas about the model's operators it rests on.     *)
(***************************************************************************)
EXTENDS RgbContract, SequenceTheorems, TLAPS

USE ConstantsAssumption

-----------------------------------------------------------------------------
(* Lemmas about the operators the model is built from *)

\* A function on 1..n into S is a sequence over S.
LEMMA FunIsSeq ==
    ASSUME NEW S, NEW n \in Nat, NEW f \in [1..n -> S]
    PROVE  f \in Seq(S)
BY SeqDef

\* The form of a well-typed node is a function from types to sequences of
\* flag pairs, so NodeIdOf yields a NodeId.
LEMMA FormType ==
    ASSUME NEW n \in NodeRecords
    PROVE  Form(n) \in [Types -> Seq(BOOLEAN \X BOOLEAN)]
<1> SUFFICES ASSUME NEW t \in Types
             PROVE  Form(n)[t] \in Seq(BOOLEAN \X BOOLEAN)
    BY DEF Form
<1>1. n.owned[t] \in Seq(Assignment)
    BY DEF NodeRecords
<1>2. DOMAIN n.owned[t] = 1..Len(n.owned[t]) /\ Len(n.owned[t]) \in Nat
    BY <1>1, LenProperties
<1>3. \A i \in 1..Len(n.owned[t]) : n.owned[t][i] \in Assignment
    BY <1>1, ElementOfSeq
<1>4. Form(n)[t] \in [1..Len(n.owned[t]) -> BOOLEAN \X BOOLEAN]
    BY <1>2, <1>3 DEF Form, Assignment
<1>. QED
    BY <1>2, <1>4, FunIsSeq

\* The node in slot p of a well-typed state has an id of type NodeIds.
LEMMA NodeIdType ==
    ASSUME TypeOK, NEW p \in Nodes
    PROVE  NodeIdOf(p) \in NodeIds
<1>1. ops[p] \in NodeRecords
    BY ElementOfSeq DEF TypeOK, Nodes
<1>2. p \in Slots
    BY DEF TypeOK, Nodes, Slots
<1>. QED
    BY <1>1, <1>2, FormType DEF NodeIdOf, NodeIds

\* Every owned-rights choice maps each type to a sequence of assignments.
LEMMA OwnedChoicesType ==
    ASSUME NEW owned \in OwnedChoices
    PROVE  owned \in [Types -> Seq(Assignment)]
<1> SUFFICES ASSUME NEW t \in Types PROVE owned[t] \in Seq(Assignment)
    BY DEF OwnedChoices
<1>1. PICK k \in 1..MaxAssign : owned[t] \in [1..k -> NewAssignments]
    BY DEF OwnedChoices
<1>2. owned[t] \in [1..k -> Assignment]
    BY <1>1
<1>. QED
    BY <1>2, FunIsSeq

\* The NodeOutpoints a transition may reference are well typed.
LEMMA AllNodeOutpointsType ==
    ASSUME TypeOK
    PROVE  AllNodeOutpoints \subseteq [node: NodeIds, ty: Types, no: Nat]
<1> SUFFICES ASSUME NEW p \in Nodes, NEW t \in Types, NEW no \in 0..(MaxAssign - 1)
             PROVE  NodeOutpoint(NodeIdOf(p), t, no) \in [node: NodeIds, ty: Types, no: Nat]
    BY DEF AllNodeOutpoints
<1>. QED
    BY NodeIdType DEF NodeOutpoint

\* The public rights an extension may reference are well typed.
LEMMA AllPublicRightsType ==
    ASSUME TypeOK
    PROVE  AllPublicRights \subseteq [node: NodeIds, ty: PubTypes]
<1> SUFFICES ASSUME NEW p \in Nodes, NEW t \in ops[p].pub
             PROVE  [node |-> NodeIdOf(p), ty |-> t] \in [node: NodeIds, ty: PubTypes]
    BY DEF AllPublicRights
<1>1. ops[p] \in NodeRecords
    BY ElementOfSeq DEF TypeOK, Nodes
<1>. QED
    BY <1>1, NodeIdType DEF NodeRecords

\* The inputs of a witness are explicit outpoints.
LEMMA WitnessInputsType ==
    ASSUME TypeOK, NEW refs, NEW layer \in Layer1
    PROVE  WitnessInputs(refs, layer) \subseteq OutputSeals
<1> SUFFICES ASSUME NEW p \in Nodes, NEW t \in Types,
                    NEW i \in DOMAIN ops[p].owned[t],
                    OutpointOr(ops[p].owned[t][i].seal.txid, anchor[p].txid) \in Txids
             PROVE  ops[p].owned[t][i].seal.vout \in Vouts
    BY DEF WitnessInputs, NodeOutputs, OutputSeals
<1>1. ops[p] \in NodeRecords
    BY ElementOfSeq DEF TypeOK, Nodes
<1>2. ops[p].owned[t] \in Seq(Assignment)
    BY <1>1 DEF NodeRecords
<1>3. ops[p].owned[t][i] \in Assignment
    BY <1>2, ElementOfSeq, LenProperties
<1>. QED
    BY <1>3 DEF Assignment, SealSet

\* Concealing keeps an assignment well typed.
LEMMA ConcealType ==
    ASSUME NEW a \in Assignment, NEW seals
    PROVE  /\ ConcealStateExcept(a, seals) \in Assignment
           /\ ConcealSeals(a, seals) \in Assignment
BY DEF ConcealStateExcept, ConcealSeals, Assignment, States

\* Concealing the assignments of a node keeps it well typed.
LEMMA ConcealNodeType ==
    ASSUME NEW n \in NodeRecords, NEW seals
    PROVE  /\ ConcealNodeState(n, seals) \in NodeRecords
           /\ ConcealNodeSeals(n, seals) \in NodeRecords
<1>1. ASSUME NEW t \in Types
      PROVE  /\ [i \in DOMAIN n.owned[t] |-> ConcealStateExcept(n.owned[t][i], seals)]
                   \in Seq(Assignment)
             /\ [i \in DOMAIN n.owned[t] |-> ConcealSeals(n.owned[t][i], seals)]
                   \in Seq(Assignment)
    <2>1. n.owned[t] \in Seq(Assignment)
        BY DEF NodeRecords
    <2>2. DOMAIN n.owned[t] = 1..Len(n.owned[t]) /\ Len(n.owned[t]) \in Nat
        BY <2>1, LenProperties
    <2>3. \A i \in 1..Len(n.owned[t]) :
             /\ ConcealStateExcept(n.owned[t][i], seals) \in Assignment
             /\ ConcealSeals(n.owned[t][i], seals) \in Assignment
        BY <2>1, ElementOfSeq, ConcealType
    <2>. QED
        BY <2>2, <2>3, FunIsSeq
<1>. QED
    BY <1>1 DEF ConcealNodeState, ConcealNodeSeals, NodeRecords

-----------------------------------------------------------------------------
(* The type invariant *)

\* TypeOK holds in every reachable state: the operations, anchors, resolver
\* answers and the ledger keep their types under every operation.
THEOREM TypeCorrect == Spec => []TypeOK
<1>1. Init => TypeOK
    BY EmptySeq DEF Init, TypeOK, NoAnchor, WitnessOrds, OnChain, Unused, OffChain,
                    BitcoinGenesisTimestamp, Layer1, WitnessPosValid
<1>2. TypeOK /\ [Next]_vars => TypeOK'
    <2> SUFFICES ASSUME TypeOK, [Next]_vars PROVE TypeOK'
        OBVIOUS
    <2>1. CASE CreateGenesis
        <3>1. PICK owned \in OwnedChoices, pub \in SUBSET PubTypes :
                 ops' = <<GenesisNode(owned, pub)>>
            BY <2>1 DEF CreateGenesis
        <3>2. GenesisNode(owned, pub) \in NodeRecords
            BY OwnedChoicesType DEF GenesisNode, NodeRecords, NoContract
        <3>3. ops' \in Seq(NodeRecords) /\ Len(ops') <= MaxNodes
            BY <3>1, <3>2, FunIsSeq
        <3>. QED
            BY <2>1, <3>3 DEF CreateGenesis, TypeOK
    <2>2. CASE CreateTransition
        <3>1. PICK refs \in SUBSET AllNodeOutpoints, owned \in OwnedChoices,
                   pub \in SUBSET PubTypes, tx \in Txids :
                 /\ ord[tx] = Unused
                 /\ ops' = Append(ops, TransitionNode(owned, pub, refs))
                 /\ anchor' = [anchor EXCEPT ![Len(ops) + 1] = [layer |-> TxLayer[tx], txid |-> tx]]
                 /\ ord' = [ord EXCEPT ![tx] = OffChain]
                 /\ txin' = [txin EXCEPT ![tx] = WitnessInputs(refs, TxLayer[tx])]
            BY <2>2 DEF CreateTransition
        <3>2. TransitionNode(owned, pub, refs) \in NodeRecords
            BY OwnedChoicesType, AllNodeOutpointsType DEF TransitionNode, NodeRecords, NoContract
        <3>3. ops' \in Seq(NodeRecords) /\ Len(ops') <= MaxNodes
            BY <2>2, <3>1, <3>2, AppendProperties DEF CreateTransition, TypeOK
        <3>4. txin' \in [Txids -> SUBSET OutputSeals]
            BY <3>1, WitnessInputsType DEF TypeOK
        <3>. QED
            BY <2>2, <3>1, <3>3, <3>4 DEF CreateTransition, TypeOK, WitnessOrds, OffChain
    <2>3. CASE CreateExtension
        <3>1. PICK prefs \in SUBSET AllPublicRights, owned \in OwnedChoices, pub \in SUBSET PubTypes,
                   cid \in {NodeIdOf(1), OtherContract} :
                 ops' = Append(ops, ExtensionNode(owned, pub, prefs, cid))
            BY <2>3 DEF CreateExtension
        <3>2. 1 \in Nodes
            BY <2>3 DEF CreateExtension, Nodes
        <3>3. ExtensionNode(owned, pub, prefs, cid) \in NodeRecords
            BY <3>2, OwnedChoicesType, AllPublicRightsType, NodeIdType
            DEF ExtensionNode, NodeRecords
        <3>4. ops' \in Seq(NodeRecords) /\ Len(ops') <= MaxNodes
            BY <2>3, <3>1, <3>3, AppendProperties DEF CreateExtension, TypeOK
        <3>. QED
            BY <2>3, <3>4 DEF CreateExtension, TypeOK
    <2>4. ASSUME NEW s \in Nodes, ConcealStateOf(s) PROVE TypeOK'
        <3>1. PICK keep \in SUBSET SecretsOf(s) :
                 ops' = [ops EXCEPT ![s] = ConcealNodeState(ops[s], keep)]
            BY <2>4 DEF ConcealStateOf
        <3>2. ops[s] \in NodeRecords /\ s \in 1..Len(ops)
            BY ElementOfSeq DEF TypeOK, Nodes
        <3>3. ConcealNodeState(ops[s], keep) \in NodeRecords
            BY <3>2, ConcealNodeType DEF ConcealNodeState, ConcealNodeSeals
        <3>4. ops' \in Seq(NodeRecords) /\ Len(ops') = Len(ops)
            <4>. DEFINE e == ConcealNodeState(ops[s], keep)
            <4>1. [ops EXCEPT ![s] = e] \in Seq(NodeRecords)
                  /\ Len([ops EXCEPT ![s] = e]) = Len(ops)
                BY <3>2, <3>3, ExceptSeq DEF TypeOK
            <4>. QED
                BY <3>1, <4>1
        <3>. QED
            BY <2>4, <3>4 DEF ConcealStateOf, TypeOK
    <2>5. ASSUME NEW s \in Nodes, ConcealSealsOf(s) PROVE TypeOK'
        <3>1. PICK seals \in SUBSET SecretsOf(s) :
                 ops' = [ops EXCEPT ![s] = ConcealNodeSeals(ops[s], seals)]
            BY <2>5 DEF ConcealSealsOf
        <3>2. ops[s] \in NodeRecords /\ s \in 1..Len(ops)
            BY ElementOfSeq DEF TypeOK, Nodes
        <3>3. ConcealNodeSeals(ops[s], seals) \in NodeRecords
            BY <3>2, ConcealNodeType DEF ConcealNodeState, ConcealNodeSeals
        <3>4. ops' \in Seq(NodeRecords) /\ Len(ops') = Len(ops)
            <4>. DEFINE e == ConcealNodeSeals(ops[s], seals)
            <4>1. [ops EXCEPT ![s] = e] \in Seq(NodeRecords)
                  /\ Len([ops EXCEPT ![s] = e]) = Len(ops)
                BY <3>2, <3>3, ExceptSeq DEF TypeOK
            <4>. QED
                BY <3>1, <4>1
        <3>. QED
            BY <2>5, <3>4 DEF ConcealSealsOf, TypeOK
    <2>6. ASSUME NEW tx \in Txids, Mine(tx) PROVE TypeOK'
        <3>1. PICK ts \in Timestamps :
                 ord' = [ord EXCEPT ![tx] = WithMempoolOrHeight(tip[TxLayer[tx]] + 1, ts)]
            BY <2>6 DEF Mine
        <3>2. WithMempoolOrHeight(tip[TxLayer[tx]] + 1, ts) \in WitnessOrds
            BY DEF TypeOK, WithMempoolOrHeight, OnChain, OffChain, WitnessOrds, WitnessPosValid
        <3>. QED
            BY <2>6, <3>1, <3>2 DEF Mine, TypeOK
    <2>7. CASE UNCHANGED vars
        BY <2>7 DEF vars, TypeOK
    <2>. QED
        BY <2>1, <2>2, <2>3, <2>4, <2>5, <2>6, <2>7 DEF Next
<1>. QED
    BY <1>1, <1>2, PTL DEF Spec

=============================================================================

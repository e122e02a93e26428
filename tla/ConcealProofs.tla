---------------------------- MODULE ConcealProofs ----------------------------
(***************************************************************************)
(* Concealment never makes the schema check fail (ConcealKeepsStateValid,  *)
(* checked by TLC in the main run), for every value of the constants.      *)
(* The argument: StateSchema::validate reads the strategy of a state and,  *)
(* for a confidential arithmetic state, its range proof; concealing keeps  *)
(* the strategy, and a state it conceals gets a proof that verifies.  The  *)
(* NodeId passed to validate changes with a conceal but only labels the    *)
(* failures, so an empty set stays empty.  Every other step leaves the     *)
(* existing nodes alone.                                                   *)
(***************************************************************************)
EXTENDS RgbContractProofs

USE ConstantsAssumption

-----------------------------------------------------------------------------
(* Lemmas about one assignment *)

\* The node id given to StateSchema::validate does not decide whether it
\* reports a failure.
LEMMA FailuresIgnoreNodeId ==
    ASSUME NEW sch, NEW id1, NEW id2, NEW t, NEW a,
           StateFailures(sch, id1, t, a) = {}
    PROVE  StateFailures(sch, id2, t, a) = {}
BY DEF StateFailures

\* conceal_state_except and conceal_seals on an assignment the schema
\* accepts give one it accepts, under any node id.
LEMMA ConcealKeepsNoFailure ==
    ASSUME NEW sch, NEW id1, NEW id2, NEW t, NEW a \in Assignment, NEW seals,
           StateFailures(sch, id1, t, a) = {}
    PROVE  /\ StateFailures(sch, id2, t, ConcealStateExcept(a, seals)) = {}
           /\ StateFailures(sch, id2, t, ConcealSeals(a, seals)) = {}
<1>1. StateFailures(sch, id2, t, a) = {}
    BY FailuresIgnoreNodeId
<1>2. StateFailures(sch, id2, t, ConcealStateExcept(a, seals)) = {}
    <2>1. CASE a.stateRev /\ SecretOf(a.seal) \notin seals
        <3>1. ConcealStateExcept(a, seals) = [a EXCEPT !.stateRev = FALSE, !.state.proofOk = TRUE]
            BY <2>1 DEF ConcealStateExcept
        <3>2. /\ ConcealStateExcept(a, seals).state.strat = a.state.strat
              /\ ConcealStateExcept(a, seals).state.proofOk = TRUE
            BY <3>1 DEF Assignment, States
        <3>. QED
            BY <1>1, <3>2 DEF StateFailures
    <2>2. CASE ~(a.stateRev /\ SecretOf(a.seal) \notin seals)
        BY <1>1, <2>2 DEF ConcealStateExcept
    <2>. QED
        BY <2>1, <2>2
<1>3. StateFailures(sch, id2, t, ConcealSeals(a, seals)) = {}
    <2>1. /\ ConcealSeals(a, seals).state = a.state
          /\ ConcealSeals(a, seals).stateRev = a.stateRev
        BY DEF ConcealSeals, Assignment
    <2>. QED
        BY <1>1, <2>1 DEF StateFailures
<1>. QED
    BY <1>2, <1>3

-----------------------------------------------------------------------------
(* Lemmas about one node *)

\* The conceal operations keep the list of assignments of every type: they
\* map over owned_rights_mut().keyed_values_mut() in place.
LEMMA ConcealKeepsDomains ==
    ASSUME NEW n \in NodeRecords, NEW seals, NEW t \in Types
    PROVE  /\ DOMAIN ConcealNodeState(n, seals).owned[t] = DOMAIN n.owned[t]
           /\ DOMAIN ConcealNodeSeals(n, seals).owned[t] = DOMAIN n.owned[t]
BY DEF ConcealNodeState, ConcealNodeSeals, NodeRecords

\* All assignments of node record n pass the schema check under node id id.
NodeStateValid(n, id) ==
    \A t \in Types : \A i \in DOMAIN n.owned[t] :
        StateFailures(Schema[t], id, t, n.owned[t][i]) = {}

LEMMA StateValidAsNode ==
    ASSUME NEW s
    PROVE  StateValid(s) = NodeStateValid(ops[s], NodeIdOf(s))
BY DEF StateValid, NodeStateValid

\* Concealing the assignments of a node keeps it accepted, whatever its
\* new node id.
LEMMA ConcealNodeKeepsValid ==
    ASSUME NEW n \in NodeRecords, NEW seals, NEW id1, NEW id2,
           NodeStateValid(n, id1)
    PROVE  /\ NodeStateValid(ConcealNodeState(n, seals), id2)
           /\ NodeStateValid(ConcealNodeSeals(n, seals), id2)
<1>0. \A t \in Types :
         /\ DOMAIN ConcealNodeState(n, seals).owned[t] = DOMAIN n.owned[t]
         /\ DOMAIN ConcealNodeSeals(n, seals).owned[t] = DOMAIN n.owned[t]
    BY ConcealKeepsDomains
<1> SUFFICES ASSUME NEW t \in Types, NEW i \in DOMAIN n.owned[t]
             PROVE  /\ StateFailures(Schema[t], id2, t, ConcealNodeState(n, seals).owned[t][i]) = {}
                    /\ StateFailures(Schema[t], id2, t, ConcealNodeSeals(n, seals).owned[t][i]) = {}
    BY <1>0 DEF NodeStateValid
<1>1. n.owned[t][i] \in Assignment
    BY ElementOfSeq DEF NodeRecords
<1>2. StateFailures(Schema[t], id1, t, n.owned[t][i]) = {}
    BY DEF NodeStateValid
<1>3. /\ ConcealNodeState(n, seals).owned[t][i] = ConcealStateExcept(n.owned[t][i], seals)
      /\ ConcealNodeSeals(n, seals).owned[t][i] = ConcealSeals(n.owned[t][i], seals)
    BY DEF ConcealNodeState, ConcealNodeSeals, NodeRecords
<1>. QED
    BY <1>1, <1>2, <1>3, ConcealKeepsNoFailure

\* A node a step leaves alone keeps passing the schema check.
LEMMA UnchangedNodeKeepsValid ==
    ASSUME NEW s, ops'[s] = ops[s], StateValid(s)
    PROVE  StateValid(s)'
BY DEF StateValid, NodeIdOf

\* A node a step replaces by its concealment keeps passing the check.
LEMMA ConcealedNodeKeepsValid ==
    ASSUME NEW s, ops[s] \in NodeRecords, NEW seals, StateValid(s),
           \/ ops'[s] = ConcealNodeState(ops[s], seals)
           \/ ops'[s] = ConcealNodeSeals(ops[s], seals)
    PROVE  StateValid(s)'
<1>1. NodeStateValid(ops[s], NodeIdOf(s))
    BY DEF StateValid, NodeStateValid
<1>2. NodeStateValid(ops'[s], NodeIdOf(s)')
    BY <1>1, ConcealNodeKeepsValid
<1>. QED
    BY <1>2 DEF StateValid, NodeStateValid

-----------------------------------------------------------------------------
(* The theorem *)

\* Every step keeps the schema check of every existing node.
LEMMA StepKeepsStateValid ==
    ASSUME TypeOK, [Next]_vars, NEW s \in Nodes, StateValid(s)
    PROVE  StateValid(s)'
<1>0. s \in 1..Len(ops) /\ ops[s] \in NodeRecords
    BY ElementOfSeq DEF TypeOK, Nodes
<1>1. CASE CreateGenesis
    BY <1>1, EmptySeq DEF CreateGenesis, Nodes
<1>2. CASE CreateTransition
    <2>1. PICK refs \in SUBSET AllNodeOutpoints, owned \in OwnedChoices,
               pub \in SUBSET PubTypes, tx \in Txids :
             ops' = Append(ops, TransitionNode(owned, pub, refs))
        BY <1>2 DEF CreateTransition
    <2>2. ops'[s] = ops[s]
        BY <1>0, <2>1, AppendProperties DEF TypeOK
    <2>. QED
        BY <2>2, UnchangedNodeKeepsValid
<1>3. CASE CreateExtension
    <2>1. PICK prefs \in SUBSET AllPublicRights, owned \in OwnedChoices, pub \in SUBSET PubTypes,
               cid \in {NodeIdOf(1), OtherContract} :
             ops' = Append(ops, ExtensionNode(owned, pub, prefs, cid))
        BY <1>3 DEF CreateExtension
    <2>2. ops'[s] = ops[s]
        BY <1>0, <2>1, AppendProperties DEF TypeOK
    <2>. QED
        BY <2>2, UnchangedNodeKeepsValid
<1>4. ASSUME NEW c \in Nodes, ConcealStateOf(c) PROVE StateValid(s)'
    <2>1. PICK keep \in SUBSET SecretsOf(c) :
             ops' = [ops EXCEPT ![c] = ConcealNodeState(ops[c], keep)]
        BY <1>4 DEF ConcealStateOf
    <2>2. CASE s = c
        <3>1. ops'[s] = ConcealNodeState(ops[s], keep)
            BY <1>0, <2>1, <2>2 DEF TypeOK
        <3>. QED
            BY <1>0, <3>1, ConcealedNodeKeepsValid
    <2>3. CASE s # c
        <3>1. ops'[s] = ops[s]
            BY <2>1, <2>3
        <3>. QED
            BY <3>1, UnchangedNodeKeepsValid
    <2>. QED
        BY <2>2, <2>3
<1>5. ASSUME NEW c \in Nodes, ConcealSealsOf(c) PROVE StateValid(s)'
    <2>1. PICK seals \in SUBSET SecretsOf(c) :
             ops' = [ops EXCEPT ![c] = ConcealNodeSeals(ops[c], seals)]
        BY <1>5 DEF ConcealSealsOf
    <2>2. CASE s = c
        <3>1. ops'[s] = ConcealNodeSeals(ops[s], seals)
            BY <1>0, <2>1, <2>2 DEF TypeOK
        <3>. QED
            BY <1>0, <3>1, ConcealedNodeKeepsValid
    <2>3. CASE s # c
        <3>1. ops'[s] = ops[s]
            BY <2>1, <2>3
        <3>. QED
            BY <3>1, UnchangedNodeKeepsValid
    <2>. QED
        BY <2>2, <2>3
<1>6. ASSUME NEW tx \in Txids, Mine(tx) PROVE StateValid(s)'
    BY <1>6, UnchangedNodeKeepsValid DEF Mine
<1>7. CASE UNCHANGED vars
    BY <1>7, UnchangedNodeKeepsValid DEF vars
<1>. QED
    BY <1>1, <1>2, <1>3, <1>4, <1>5, <1>6, <1>7 DEF Next

\* Concealment keeps the schema check (ConcealKeepsStateValid, checked by
\* TLC in the main run): no step, conceal_state_except and conceal_seals
\* included, makes StateSchema::validate report a failure for a node it
\* accepted, for every value of the constants.
THEOREM ConcealKeepsStateValidHolds == Spec => ConcealKeepsStateValid
<1>1. TypeOK /\ [Next]_vars => [\A s \in Nodes : StateValid(s) => StateValid(s)']_vars
    BY StepKeepsStateValid
<1>. QED
    BY <1>1, TypeCorrect, PTL DEF Spec, ConcealKeepsStateValid
=============================================================================

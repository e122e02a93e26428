----------------------------- MODULE Assignments -----------------------------
(***************************************************************************)
(* Owned-state assignments and their validation against the schema.        *)
(*                                                                         *)
(* An assignment binds a seal to a state.  Its four Rust variants          *)
(* (Confidential, ConfidentialState, ConfidentialSeal, Revealed) are the   *)
(* two flags sealRev and stateRev.  A concealed seal keeps the revealed    *)
(* seal underneath: SecretSeal is a collision-free commitment, so the     *)
(* concealed form is the seal itself with sealRev = FALSE, and SecretOf    *)
(* is injective.  A state is its strategy (which Rust type it has, what    *)
(* StateSchema::validate downcasts to) and, for a confidential Pedersen    *)
(* state, whether its range proof verifies.                                *)
(*                                                                         *)
(* The assignment type and its conceal operations live in the crate's     *)
(* owned_state/assignments modules, which are not part of src/; they are   *)
(* modelled from the spec (section 4.4).  StateValidate is translated from *)
(* src/validation/state.rs.                                                *)
(***************************************************************************)
EXTENDS Seals

\* StateSchema variants (Arithmetic's format and Structured's semantic id
\* are left out).
Strategies == {"Declarative", "Arithmetic", "Structured", "Attachment"}

States == [strat: Strategies, proofOk: BOOLEAN]

\* seal::Confidential (SecretSeal) of a revealed seal: XSeal::conceal.
SecretOf(seal) == [secret |-> seal]

\* conceal_state_except(seals) on one assignment: a state whose seal's
\* secret is listed stays; any other revealed state is concealed.
\* Concealing a Pedersen value produces a commitment with a valid proof.
ConcealStateExcept(a, seals) ==
    IF a.stateRev /\ SecretOf(a.seal) \notin seals
    THEN [a EXCEPT !.stateRev = FALSE, !.state.proofOk = TRUE]
    ELSE a

\* conceal_seals(seals) on one assignment: a revealed seal whose secret is
\* listed is concealed; others stay.
ConcealSeals(a, seals) ==
    IF a.sealRev /\ SecretOf(a.seal) \in seals
    THEN [a EXCEPT !.sealRev = FALSE]
    ELSE a

(***************************************************************************)
(* StateSchema::validate(node_id, assignment_id, assignment): the failures *)
(* and infos it adds to the returned Status.                               *)
(***************************************************************************)
\* Fault variant of StateFailures: a confidential structured state is
\* reported as a failure instead of an info.
StateFailuresStructuredFails(schema, nodeId, ty, a) ==
    IF a.state.strat # schema
    THEN {[failure |-> "SchemaMismatchedStateType", ty |-> ty]}
    ELSE IF \/ schema = "Arithmetic" /\ ~a.stateRev /\ ~a.state.proofOk
            \/ schema = "Structured" /\ ~a.stateRev
         THEN {[failure |-> "InvalidBulletproofs", node |-> nodeId, ty |-> ty]}
         ELSE {}

StateFailures(schema, nodeId, ty, a) ==
    IF a.state.strat # schema
    THEN {[failure |-> "SchemaMismatchedStateType", ty |-> ty]}
    ELSE IF schema = "Arithmetic" /\ ~a.stateRev /\ ~a.state.proofOk
         THEN {[failure |-> "InvalidBulletproofs", node |-> nodeId, ty |-> ty]}
         ELSE {}

StateInfos(schema, nodeId, ty, a) ==
    IF schema = "Structured" /\ a.state.strat = "Structured" /\ ~a.stateRev
    THEN {[info |-> "UncheckableConfidentialStateData", node |-> nodeId, ty |-> ty]}
    ELSE {}

=============================================================================

# Formal models of rgb-core

TLA+ models of the consensus core in `src/`: the seal layer, the contract
operations and how they are concealed, and the state schema check. There is
also a model of the validation the spec describes, built on top of them.
TLC checks the models on small instances. TLAPS proves the main safety
results for every value of the constants.

## The system

| Part | Source | What it holds and does |
|---|---|---|
| Seals | `src/contract/seal.rs` | `XSeal` tags a bitcoin or liquid seal. The seal names an outpoint, or the witness placeholder. `to_output_seal` and `try_to_output_seal` resolve the seal to an explicit `OutputSeal`; `try_to_output_seal` does so against a `WitnessId` of the same layer only. `conceal` gives the `SecretSeal`. `WitnessPos::new` accepts height ≠ 0 and timestamp ≥ 1231006505. `WitnessOrd::with_mempool_or_height` maps anything else to `OffChain`. `WitnessPos` is ordered by timestamp alone, while its derived `Eq` compares the height too; `WitnessOrd` puts `OnChain` before `OffChain`. `WitnessId` orders every Bitcoin id above every Liquid id, then by txid. `WitnessPos` and `WitnessOrd` derive their decoders, which do not go through `new`. |
| Operations | `src/contract/operations.rs` | `Genesis`, `Transition` and `Extension` are nodes. A transition references parent outputs (`ParentOwnedRights`: NodeId → type → output numbers). An extension references parent public rights and the contract id. Every node owns typed assignments. `node_id` is the tagged hash of the node's **strict encoding** (`CommitStrategy = Strict`). `conceal_state_except` and `conceal_seals` conceal assignments in place. `node_outputs` maps the node's outputs to outpoints, with the placeholder replaced by the witness txid. |
| State check | `src/validation/state.rs` | `StateSchema::validate` checks an assignment's state against the schema's strategy. A mismatched type is a failure. A confidential arithmetic state must pass its bulletproof. A confidential structured state yields the info `UncheckableConfidentialStateData`. |
| Validator, resolver, wallet, chain | not in `src/` (spec §4.7) | The validator applies the checks of each node, checks that each parent seal of a transition is closed by the transition's own witness, and walks the ancestry. The resolver reports a `WitnessOrd` for each transaction. A wallet builds a witness from `node_outputs`. The chain spends an outpoint at most once. |
| `rgb/commit.rs`, `lnp/presentation/encoding.rs`, `bin/rgbcore-stl.rs` | | Trait declarations and a type-library generator. They hold no protocol state, so they are not modelled. |

How the parts interact: a transition's witness transaction spends the outpoints
of its parents' seals. The validator resolves each parent seal against the
parent's own witness (`try_to_output_seal`, or `to_output_seal` for genesis and
extensions) and asks the ledger which transaction spent it. That answer must be
the transition's own witness. Nodes reference their parents by NodeId, so
whatever changes a NodeId changes the graph.

## Modules

* **`Seals`** translates `seal.rs`. A seal is the record
  `[layer, txid ∈ Txids ∪ {WitnessTx}, vout]`. The close method and the
  blinding are left out.
  * `ToOutputSeal`, `TryToOutputSeal`, `OutpointOr`.
  * `WitnessPosValid`, `WithMempoolOrHeight`.
  * The comparators `CmpPos` and `CmpOrd`, as three-way results -1/0/1.
* **`WitnessOrdering`** (on top of `Seals`) holds what a client keeps for
  a few witnesses:
  * `pos[w]`: the `WitnessOrd` of witness `w`;
  * `wid[w]`: its `WitnessId`.

  `Resolve(w, h, t)` stores `with_mempool_or_height(h, t)`. `Decode(w, o)`
  loads any `WitnessOrd` the derived decoder accepts. `CmpWitnessId`
  (in `Seals`) translates `Ord for WitnessId`. The properties are the `Ord`
  laws that sorted containers rely on. They are written out with explicit
  quantifiers (`WidTotalOrder`, and `OrdTotalPreorder` inside the
  violated `WitnessOrdTotalOrder`), not with the community
  module `Relation`. Its `*Under` operators take an operator parameter,
  which `tlapm` cannot expand.
* **`Assignments`** models the four assignment variants as the two flags
  `sealRev` and `stateRev`. A state is its strategy plus, for a Pedersen
  commitment, whether its range proof verifies.
  * `ConcealStateExcept` and `ConcealSeals` act on one assignment. They are
    modelled from spec §4.4, since that code is not under `src/`.
  * `StateFailures` and `StateInfos` translate `StateSchema::validate`.
* **`RgbContract`** holds the contract and its environment.
  * Variables:
    * `ops`: the operations in creation order; a slot is a node.
    * `anchor`: the witness of each transition.
    * `ord`: the resolver's answer per transaction: `Unused`, `OffChain`, or `OnChain(h, t)`.
    * `txin`: the inputs of each broadcast witness.
    * `spentBy`: the ledger.
    * `tip`: the height of each layer-1.
  * NodeId is abstracted: `NodeIdOf(s) = <<s, Form(ops[s])>>`. Distinct nodes
    have distinct encodings, and one node's encoding changes exactly when the
    variant of one of its assignments changes. That is what the Strict
    strategy commits to (`operations.rs:470-498`).
  * Actions:
    * `CreateGenesis`: `Genesis::with`, with explicit genesis seals.
    * `CreateTransition`: `Transition::with`, plus the wallet building and
      broadcasting a fresh witness whose inputs come from `node_outputs`
      (`WitnessInputs`, modelled from the spec: the wallet is not in
      `src/`). Like `Transition::with`, it accepts any parent references,
      none included.
    * `CreateExtension`: `Extension::with`. Like the code, it accepts any
      parent public rights, none included, and any contract id: this
      contract's genesis NodeId or another one's (`OtherContract`).
    * `ConcealStateOf(s)` and `ConcealSealsOf(s)`: the conceal operations
      over every assignment of node `s`, with any list of the node's secret
      seals.
    * `Mine(tx)`: the chain mines a broadcast witness whose inputs exist and
      are unspent. The resolver then reports it through
      `with_mempool_or_height`, at any timestamp of `Timestamps`.
  * Validator (modelled from the spec): `SealClosed`, `StateValid`,
    `InputsValid`, `ExtensionValid`, `NodeOk`, and `Valid` for a node and all
    of its ancestry.
* **`MCRgbContract`** and **`MCWitnessOrdering`** instantiate the models for TLC.
* **`RgbContractProofs`**, **`ConcealProofs`**
  and **`WitnessOrderingProofs`** hold the TLAPS proofs.

## Runs

The runs on `MCRgbContract` use these bounds:

* one owned-right type (structured) and one public-right type;
* transactions:
  * two funding transactions, one per layer-1;
  * two bitcoin witnesses, `B1` and `B2`, symmetric, so that two transitions can race;
  * one liquid witness `L1`;
* one output number;
* assignment templates:
  * bitcoin, genesis outpoint;
  * bitcoin, witness placeholder;
  * (conceal and order runs only) liquid, placeholder, with a declarative
    state, which the schema rejects;
* at most 3 operations and one assignment per type.

The main run uses the two structured templates only: its property is about
nodes the schema accepts, and the third template costs it more than half of
its time without adding such a node. The structured strategy is the one
`StateFailures` can both accept and, after a conceal, report
`UncheckableConfidentialStateData` for. The Pedersen (arithmetic) half of
the conceal argument is not exercised by TLC: a newly concealed commitment
carries a proof that verifies (spec §4.4, `proofOk` set to TRUE), which the
proof below covers for every schema.

Three operations are enough for each case the properties speak of:

* a genesis and two transitions spending the same output;
* a transition spending a transition;
* an extension of the genesis.

| Run | cfg | Expect | Checks | What it shows |
|---|---|---|---|---|
| main | `MCRgbContract.cfg` | pass (1.07M states, about 2 min) | `TypeOK`, `ConcealKeepsStateValid` | Building, broadcasting, mining and concealing may interleave in any order; transitions and extensions may have no parents, an extension may name another contract, and the resolver may give a pre-genesis timestamp. Even so: concealment never makes the schema check fail for a node it accepted; an OnChain answer always satisfies the `WitnessPos` invariant. |
| conceal | `MCRgbContractConceal.cfg` | violation | `ConcealStateKeepsValidity` | Concealing the genesis state in place changes the genesis NodeId, and with it the contract id. An extension that validated before then fails. |
| order | `MCRgbContractOrder.cfg` | violation | `WitnessOrdFollowsSpending` | If the second block's timestamp is smaller than the first's, the witness of a transition is ordered before the witness of the parent it spends. |

The runs on `MCWitnessOrdering` use three witnesses, txids 1 and 2, heights
0 to 2, and the timestamps one below, at and one above the Bitcoin genesis
timestamp. A resolver answer can then be rejected for its height or for its
time. Two accepted positions can share a timestamp, and two ids can share a
txid across layers. That gives 64,000 states.

| Run | cfg | Expect | Checks | What it shows |
|---|---|---|---|---|
| witness_order | `MCWitnessOrdering.cfg` | pass (64k states) | `WitnessIdOrderTotal` | `WitnessId::cmp` is a total order consistent with `Eq`, so `Bitcoin(t)` and `Liquid(t)` stay apart. |
| ord_eq | `MCWitnessOrderingTotal.cfg` | violation | `WitnessOrdTotalOrder` | Two witnesses resolved at heights 1 and 2 in the same second compare `Equal` but are not `==`. |
| decoded_height | `MCWitnessOrderingHeight.cfg` | violation | `HeldHeightsNonZero` | A decoded `OnChain` position can have height 0, and `height()` panics on it. |

Each property of a passing run has a mutant that TLC catches (see
`PROJECT.json`):

| Property | Mutant |
|---|---|
| `TypeOK` | an unchecked `WitnessPos` |
| `ConcealKeepsStateValid` | confidential structured state treated as a failure |
| `WitnessIdOrderTotal` | `WitnessId::cmp` comparing txids only |

**Fairness.** Every property checked is a safety property. The code has no
scheduler: it is a library called synchronously, and spec §5 describes it as
single-threaded per validation. So no fairness is assumed and no liveness is
claimed.

## Findings

1. **Concealment changes NodeIds** (`operations.rs:472`, run `conceal`). The
   spec says an in-place conceal keeps the commitment bit-equivalent. The nodes,
   however, commit with the `Strict` strategy (marked "TODO: Use merklization").
   Their strict encoding includes each assignment's variant, so a conceal
   orphans the node's children and extensions.
2. **Witness order by timestamp** (`seal.rs:248`, run `order`). `WitnessOrd`
   is documented as defining the ordering of contract state. It orders by
   block timestamp, and block timestamps are not monotone. A spend can
   therefore sort before what it spends. The spec states the same timestamp
   order, so this is a gap in the spec rather than a divergence from it.
3. **`Ord` and `Eq` of `WitnessPos` disagree** (`seal.rs:248`, run `ord_eq`).
   `Ord` compares the timestamp only, while the derived `Eq` also compares
   the height. Rust requires `cmp` to be `Equal` exactly when `==` holds,
   and spec §3 calls `WitnessOrd` a total order. A `BTreeMap` keyed by
   `WitnessOrd` therefore merges two distinct witnesses mined in the same
   second.
4. **Decoded positions bypass `new`** (`seal.rs:240`, run `decoded_height`).
   The derived `StrictDecode` and `Deserialize` accept height 0, and
   `height()` then panics on `expect("invariant")`. Spec §7 says the core
   never panics on input data.

## Proofs (checked by `tlapm`)

All proofs rest on the assumption `ConstantsAssumption` about the constants:

* the types of `Schema` and `TxLayer`;
* `NoTx` and `WitnessTx` lie outside `Txids`;
* the bounds are positive naturals;
* new assignments are well typed.

* `TypeCorrect`: `Spec => []TypeOK`. The proof has one step per action. It
  uses lemmas showing that the constructors, `WitnessInputs` and both conceal
  maps preserve the record types, plus `SequenceTheorems` for `Append`/`EXCEPT`.
* `ConcealKeepsStateValidHolds` (`ConcealProofs`): `Spec =>
  ConcealKeepsStateValid`. This is an action property, proved from
  `TypeCorrect` through `TypeOK /\ [Next]_vars => [P]_vars`.
  * Lemma `StepKeepsStateValid` has one case per action.
  * Creation steps and `Mine` leave every existing node as it is
    (`Append` / `UNCHANGED`).
  * A conceal step replaces one node by its concealment. Lemma
    `ConcealNodeKeepsValid` shows that this keeps every assignment
    accepted, under any node id:
    * concealing keeps the state strategy;
    * a newly concealed Pedersen state carries a range proof that
      verifies (`ConcealKeepsNoFailure`);
    * the node id passed to `StateSchema::validate` only labels failures
      (`FailuresIgnoreNodeId`). This matters because a conceal changes
      the node's id.

`WitnessOrderingProofs` proves the following from
`WitnessOrderingAssumption` (txids and timestamps are integers, heights
are naturals). The assumption is all the proofs need about the constants.

* `WitnessIdOrderTotalHolds`: `Spec => []WitnessIdOrderTotal`. The
  property is a statement about the held ids. It follows from the inductive
  invariant `HeldInv`, that every held id is a `WitnessId`, and from lemma
  `WidLeqTotal`: `Ord for WitnessId` is a total order on any set of
  `WitnessId`s, shown case by case over the layers (`WidLeqCases`).
* `WitnessPosCmpIgnoresHeight` states the ord_eq finding for every
  instance. Any two distinct heights at one timestamp give positions that
  compare `Equal` both ways and yet differ. So the total-order law fails
  whenever two such positions are held.
* `ResolvedHeightNonZero`: `with_mempool_or_height` never produces an
  `OnChain` height of 0. The decoded_height panic therefore needs a
  decoded value.

Every invariant and every action property of the passing runs is now
proved for all values of the constants. Only TLC checks these:

* the violations: a counterexample is a TLC result, and for ord_eq the
  theorem above states it in general;
* properties of the validator's `Valid`, which quantifies over sets of
  nodes and is used only in violation runs.

There is no refinement: an earlier abstract specification of single-use
seals only restated that the chain spends an outpoint once, so it was
dropped. The validator's double-spend check is modelled in `SealClosed`
and exercised by the conceal run.

There is no liveness to prove. No fairness is assumed, because no
component promises progress.

## Not modelled, and the plan

Not modelled:

* Formatting and parsing (`Display`, `FromStr`, Baid58).
* Metadata, scripts and schema checks other than state types.
* Duplicate output numbers in `ParentOwnedRights`: the model's references
  are sets, while the code's `TinyVec` keeps duplicates, which the spec
  forbids and nothing in `src/` rejects.
* `parent_outputs`, which panics for genesis and extensions.

Planned next:

1. Reorganisations: the resolver moving a witness back to `OffChain`.
2. Bags of parent references and value conservation.
3. Further proofs: properties of `Valid` over the ancestry of a node.

# TLA+ specification of the Bitcoin light client

The repository is a light client for Bitcoin, Litecoin, Dogecoin and Zcash: a
NEAR contract (`contract/`) that keeps a chain of block headers and answers
whether a transaction is included in it, and a relayer (`relayer/`) that brings
the headers from a node of the network. This directory holds TLA+ models of both,
the TLC runs that check them on small instances, and TLAPS proofs, for every
instance, of the contract's storage invariants, of its upgrade, that it
implements an abstract chain, that its time moves forward, of the relayer's
place in the chain, of the 256-bit arithmetic and of the Merkle proofs.

## 1. Inventory

| component | state | operations | correct if |
|---|---|---|---|
| Contract storage (`contract/src/lib.rs`) | `mainchain_height_to_header`, `mainchain_header_to_height`, `headers_pool`, tip and initial hash, pause flags, roles, storage balance | `init`, `submit_blocks`, `run_mainchain_gc`, `verify_transaction_inclusion`(`_v2`), views, pause | the main chain is one heaviest path; reorganisations and GC never tear it; storage is paid for; a confirmed block is buried |
| Upgrade (`mod migrate` of `lib.rs`) | the deployed code, the layout of `STATE` | deploy, `migrate` | no block is lost, calls in between and a second `migrate` included |
| Header rules (`bitcoin.rs`, `litecoin.rs`, `dogecoin.rs`, `zcash.rs`, `utils.rs`, `network.rs`) | none (they read the storage) | `check_pow`, `get_next_work_required`, `calculate_next_work_required`, `get_median_time_past` | a header is accepted exactly if the network's rule, on the header's own ancestors, accepts it |
| Merged mining (`dogecoin.rs`, `btc-types/src/aux.rs`) | none | `check_aux`, `get_expected_index` | mined headers pass; a parent block proves one header |
| 256-bit arithmetic (`btc-types/src/u256.rs`, `utils.rs`) | none | add, subtract, multiply by a word, divide, shift, invert, compact form | equal to integer arithmetic, overflow reported |
| Merkle proofs (`merkle-tools/src/lib.rs`) | none | calculate a proof, compute a root | calculated proofs are accepted and prove nothing else |
| Relayer synchroniser (`relayer/src/main.rs`) | next height, in memory only | fetch in parallel, skip check, sign, submit in parallel, look for the common block | no header skipped; the contract catches up with the node |
| Batch sizer (`adaptive_batch.rs`) | current batch size | `on_success`, `on_gas_exceeded` | batches fit in the gas |
| NEAR client (`near_client.rs`) | none | sign with nonces, send, wait with a timeout, read the outcome, views | failures are told apart as the synchroniser needs |
| Bitcoin client, configuration, header types, hashing, serialisation | none | RPC, parsing, byte layouts | what a node serialises arrives unchanged: modelled for the 80 byte header and its merged-mining proof only |

How they interact. The relayer asks its node for headers of its best chain,
splits them into batches and sends each batch as a NEAR transaction calling
`submit_blocks`. The contract extends its main chain, stores a fork header, or
reorganises; a failing call is undone as a whole by NEAR. The contract's answer
(`PrevBlockNotFound`, gas exceeded, another error) and two views tell the relayer
where to go on. Users call the inclusion views; an operator pauses features.

What is hard. `reorg_chain` rewrites three maps in a loop that may panic or run
out of gas. Fork headers stay in the pool while the main chain under them is
removed by later reorganisations and by GC. The retargets look up main chain
blocks by height. The relayer's tasks run in parallel, on a node that reorganises
and on views of final blocks, which lag; transactions are lost, late, executed
after they were given up, and out of order; the process may be killed at any time.
`PROJECT.json` lists each of these hazards with its line and its properties.

## 2. Modules

```
HeaviestChain               what the contract promises
LightClient                 implements it         <- MCLightClient
  Upgrade                   the contract and new code
  + U256 -> PowRules        shared by the coins
       Bitcoin Litecoin Dogecoin Zcash            <- MCBitcoin MCLitecoin MCDogecoin MCZcash
  Relayer                   composed with it      <- MCRelayer
U256                        arithmetic            <- MCU256 MCCompact
MerkleTools -> AuxPow       proofs, merged mining <- MCMerkleTools

LightClientProofs <- HeaviestChainProofs
  HeaviestChainProofs, Relayer              <- RelayerProofs
  HeaviestChainProofs, Upgrade, coins       <- DeploymentProofs
  DeploymentProofs, U256Lemmas              <- NetworkProofs
U256 <- U256Lemmas; it, MCU256, MCCompact   <- U256Proofs
MCMerkleTools                               <- MerkleProofs
```

MCDogecoin extends both Dogecoin and Upgrade.

Definitions have the names of the functions they model; `PROJECT.json` ("map")
gives the lines of each. A definition just before another one whose name it
extends (`gc_amount_whole_batch` before `gc_amount`) is a faulty variant of it, and
`PROJECT.json` ("mutants") says which property refutes it.

### LightClient

A header is named by its hash; `Prev`, `Work` and the other fields are constant
functions of the hash. `saved` is the storage NEAR keeps, `db` the storage as the
running call sees it. A call takes one step per header and one per iteration of the
loop in `reorg_chain`:

| action | code |
|---|---|
| `init` ... `FinishInit` | `init`, `init_genesis`, which submits the other headers without checking their proof of work |
| `submit_blocks` ... `FinishSubmit` | `submit_blocks`; the end is `run_mainchain_gc` and the deposit check, in this order |
| `ExtendMainchain`, `StoreFork`, `StartReorg` | the three outcomes of `submit_block_header_inner` |
| `WalkFork`, `FinishReorg` | the loop of `reorg_chain` and the new tip |
| `run_mainchain_gc` | the public GC call |
| `Panic`, `GasExceeded` | every panic of the code above, and the gas limit at any step: `db` is `saved` again |
| `Pause`, `Unpause`, `Tick` | pause flags between calls; time |

The coin's check is the constant operator `CheckTarget`; the proofs hold for every
one. The network itself is described by `NetHeight` and `NetWork`, the height and
the accumulated work of every header, which the contract does not know. `balance` is
the sum of the deposits kept, in bytes of storage.

### HeaviestChain and Upgrade

HeaviestChain is the contract seen from outside: one variable, the block known at every
height. It is empty, starts at genesis, and then moves in single steps from one chain
of parent links to another whose tip is the same or has more work; at the bottom it
forgets only blocks of that same branch, and keeps `gc_threshold` of them. LightClient
instantiates it with `chain <- saved.height_to_header`; `ImplementsHeaviestChain` is its
specification under that mapping. A call of many steps, with its forks, its
reorganisation and its collection, is one step there, and a failed call none.

Upgrade adds the deployed code and the layout of the stored `STATE` record. `Call` is any
step of LightClient while code and layout fit, and fails otherwise; `DeployCode` replaces
the code; `migrate` rewrites the fields, or leaves a record that is in the current
layout alone. The code of the earlier build is not in the repository: it is taken
to serve the same calls.

### PowRules, Bitcoin, Litecoin, Dogecoin, Zcash

Each coin module defines `check_pow` on the contract's storage, and an independent
reading of the network's rule on the header's own ancestors, `IsValid`. Its configuration
gives the constants `CheckTarget` and `NetworkAccepts` these two as values and runs the whole
contract; PowRules compares them (`TipChildJudgedByNetwork`, `EveryChildJudgedByNetwork`). A lookup that panics yields no bits, so that
the header is refused.

### U256, MerkleTools and AuxPow

The two limbs of a `U256` and the bytes of the compact form keep their structure;
their widths are constants (6 or 14 bits for 128, 2 bits for 8), so that every carry,
sign and limb border is met. Hashes of the Merkle tree are symbolic pairs, that is,
SHA-256 is taken to be injective.

In AuxPow a hex string is a sequence of tokens (a hash, a number, the merged mining
header), each with its width, and positions in it are sums of widths, so that the
slices of `check_aux` fall where they fall in the code. Digits that no single token
covers are read as 0. `get_aux_block_header` and `get_aux_data` carry the proof from the
node's answer to the contract's argument. Scrypt is opaque: whether a header meets a
target is decided by its nonce. The index generator keeps 15 of its 32 bits, on which
it agrees with the code for trees of up to 2^15 chains.

### Relayer

The loop of `sync` with its tasks. `at` is the place in the loop, `tasks[i].state` the
place of a submission: `pending`, the answer, then for a missing parent or gas the
three parts of `get_last_correct_block_height` (`tip`, `compare`, `hashes`). Nonces
are counted from the access key's. `orphans` are transactions that were sent and
given up after a timeout or a crash and may be executed later. `final` is the storage
the views read; it follows `saved` in steps of its own. The contract under it is
LightClient with all its steps. A header burns `HeaderGas` and an iteration of the walk
back `WalkGas`; a call that would burn more than the gas attached fails there, in the
middle of a reorganisation if need be, and what a call burnt goes to the batch sizer.
Nobody observes the inside of a call, so the relayer
moves only between calls, which leaves every order of what it can observe.

## 3. Runs

Each run is `tlc -config <run>.cfg <module>`; times are for two workers.

| run | states | shows |
|---|---|---|
| MCLightClient | 108,280 (80 s) | all safety, action and liveness properties of the contract, and that it implements HeaviestChain |
| MCRelayer | 93,379 (35 s) | `NeverAhead`, `CatchesUp` |
| MCStrandedFork (module MCRelayer) | violation | a reorganisation can strand a fork (finding 1) |
| MCBitcoin, MCLitecoin | 44,447, 29,198 | `TipChildJudgedByNetwork`, `MedianTimeNeverDecreases` |
| MCDogecoin | 17,461 (30 s) | the same, and `MainchainIsPath`, across an upgrade at any time |
| MCZcash | 8,271 (75 s) | `EveryChildJudgedByNetwork`, `MedianTimeNeverDecreases` |
| MCDogecoinFork (module MCDogecoin) | violation | a retarget on a fork (finding 2) |
| MCU256 | 69,632 | every operation on every value against integers |
| MCCompact | 7,680 | every compact target times every span, and its compact quotient |
| MCMerkleTools | 67,329 (95 s) | proofs of blocks of one to nine transactions; merged mining |
| MCTxPosition (module MCMerkleTools) | violation | the claimed position (finding 3) |

Properties of the contract (LightClient):

- `MainchainIsPath`: the two main chain maps are inverse, and describe one path of
  parent links from the initial block to the tip, every block of it in the pool.
- `TipIsHeaviest`, `PoolMatchesNetwork`: no stored header outweighs the tip; stored
  heights and work are the true ones, whatever the order of submission.
- `ReorgTearsOnlyAtCursor`: in the middle of `reorg_chain` the maps are the old chain
  below and the fork above the cursor, torn nowhere else.
- `ImplementsHeaviestChain`: the committed chain moves as HeaviestChain allows, so the tip
  never moves on a tie, or back, or by a part of a call.
- `MainchainLosesOnlyOldOrOutweighed`: a block leaves the chain only buried under
  `gc_threshold` others, or because a heavier tip does not descend from it.
- `ConfirmedIsBuried`: confirmations count real blocks of the network on top.
- `GCNeverPanics`: as GC ends every `submit_blocks`, a state where it panics would
  refuse every further block.
- `StorageIsPaidFor`; `OrderedBatchNeverStrands` (an ascending batch from the main
  chain is never stranded); `CallEnds`.

Of merged mining: `MinedProofAccepted` (a header mined in a slot of a chain tree, of any
height, nonce, parent and script form, passes from the node's bytes through the relayer
to `check_aux`), and `OneHeaderPerParent` (no coinbase script, however its roots, sizes and
markers are arranged, proves two headers of the chain; since the set of used parent
blocks was dropped from the contract, nothing else prevents it).

Of the relayer: `NeverAhead` (between iterations the next height is at most one above
a header the contract holds, in spite of parallel stores of it), and `CatchesUp` (once
the node stays on a block higher than its others, the contract gets there).

### Bounds

- MCLightClient: 13 headers on three branches, chosen so that a heavier fork is
  shorter than the main chain (heights are trimmed), a fork branches off a fork's
  parent that is later removed, two branches tie, one header has no known parent, one
  no proof of work and one exceeds the largest work. All single headers, all
  parent-child pairs, and batches in wrong orders are submitted, with and without a
  sufficient deposit; `gc_threshold` 4 is shorter than the longest chain, and an
  initial chain may already exceed it.
- Coin runs: networks of 18 to 23 headers with at least two retargets on each of two
  branches, negative time differences, a minimum difficulty block where the coin has
  them, the target limit, and headers that break one rule each. MCDogecoin starts with
  the earlier build, so that the code is replaced before `init`, or on any chain.
- MCMerkleTools: every coinbase script of up to five tokens, which is one more than the
  longest honest one (header, root, size, nonce), so that a second root or a second
  marker fits; chain trees with one and with both of two Dogecoin headers; for
  `MinedProofAccepted` trees of up to eight chains and nonces far apart, on both sides of a
  wrap.
- MCRelayer: two faults (failed requests, timeouts, late or overtaken transactions,
  crashes in any combination), a node that reorganises from one branch to another
  while headers are fetched, batches of two whose headers and walk back do not fit in
  the gas and so halve, and two transactions in parallel. The system may stop once the
  contract has caught up, so deadlock is not checked. The gas is in units of a Tgas:
  `HeaderGas` 160 and `WalkGas` 40 of 300. `CatchesUp` needs that the size the sizer
  chooses after fork headers also fits with the reorganisation: see section 5.
- MCStrandedFork: no faults at all; four node tips on three branches.
- MCU256 and MCCompact: all values of two 6-bit limbs; all compact targets of 14
  sizes. MCCompact keeps the relation of the widths the code relies on
  (`SpansAssumption`): the product of mantissa and time span is at most one bit longer
  than half a limb.

### Fairness

LightClient: weak fairness of `Step`: NEAR goes on with a call it has started. The
relayer: weak fairness of the relayer's own steps (tasks of tokio are scheduled, a
request is answered or fails), of NEAR executing a transaction it has received and
going on with it, and of finality following execution. No fairness for the node, for
faults, or for given up transactions. A restart follows a crash.

## 4. Proofs

| module | theorem | property |
|---|---|---|
| LightClientProofs | `TypeCorrect` | `TypeOK` |
| | `MainchainTheorem` | `MainchainIsPath` |
| | `HeaviestTheorem` | `TipIsHeaviest` |
| | `PoolTheorem` | `PoolMatchesNetwork` |
| | `ReorgTheorem` | `ReorgTearsOnlyAtCursor` |
| | `PaidTheorem` | `StorageIsPaidFor` |
| | `GCTheorem` | `GCNeverPanics` |
| HeaviestChainProofs | `RefinementTheorem` | `ImplementsHeaviestChain` |
| | `ConfirmedTheorem` | `ConfirmedIsBuried` |
| | `LosesTheorem` | `MainchainLosesOnlyOldOrOutweighed` |
| | `BatchTheorem` | `OrderedBatchNeverStrands` |
| DeploymentProofs | `UpgradedMainchain` | `MainchainIsPath`, of `UpgradeSpec` |
| | `UpgradeImplements` | `ImplementsHeaviestChain`, of `UpgradeSpec` |
| | `MedianTheorem` | `MedianTimeNeverDecreases` |
| | `UpgradedMedian` | the same, of `UpgradeSpec` |
| NetworkProofs | `BitcoinTheorem` | `TipChildJudgedByNetwork` of Bitcoin |
| | `LitecoinTheorem` | the same of Litecoin |
| | `DogecoinTheorem` | the same of Dogecoin |
| | `ZcashTheorem` | `EveryChildJudgedByNetwork` of Zcash |
| RelayerProofs | `NeverAheadOfWorkTheorem` | `NeverAheadOfWork` |
| | `NeverAheadTheorem` | `NeverAhead`, where higher headers have more work |
| U256Proofs | `AddSubTheorem` | `AddSubExact` |
| | `DivTheorem` | `DivExact` |
| | `ShiftTheorem` | `ShiftsExact` |
| | `MulTheorem` | `MulCarryBounded` |
| | `InverseTheorem` | `InverseExact` |
| | `ScaleTheorem` | `TargetScaledExactly` |
| | `RetargetTheorem` | `RetargetIsCompactQuotient` |
| | `StableTheorem` | `CompactFormIsStable` |
| MerkleProofs | `CalculatedTheorem` | `CalculatedProofAccepted` |
| | `OnlyItsTransactionTheorem` | `ProofProvesOnlyItsTransaction` |
| | `IndexTheorem` | `IndexAgreesOnProofBits` |
| | `OneHeaderPerCoinbase` | `OneHeaderPerParent`, for any headers and proofs |
| | `OneHeaderTheorem` | `OneHeaderPerParent` |
| | `MinedTheorem` | `MinedProofAccepted` |

### The contract

The proofs hold for every network, coin check, threshold, deployment and set of
batches allowed by the assumptions of LightClient. These say that headers are finite in number, that work is positive and that
height and work grow along `Prev` as in any network of headers; they are named in
LightClient and TLC evaluates them in every run of the contract.

The inductive invariant is `Inv = TypeOK /\ SavedInv /\ WorkingInv /\ StorageIsPaidFor`.
`SavedInv` says that the committed storage is sound (`IsPath`, `IsHeaviest`, `IsTrue`)
once there is one. `MainchainIsPath` alone is not inductive for three reasons. The next
commit comes from `db`, so `WorkingInv` says the same of `db` outside a reorganisation.
Inside one, `db` is torn: `MidReorg` states exactly how. And the walk of `reorg_chain`
stops at the first main chain block it meets; that the fork joins the old chain there,
at the height below, follows only because stored heights are the network's
(`IsTrue`), so that a height has at most one block of each path. That the tip is the
heaviest carries `fork_wins` through a reorganisation. There is one lemma per storage
operation (`StoreBlockFields`, `RemoveHeightsFields`, `PromoteFields`), one per
transition of the storage (`ExtendSound`, `ForkSound`, `StartReorgMid`, `WalkMid`,
`FinishReorgSound`, `GcSound`, `GenesisSound`) and one per action.

The refinement needs more than `Inv`, which speaks of the storage at one moment, whereas a
step of HeaviestChain relates the chain committed before a call to the one after it.
`LinkInv` bridges the steps of the call: while it runs, the chain in `db` starts at the same
initial block as the one in `saved`, its tip is the same or has more work, and inside a
reorganisation the fork's tip has more. `HeaderStepLink` shows that no header breaks it,
`GcAdvances` that the collection at the end of the call raises the bottom by blocks of
the new chain only, and `NextImplements` that the commit is a step of HeaviestChain and
everything else a stutter. Ancestors are defined by a recursive function, which would need
induction; `SetInduction` states induction on the naturals as membership in a set, and
`ChainAncestor` uses it to read ancestors off a chain. For `ConfirmedTheorem` the same
induction shows that every header has ancestors of every order (`LineExists`) and that
the n-th is n lower (`AncestorHeight`): below the initial block the contract knows nothing,
and a block that was displaced must not reappear there. `ChainLength` bounds a chain by
the number of headers, as heights make it injective. For the upgrade, `MigratedSound` shows
that the record `migrate` writes is as sound as the one it reads, so that `Inv` and `LinkInv`
carry over.

`BatchTheorem` needs to know, between the headers of a batch, that a walk back still finds
its way. `BatchInv` says: while an ascending batch that starts on the main chain is under
way, the block it starts on stays on the main chain, the headers done so far are in the
pool, and a walk is at one of them or at that block. A reorganisation, which strands
forks stored earlier, removes only blocks above that block that are not of the batch.

### Time

`MedianTheorem` is about the contract built for a coin: `BuiltForACoin` says that
`CheckTarget` accepts only what `check_pow` of Bitcoin, Litecoin, Dogecoin or Zcash accepts,
and for Zcash that the averaging window is no shorter than the span of the median (17
and 11 blocks in the code). The proof of work must not be switched off
(`skip_pow_verification`). The property speaks of blocks on the
main chain, but a fork block is checked when it is stored and may join the main chain
much later, when other blocks are gone. `PoolInv(Verified)` therefore says of every header in
the pool that it came with `init` or is later than the median of its own ancestors,
which is a fact about the network and not about the storage, so that nothing that
happens to the storage afterwards can end it. In general, a set of headers is `Closed` if
it has the headers of `init` and whatever the check accepts on stored headers of the set;
`NextPool` shows that the pool then stays in it. To get there, `WalkIsAncestors` shows
that `get_prev_header`, called n times without a panic, goes through the header's own
ancestors, and `MedianAgrees` that the element in the middle of the sorted times is the
network's median. That a later time, put before the others while the earliest block
drops out, does not lower the median is `MiddleMoves`, by an injection between the
blocks no later than it.

### The rules of the network

`TipChildJudgedByNetwork` says that the contract refuses no valid block on its tip, and
accepts no other: were a block that a retarget reads collected, or a carry lost, the chain
would stop for good. The proof has three parts, and its invariant `LongInv` one conjunct
for each.

The blocks are there. `TallInv` says that the tip is at least `MEDIAN_TIME_SPAN` above
genesis: the check of a header walks that far back, so that no lower one is accepted
(`AcceptedIsTall`), and `init` insists on more blocks. `KeptInv` says what GC has left: the
chain starts at genesis, or it, or one that had no more work than the present one, once
went `gc_threshold` blocks up from the same start. A later reorganisation may have made it
shorter. How much shorter is not a matter of the contract: the hypothesis `KeepsBlocks(n)`
says of the mined headers of the network that a chain with more work than another is not
so much lower that fewer than n blocks remain. `KeptDepth` concludes that n blocks before
the tip are stored, or all from genesis on; in the second case an interval is complete
because `init_requires` makes genesis start one (`BitcoinDepth`, `LitecoinDepth`).

They are the right ones. `TipReads`: both ways to look up a block, by height and by
walking back, find the tip's own ancestor. `RegularIs` shows that the walk for the last
regular bits of a testnet ends in the storage, at the block the rule names.

What is computed from them is right. `PoolInv(Limited)` says that every stored header's
target is within the limit: each check keeps it so (`BitcoinLimited`, `LitecoinLimited`,
`DogecoinLimited`). Then the product of target and time span fits and loses no carry
(`ProductIs`), and the compact form of the quotient is the rule's (`RetargetIs`). For Litecoin,
`NeedsShift` shows that counting bits tells the targets above half the limit, which it halves
before the product, and `ShiftedProduct` that halving keeps the shape of a target that
makes the product exact.

The hypotheses say what a deployment and its network provide, beyond the code: headers of
`init` that follow each other (`InitIsChain`), a chain that keeps enough blocks
(`KeepsBlocks`), a limit that the given bits respect (`LimitHolds`), and widths that leave room
for a product (`Scales`, `ScalesShifted`: for Bitcoin a limit of 224 bits, spans of 23 bits and
mantissas of 23 bits, in a type of 256). They are defined in PowRules, and each coin's MC
module assumes them of its network, so that TLC evaluates them in the run that checks the
property. Litecoin's rule is that of its main network, and Dogecoin's that of the heights where
every block retargets, as in the properties.

For Zcash `EveryChildJudgedByNetwork` says more: the retarget walks back from the parent, so
that children of every stored header whose ancestors are stored are judged rightly, on forks too.
The blocks of the averaging window and of the median before it are stored with them
(`ZcashReadsBack`), the sum of the targets of the window never overflows, as each is within
the limit (`SumBounds`, `TotalIs`), and the mean is its exact quotient (`MeanIs`). The mean is no
shifted mantissa, so that the product with the damped time span may lose a carry, as
`MulCarryBounded` allows. At the code's widths that takes some fifty ones in a row in the
product (about one window in 2^53), but no rule excludes it. `WindowsScale` therefore says, besides
the sizes, that no window of the network loses its carry, in terms of the network's own
mean and time span. TLC evaluates it, like the others, in MCZcash.

### The relayer

`RelayerInv` adds to the invariants of the contract what each place of the loop and each
task knows. A height is *reached* if it is at most one above a header that has no more
work than the tip. `CallInv`: the headers of the call under way that are done are
such headers. `FinalInv`: the storage the views read was a state of the contract, whose
tip has not lost work since. `FetchInv`: a fetched header has the height it was fetched
for. `TaskInv`: the last header of a batch that succeeded, and the tip a lookup of the
common block has read, have no more work than the tip. `RunInv` ties the call under way to its task, and `PhaseInv` says that the next
height is reached wherever the loop stands. As work of the tip never decreases, what
was reached stays so, whatever other tasks, late transactions, and restarts do: hence no
order of the parallel stores matters.

`NeverAheadOfWork` follows without any assumption on the network. `NeverAhead` speaks of
heights instead, and needs `HigherIsHeavier`: any higher header has more work, as in a
network of equal targets (MCRelayer's). Without it a late answer can leave the relayer
ahead for an iteration: two batches of one fetch are on different branches, as the node
changed between the requests; the first is executed, the second makes the contract
reorganise to a heavier but lower branch, and the answer to the first is stored last.
The next submission is then answered with `PrevBlockNotFound`, which sends the relayer back to
the common block.

### Arithmetic and Merkle proofs

The states of MCU256 are all pairs of operands, so its invariants are statements about the
operators, as are those of MCCompact, and the theorems hold for every even limb width and
every byte width that divides the type's. The lemmas go from division
(`DivModUnique`) and the value of two limbs (`ValOf`, `NumberLimbs`) to one lemma per
operation. `Dividing` is the loop invariant of `div_rem`, and `DivRound` shows that a round of the
loop keeps it: the quotient so far times the divisor,
plus the remainder so far, is the dividend, and the remainder is below the shifted
divisor. `MulCarryBounded` says what the code does, which is not an exact product for every
operand: the carry is computed from one half of the low limb only. For the products of
the code it is exact all the same (`ScaledExact`): a target is a mantissa, shifted. If it is
shifted by half a limb or more, the half that the carry ignores is zero; if by less, and
if the mantissa times the time span is at most one bit longer than half a limb
(`SpansAssumption`; 46 bits and 64 in the code), there is no carry.

That `target_to_bits` computes the compact form by its definition (`ToBitsExact`: the least
size that leaves the sign bit clear) takes that the number of bytes, rounded up from the bits,
is that size or one less (`BytesOfBits`), that the first mantissa has the sign bit set
exactly in the second case (`FirstMantissa`), and that dropping a byte of it is rounding the
number itself (`NextMantissa`).

In MerkleProofs, `LevelsAreNodes` identifies the rows that `merkle_proof_calculator` computes with the nodes of
the definition of a tree, `ClimbsAncestors` shows that the proof leads from a leaf through its
ancestors to the root, and `ClimbsMeet` that two computations with the same proof and the
same result were together all the way, as hashing is injective. Hence a proof
fits one leaf only, and an index only in the bits that matter.

For merged mining `OneHeaderPerCoinbase` says that `check_aux` accepts two headers with one
coinbase only if they are the same. The contract does not remember which parent blocks
have served, so all depends on the script. `OneRootInPlace`: tokens do not overlap
(`PositionsGrow`), so the only marker is followed by one root, and without a marker no two roots
of 64 digits start in the first 40. Size and nonce are read behind that root: both headers have proofs of
the same length (`PowersDiffer`) for the same slot, and `OneLeafPerPlace` shows that these lead to one
root from one leaf only. `OneHeaderPerParent` is an instance. In the other direction,
`MinedAccepted` follows an honest proof through the whole path: `HeaderBytes` (a header is read as
it was written), `EndReads` (root, size and nonce are found where they were written),
`SlotExpected` (arithmetic modulo a word gives the slot of the tree), `PowerHeight` (the proof is
as long as the size says) and the lemmas on calculated proofs. It admits the heights up to 30
that `check_aux` admits; `MinedProofAccepted` is the part that TLC can evaluate.

### Induction and powers

The prover's induction theorems take a predicate, which cannot be instantiated here.
Induction is used as a statement on sets instead (`SetInduction`, `NatSetInduction`,
`InductionOnNat`: a set that has 0 and with every number the next one has them all), and
a recursive function is shown to exist and to satisfy its equation before it is used
(`LineExists`, `WalkExists`, `DoublesExist`, `HalvingsExist`, `LevelsExist`, `ClimbExists`, `OffsetsExist`). Nothing is known of `^`,
so U256, MerkleTools and AuxPow define powers of two and repeated halving by such functions
(`Pow2`, `Halved`).

### Only model-checked

- Liveness (`CallEnds`, `CatchesUp`): the proof system does not cover it.

## 5. Findings

1. `reorg_chain` removes the displaced blocks and leaves the forks stored on them
   (`lib.rs:632`). With an honest relayer, no failure, and a node that changes branches
   three times, once in the middle of a parallel fetch, the walk back later meets a missing block ("previous fork block should be there") and
   the heaviest chain is refused until it is submitted again from the branching point.
   The relayer only logs this error (`main.rs:211`) and sends the same batch again; it
   looks for the common block only after a restart. An ascending batch that starts on
   the main chain is not affected (`OrderedBatchNeverStrands`).
2. The retarget of a Dogecoin header on a fork reads the main chain block at a height
   (`dogecoin.rs:292`), as a TODO there suspects; a valid fork header is refused. Children
   of the tip are judged rightly (`TipChildJudgedByNetwork`).
3. `verify_transaction_inclusion` ignores the bits of the position above the proof's
   length, though it is documented to check the claimed position.

Observed while modelling, without a run of their own: the comment at `lib.rs:107` says
the pool keeps all headers ever submitted, which reorganisation and GC do not;
`UnrestrictedSubmitBlocks` does not exempt its holder from a pause of
`run_mainchain_gc`, which ends every submission; one block more than the fetch size is
fetched (`main.rs:248`). And the batch size can go round in circles
(`adaptive_batch.rs:90`): with `HeaderGas` 100 and `WalkGas` 40 in MCRelayer, two fork headers
fit in a batch, which the cheap stores of single ones suggest; but the batch whose
second header starts the reorganisation does not. Its failure halves the size and
sends the lookup back to the start of the fork, where single headers succeed and let
the size grow again, and so on. TLC then refutes `CatchesUp`. In practice it takes a
reorganisation whose walk costs as much as the margin between the target budget and
the gas attached.

## 6. Not modelled, and the plan

Not modelled: the Zcash header layout, the JSON forms and the hash functions; RPC and
configuration, that is, input and output; the staking part of the trusted relayers (a
constant set), which is a plugin outside the repository; the Equihash solution, a
constant set; the earlier build's own code; the relayer's calls that verify a
transaction, which send one request and return the answer. `AuxPow` is not composed with
the contract: there a proof of work is a constant set of headers, as `check_aux` reads
nothing of the storage.

The order of the work was LightClient with its proofs first, as everything rests on it,
then the arithmetic and the coins, Merkle proofs and the relayer, then the abstract
specification, merged mining and the upgrade, then the proofs about relayer,
arithmetic, Merkle proofs and time, and last those about the networks' rules and merged
mining. What is left is to compose AuxPow with the contract, and, for Litecoin and
Dogecoin, the rules of the networks and heights that their `IsValid` leaves out.

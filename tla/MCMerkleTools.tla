--------------------------- MODULE MCMerkleTools ---------------------------
(***************************************************************************)
(* Two grids joined at their first state.  Blocks of up to MaxTx           *)
(* transactions, every transaction of each and every claimed index up to   *)
(* MaxIndex: a step changes one of the three.  And the coinbase scripts of *)
(* up to MaxScript tokens a parent block may have: a step appends one, a    *)
(* full script starts over.                                                *)
(***************************************************************************)
EXTENDS AuxPow

CONSTANTS MaxTx, MaxIndex, MaxScript

ASSUME GridAssumption == MaxTx \in Nat \ {0} /\ MaxIndex \in Nat /\ MaxScript \in Nat

VARIABLES n, position, index, script

vars == <<n, position, index, script>>

-----------------------------------------------------------------------------
(***************************************************************************)
(* Headers a, b of Dogecoin and c of a chain mined with it; chain trees    *)
(* that hold one or both of a and b, and the tokens of a script.           *)
(***************************************************************************)
HeaderOf(chain_id, root, nonce) ==
  [version |-> chain_id * 65536 + 256, prev_block_hash |-> <<"prev">>,
   merkle_root |-> root, time |-> 7, bits |-> 5, nonce |-> nonce]

a == HeaderOf(aux_chain_id, <<"a">>, 6)

b == HeaderOf(aux_chain_id, <<"b">>, 6)

c == HeaderOf(aux_chain_id + 1, <<"c">>, 6)

Trees == {<<a>>, <<b>>, <<a, b>>, <<c, a, b, c>>}

Leaves(tree) == [i \in DOMAIN tree |-> block_hash(tree[i])]

MergedMiningHeader == Token("MERGED_MINING_HEADER", 0, 8)

Root(tree) == Token("hash", MerkleRoot(Leaves(tree)), 64)

Number(v) == Token("number", v, 8)

ScriptTokens ==
  {MergedMiningHeader, Token("number", 0, 2)} \cup {Number(v) : v \in {1, 2, 4}}
    \cup {Root(tree) : tree \in Trees}

\* A parent block of m transactions with this coinbase; its hash meets the
\* targets of a and b, which their own do not.
Parent(scriptSig, m) ==
  LET txids == [i \in 1 .. m |-> IF i = 1 THEN compute_txid(scriptSig) ELSE <<i>>]
  IN  [header |-> HeaderOf(0, MerkleRoot(txids), 5),
       branch |-> merkle_proof_calculator(txids, 0)]

\* The proof that tree[i] was mined with that parent.
Aux(tree, i, scriptSig, m) ==
  [coinbase_tx |-> scriptSig, merkle_proof |-> Parent(scriptSig, m).branch,
   chain_merkle_proof |-> merkle_proof_calculator(Leaves(tree), i - 1), chain_id |-> i - 1,
   parent_block |-> Parent(scriptSig, m).header]

-----------------------------------------------------------------------------
Init == n = 1 /\ position = 0 /\ index = 0 /\ script = <<>>

NextBlock ==
  script = <<>> /\ n' = (n % MaxTx) + 1 /\ position' = 0 /\ UNCHANGED <<index, script>>

NextPosition ==
  script = <<>> /\ position' = (position + 1) % n /\ UNCHANGED <<n, index, script>>

NextIndex ==
  script = <<>> /\ index' = (index + 1) % (MaxIndex + 1) /\ UNCHANGED <<n, position, script>>

NextToken ==
  /\ <<n, position, index>> = <<1, 0, 0>>
  /\ IF Len(script) = MaxScript THEN script' = <<>>
     ELSE \E t \in ScriptTokens : script' = Append(script, t)
  /\ UNCHANGED <<n, position, index>>

Next == NextBlock \/ NextPosition \/ NextIndex \/ NextToken

Spec == Init /\ [][Next]_vars

txs == [i \in 1 .. n |-> <<i>>]

tx == txs[position + 1]

proof == merkle_proof_calculator(txs, position)

\* The proof the relayer's calculator makes for a transaction is accepted for
\* it, with the coinbase proof of the same block, in blocks of any shape but
\* those of a single transaction, whose empty proof is refused.
CalculatedProofAccepted ==
  n > 1 => proof_accepted_v2(MerkleRoot(txs), tx, position, proof,
                             txs[1], merkle_proof_calculator(txs, 0))

\* A proof made for one transaction proves no other one of the block, at any
\* index: what is accepted with it is the transaction itself.
ProofProvesOnlyItsTransaction ==
  \A i \in 1 .. n :
     proof_accepted(MerkleRoot(txs), txs[i], index, proof) => txs[i] = tx

\* An index is accepted only if it agrees with the true position in the bits
\* the proof reads, or is the position of the copy of a last odd hash.
IndexAgreesOnProofBits ==
  proof_accepted(MerkleRoot(txs), tx, index, proof) =>
    \A k \in 0 .. Len(proof) - 1 :
       \/ Halved(index, k) % 2 = Halved(position, k) % 2
       \/ Len(current_hashes(txs, k)) = Halved(position, k) + 1

\* "True if tx_id is at the claimed position in the block", and not otherwise.
ClaimedPositionIsReal ==
  proof_accepted(MerkleRoot(txs), tx, index, proof) => index = position

\* The slot that the two rounds of the generator choose for the chain in a tree
\* of height h.
Slot(nonce, h) ==
  LET round(r) == (r * Multiplier + 12345) % Word
  IN  round(round(nonce) + aux_chain_id) % Pow2(h)

\* A chain tree as merged miners build it for a nonce.
MinedTree(nonce, h) ==
  [i \in 1 .. Pow2(h) |-> IF i = Slot(nonce, h) + 1 THEN a ELSE c]

MinedScript(nonce, h, marked) ==
  LET root == Root(MinedTree(nonce, h))
      size == Number(Pow2(h))
  IN  IF marked
        THEN <<Token("number", 0, 2), MergedMiningHeader, root, size, Number(nonce)>>
        ELSE <<root, size, Number(nonce)>>

\* What a node answers for a header mined with such a parent.
MinedRaw(nonce, h, marked, m) ==
  LET s == MinedScript(nonce, h, marked)
      tree == MinedTree(nonce, h)
      i == CHOOSE j \in DOMAIN tree : tree[j] = a
  IN  <<get_block_header_vec(a), s, block_hash(Parent(s, m).header), Parent(s, m).branch, 0,
        merkle_proof_calculator(Leaves(tree), i - 1), i - 1,
        get_block_header_vec(Parent(s, m).header)>>

\* A header mined with another chain's block, as the node serialises it and
\* the relayer parses and converts it, passes check_aux: for chain trees of
\* any height, nonces on either side of a wrap, parents of any shape, and with
\* the merged mining header or without it.
MinedProofAccepted ==
  script = <<>> /\ position = 0 =>
    \A h \in 0 .. 3, marked \in BOOLEAN :
       LET got == get_aux_block_header(MinedRaw(index * 1637, h, marked, n))
       IN  pow_accepted(got.header, get_aux_data(got.aux))

\* One parent block proves the work of one header of the chain: no coinbase
\* script, however its roots, sizes and markers are arranged, lets check_aux
\* accept proofs for both a and b.
OneHeaderPerParent ==
  \A t, u \in Trees : \A i \in DOMAIN t, j \in DOMAIN u :
     (/\ t[i] = a /\ u[j] = b
      /\ pow_accepted(a, <<Aux(t, i, script, n)>>))
       => ~pow_accepted(b, <<Aux(u, j, script, n)>>)
=============================================================================

---------------------------- MODULE MerkleTools ----------------------------
(***************************************************************************)
(* Merkle proofs (merkle-tools/src/lib.rs), and the part of the contract's *)
(* verify_transaction_inclusion that evaluates them.                       *)
(*                                                                         *)
(* Hashes are symbolic: a transaction is a tuple of one element, the hash  *)
(* of two hashes is their pair.  Double SHA-256 is taken to be injective.  *)
(***************************************************************************)
EXTENDS Integers, Sequences

compute_hash(first, second) == <<first, second>>

\* A level of the tree with its last hash repeated to make the length even.
Padded(hashes) ==
  IF Len(hashes) % 2 = 1 THEN Append(hashes, hashes[Len(hashes)]) ELSE hashes

new_hashes(hashes) ==
  [i \in 1 .. Len(Padded(hashes)) \div 2 |->
     compute_hash(Padded(hashes)[2 * i - 1], Padded(hashes)[2 * i])]

\* current_hashes after k rounds of the loop.
current_hashes(tx_hashes, k) ==
  LET level[i \in 0 .. k] == IF i = 0 THEN tx_hashes ELSE new_hashes(level[i - 1])
  IN  level[k]

\* transaction_position after k rounds.
Halved(position, k) ==
  LET p[i \in 0 .. k] == IF i = 0 THEN position ELSE p[i - 1] \div 2 IN p[k]

\* The loop runs until one hash is left.
rounds(tx_hashes) ==
  CHOOSE k \in 0 .. Len(tx_hashes) :
     /\ Len(current_hashes(tx_hashes, k)) = 1
     /\ \A j \in 0 .. k - 1 : Len(current_hashes(tx_hashes, j)) > 1

merkle_proof_calculator_unpadded(tx_hashes, position) ==
  [k \in 1 .. rounds(tx_hashes) |->
     LET p == Halved(position, k - 1)
         hashes == current_hashes(tx_hashes, k - 1)
     IN  IF p % 2 = 1 THEN hashes[p]
         ELSE hashes[IF p + 2 > Len(hashes) THEN 1 ELSE p + 2]]

merkle_proof_calculator_itself(tx_hashes, position) ==
  [k \in 1 .. rounds(tx_hashes) |->
     Padded(current_hashes(tx_hashes, k - 1))[Halved(position, k - 1) + 1]]

\* The sibling of the transaction's ancestor on every level, counted from 0.
merkle_proof_calculator(tx_hashes, position) ==
  [k \in 1 .. rounds(tx_hashes) |->
     LET p == Halved(position, k - 1)
         hashes == Padded(current_hashes(tx_hashes, k - 1))
     IN  IF p % 2 = 1 THEN hashes[p] ELSE hashes[p + 2]]

compute_root_from_merkle_proof_left(transaction_hash, position, merkle_proof) ==
  LET current[k \in 0 .. Len(merkle_proof)] ==
        IF k = 0 THEN transaction_hash
        ELSE compute_hash(current[k - 1], merkle_proof[k])
  IN  current[Len(merkle_proof)]

compute_root_from_merkle_proof(transaction_hash, position, merkle_proof) ==
  LET current[k \in 0 .. Len(merkle_proof)] ==
        IF k = 0 THEN transaction_hash
        ELSE IF Halved(position, k - 1) % 2 = 0
          THEN compute_hash(current[k - 1], merkle_proof[k])
          ELSE compute_hash(merkle_proof[k], current[k - 1])
  IN  current[Len(merkle_proof)]

\* What verify_transaction_inclusion answers once the block is confirmed.
proof_accepted(merkle_root, tx_id, tx_index, merkle_proof) ==
  /\ merkle_proof # <<>>
  /\ compute_root_from_merkle_proof(tx_id, tx_index, merkle_proof) = merkle_root

\* What verify_transaction_inclusion_v2 adds: a proof of the coinbase.
proof_accepted_v2(merkle_root, tx_id, tx_index, merkle_proof, coinbase_tx_id, coinbase_proof) ==
  /\ Len(merkle_proof) = Len(coinbase_proof)
  /\ compute_root_from_merkle_proof(coinbase_tx_id, 0, coinbase_proof) = merkle_root
  /\ proof_accepted(merkle_root, tx_id, tx_index, merkle_proof)

-----------------------------------------------------------------------------
\* The Merkle root by definition: node i of level d is the hash of the two
\* nodes below it, the last node of an odd level serving twice.
MerkleRoot(txs) ==
  LET last(d) == Halved(Len(txs) - 1, d)
      height  == CHOOSE d \in 0 .. Len(txs) : last(d) = 0 /\ \A e \in 0 .. d - 1 : last(e) > 0
      node[d \in 0 .. height] ==
        [i \in 0 .. last(d) |->
           IF d = 0 THEN txs[i + 1]
           ELSE <<node[d - 1][2 * i],
                  node[d - 1][IF 2 * i + 1 <= last(d - 1) THEN 2 * i + 1 ELSE 2 * i]>>]
  IN  node[height][0]
=============================================================================

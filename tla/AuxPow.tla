------------------------------- MODULE AuxPow -------------------------------
(***************************************************************************)
(* Merged mining: the proof of work of a Dogecoin header found in the      *)
(* coinbase of another chain's block (check_aux of contract/src/           *)
(* dogecoin.rs), and how the relayer gets that proof from its node         *)
(* (bitcoin_client.rs) to the contract (near_client.rs).                   *)
(*                                                                         *)
(* Bytes and hex strings are sequences of tokens, each with its width; a   *)
(* position in a string is the sum of the widths before it.  Hashes are    *)
(* symbolic as in MerkleTools: the hash of a header is its bytes.          *)
(***************************************************************************)
EXTENDS MerkleTools, FiniteSets

CONSTANT aux_chain_id   \* of the DogecoinConfig

\* 0x0062 on both networks; 0 is the id of a parent chain that has none.
ASSUME ChainAssumption == aux_chain_id \in Nat \ {0}

Pow2(k) ==
  LET p[i \in 0 .. k] == IF i = 0 THEN 1 ELSE 2 * p[i - 1] IN p[k]

-----------------------------------------------------------------------------
(***************************************************************************)
(* Strings of tokens.                                                      *)
(***************************************************************************)
Token(kind, value, width) == [kind |-> kind, value |-> value, width |-> width]

Position(s, k) ==
  LET at[i \in 1 .. k] == IF i = 1 THEN 0 ELSE at[i - 1] + s[i - 1].width IN at[k]

len(s) == Position(s, Len(s) + 1)

\* The tokens of s that are this text, and where the first one starts; -1 is
\* None.
Occurrences(s, kind, value) == {k \in DOMAIN s : s[k].kind = kind /\ s[k].value = value}

find(s, kind, value) ==
  LET ks == Occurrences(s, kind, value)
  IN  IF ks = {} THEN -1 ELSE Position(s, CHOOSE k \in ks : \A j \in ks : k <= j)

\* The number spelt at from .. to - 1; digits that are not one number token
\* are taken to spell 0.
number_at(s, from, to) ==
  LET ks == {k \in DOMAIN s : /\ s[k].kind = "number"
                              /\ Position(s, k) = from
                              /\ s[k].width = to - from}
  IN  IF ks = {} THEN 0 ELSE s[CHOOSE k \in ks : TRUE].value

hash_at(s, from, to) ==
  LET k == CHOOSE i \in DOMAIN s : Position(s, i) = from
  IN  s[k].value

-----------------------------------------------------------------------------
(***************************************************************************)
(* Headers (btc-types/src/btc_header.rs).                                  *)
(***************************************************************************)
SIZE == 4 + 32 + 32 + 4 + 4 + 4

get_block_header_vec(h) ==
  <<Token("number", h.version, 4), Token("hash", h.prev_block_hash, 32),
    Token("hash", h.merkle_root, 32), Token("number", h.time, 4),
    Token("number", h.bits, 4), Token("number", h.nonce, 4)>>

from_block_header_vec(b) ==
  IF len(b) # SIZE THEN "InvalidLength"
  ELSE [version |-> number_at(b, 0, 4), prev_block_hash |-> hash_at(b, 4, 36),
        merkle_root |-> hash_at(b, 36, 68), time |-> number_at(b, 68, 72),
        bits |-> number_at(b, 72, 76), nonce |-> number_at(b, 76, 80)]

\* Double SHA-256 is taken to be injective: the bytes stand for their hash.
block_hash(h) == get_block_header_vec(h)

\* Whether the scrypt hash of a header is at most the target of bits.  Scrypt
\* is opaque: here the nonce decides, and more headers meet larger bits.
pow_hash_meets(h, bits) == h.nonce <= bits

\* version >> 16, which rounds down.
get_chain_id(h) == h.version \div 65536

-----------------------------------------------------------------------------
(***************************************************************************)
(* The relayer: from the node's answer to the contract's argument.         *)
(***************************************************************************)
\* getblockheader answers 160 hex digits, or the header with its proof; the
\* fields come one after the other.
get_aux_block_header(raw) ==
  [header |-> from_block_header_vec(raw[1]),
   aux    |-> IF Len(raw) = 1 THEN <<>>
              ELSE <<[coinbase_tx |-> raw[2], parent_block_hash |-> raw[3],
                      merkle_branch |-> raw[4], merkle_index |-> raw[5],
                      chainmerkle_branch |-> raw[6], chain_index |-> raw[7],
                      parent_block |-> from_block_header_vec(raw[8])]>>]

get_aux_data_swapped(aux) ==
  [i \in DOMAIN aux |->
     [coinbase_tx |-> aux[i].coinbase_tx, merkle_proof |-> aux[i].chainmerkle_branch,
      chain_merkle_proof |-> aux[i].merkle_branch, chain_id |-> aux[i].chain_index,
      parent_block |-> aux[i].parent_block]]

get_aux_data(aux) ==
  [i \in DOMAIN aux |->
     [coinbase_tx |-> aux[i].coinbase_tx, merkle_proof |-> aux[i].merkle_branch,
      chain_merkle_proof |-> aux[i].chainmerkle_branch, chain_id |-> aux[i].chain_index,
      parent_block |-> aux[i].parent_block]]

-----------------------------------------------------------------------------
(***************************************************************************)
(* The contract.                                                           *)
(***************************************************************************)
\* Only the low bits of a product reach the low bits of the next: where the
\* index is below Word, u32 arithmetic and arithmetic modulo Word agree on it.
Word == 32768

Multiplier == 1103515245 % Word

rand_step(rand) == (rand * Multiplier + 12345) % Word

get_expected_index(nonce, chain_id, merkle_height) ==
  rand_step((rand_step(nonce % Word) + chain_id) % Word) % Pow2(merkle_height)

\* A transaction is its input script; its hash is no hash of two hashes.
compute_txid(coinbase_tx) == <<"txid", coinbase_tx, 0>>

\* The merged mining header, if there is one, is the only one and just before
\* the root; without it the root is at the start of the script.
root_in_place_anywhere(script_sig, pos_chain_root) ==
  LET pos == find(script_sig, "MERGED_MINING_HEADER", 0)
  IN  pos # -1 => /\ Cardinality(Occurrences(script_sig, "MERGED_MINING_HEADER", 0)) = 1
                  /\ pos + 8 = pos_chain_root

root_in_place(script_sig, pos_chain_root) ==
  LET pos == find(script_sig, "MERGED_MINING_HEADER", 0)
  IN  IF pos # -1
        THEN /\ Cardinality(Occurrences(script_sig, "MERGED_MINING_HEADER", 0)) = 1
             /\ pos + 8 = pos_chain_root
        ELSE pos_chain_root <= 40

check_aux(block_header, aux_data) ==
  LET height == Len(aux_data.chain_merkle_proof)
      chain_root == compute_root_from_merkle_proof(
                      block_hash(block_header), aux_data.chain_id, aux_data.chain_merkle_proof)
      script_sig == aux_data.coinbase_tx
      pos_chain_root == find(script_sig, "hash", chain_root)
      end == pos_chain_root + 64
      n_nonce == number_at(script_sig, end + 8, end + 16)
  IN  /\ height <= 30
      /\ (block_header.version \div 256) % 2 = 1
      /\ get_chain_id(block_header) = aux_chain_id
      /\ get_chain_id(aux_data.parent_block) # aux_chain_id
      /\ compute_root_from_merkle_proof(compute_txid(script_sig), 0, aux_data.merkle_proof)
           = aux_data.parent_block.merkle_root
      /\ pos_chain_root # -1
      /\ root_in_place(script_sig, pos_chain_root)
      /\ len(script_sig) - end >= 16
      /\ number_at(script_sig, end, end + 8) = Pow2(height)
      /\ aux_data.chain_id = get_expected_index(n_nonce, get_chain_id(block_header), height)
      /\ pow_hash_meets(aux_data.parent_block, block_header.bits)

\* The proof of work of submit_block_header where it is verified (neither the
\* contract nor init skips it), with or without merged mining.
pow_accepted(block_header, aux_data) ==
  IF aux_data # <<>> THEN check_aux(block_header, aux_data[1])
  ELSE pow_hash_meets(block_header, block_header.bits)
=============================================================================

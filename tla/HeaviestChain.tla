---------------------------- MODULE HeaviestChain ----------------------------
(***************************************************************************)
(* What the light client promises, seen from outside: one chain of the     *)
(* network, known from some block on up to its tip.  It is empty, then     *)
(* starts at genesis, and from then on moves in single steps, each to a    *)
(* chain whose tip has more work or is the same, forgetting at the bottom  *)
(* only blocks that are buried.  No pool, no fork, no call under way and   *)
(* no reorganisation is to be seen.                                        *)
(***************************************************************************)
EXTENDS Integers

CONSTANTS
  Hash, NoHash,    \* the headers of the network, and the hash of none
  Prev,            \* the parent of a header
  NetWork,         \* the work accumulated up to a header
  GenesisHash, GenesisHeight,
  gc_threshold     \* blocks that are always kept

VARIABLE chain     \* the block at every height known

\* The n-th ancestor of h in the network.
Ancestor(h, n) ==
  LET anc[i \in 0 .. n] ==
        IF i = 0 THEN h
        ELSE IF anc[i - 1] \in Hash THEN Prev[anc[i - 1]] ELSE NoHash
  IN  anc[n]

IsChain(f, lo, hi) ==
  /\ lo <= hi
  /\ DOMAIN f = lo .. hi
  /\ \A k \in lo .. hi : f[k] \in Hash
  /\ \A k \in lo + 1 .. hi : Prev[f[k]] = f[k - 1]

Empty == DOMAIN chain = {}

Init == Empty

Start ==
  /\ Empty
  /\ \E hi \in DOMAIN chain' : IsChain(chain', GenesisHeight, hi)
  /\ chain'[GenesisHeight] = GenesisHash

\* The chain lo .. hi gives way to the chain lo2 .. hi2.
Moves(lo, hi, lo2, hi2) ==
  /\ IsChain(chain, lo, hi)
  /\ IsChain(chain', lo2, hi2)
  /\ chain'[hi2] = chain[hi] \/ NetWork[chain'[hi2]] > NetWork[chain[hi]]
  /\ lo <= lo2
  /\ Ancestor(chain'[lo2], lo2 - lo) = chain[lo]
  /\ lo < lo2 => hi2 - lo2 + 1 >= gc_threshold

Advance ==
  /\ ~Empty
  /\ \E lo, hi \in DOMAIN chain, lo2, hi2 \in DOMAIN chain' : Moves(lo, hi, lo2, hi2)

Next == Start \/ Advance

Spec == Init /\ [][Next]_chain
=============================================================================

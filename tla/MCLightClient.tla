--------------------------- MODULE MCLightClient ---------------------------
(***************************************************************************)
(* A network of a genesis block and three branches:                        *)
(*                                                                         *)
(*   height   4    5    6    7    8                                        *)
(*            g -- a -- b -- c -- z      work 1 each                       *)
(*             \    \-- x -- y           work 1, 4                         *)
(*              \-- d -- e -- f          work 1, 3, 2                      *)
(*                                                                         *)
(* e makes g,d,e heavier than g,a,b,c though shorter, so a reorganisation  *)
(* trims heights; y then outweighs e, and f ties with y.  o is a header    *)
(* whose parent is unknown, q is on a header with the maximal work, w has  *)
(* no proof of work.                                                       *)
(***************************************************************************)
EXTENDS LightClient

CONSTANTS g, a, b, c, z, d, e, f, x, y, o, q, w, relayer, keeper

MCHash == {g, a, b, c, z, d, e, f, x, y, o, q, w}

MCPrev ==
  [h \in MCHash |->
     CASE h \in {a, d} -> g [] h \in {b, x, w} -> a [] h = c -> b [] h = z -> c
       [] h = e -> d [] h = f -> e [] h = y -> x [] h = q -> f [] OTHER -> NoHash]

MCWork ==
  [h \in MCHash |-> CASE h = e -> 3 [] h = y -> 4 [] h = f -> 2 [] OTHER -> 1]

MCNetHeight ==
  [h \in MCHash |-> CASE h \in {g, o} -> 0 [] h \in {a, d} -> 1
                      [] h \in {b, x, e, w} -> 2 [] h \in {c, y, f} -> 3
                      [] h \in {z, q} -> 4]

MCNetWork ==
  [h \in MCHash |-> CASE h \in {g, o} -> 1 [] h \in {a, d} -> 2
                      [] h \in {b, x, w} -> 3 [] h = c -> 4 [] h \in {z, e} -> 5
                      [] h \in {y, f} -> 7 [] h = q -> 8]

MCPowHashMeetsTarget == MCHash \ {w}

\* The coin's check is left open here: it refuses one header until time has
\* passed, as the bound on a header's timestamp does.
MCCheckTarget(s, h, now) == h # b \/ now > 0

MCInitBlocks == {<<g, a>>, <<g, a, b, c, z>>, <<g, a, d, e>>, <<g, o>>, <<a, b>>, <<g>>}

\* Every single header and every parent and child, as a relayer sends them;
\* longer ascending batches; and batches in an order nobody intends.
MCBatches ==
  {<<>>} \cup {<<h>> : h \in MCHash}
         \cup {<<h, i>> \in MCHash \X MCHash : MCPrev[i] = h}
         \cup {<<x, d>>, <<e, d>>, <<d, e, x>>, <<a, x, y>>, <<b, c, x>>,
               <<d, e, f>>, <<b, c, z>>}

MCRoleOf ==
  [acc \in {relayer, keeper} |-> IF acc = keeper THEN {"UnrestrictedRunGC"} ELSE {}]
=============================================================================

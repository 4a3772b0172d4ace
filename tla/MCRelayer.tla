----------------------------- MODULE MCRelayer -----------------------------
(***************************************************************************)
(* A network the node may follow along three branches:                     *)
(*                                                                         *)
(*   height   4    5    6    7    8    9                                   *)
(*            g -- a -- b -- c                                             *)
(*             \    \-- x -- y -- z -- u                                   *)
(*              \-- d -- e -- f -- i                                       *)
(***************************************************************************)
EXTENDS Relayer

CONSTANTS g, a, b, c, x, y, z, u, d, e, f, i, relayer

MCHash == {g, a, b, c, x, y, z, u, d, e, f, i}

MCPrev ==
  [h \in MCHash |->
     CASE h \in {a, d} -> g [] h \in {b, x} -> a [] h = c -> b [] h = y -> x [] h = z -> y
       [] h = u -> z [] h = e -> d [] h = f -> e [] h = i -> f [] OTHER -> NoHash]

MCWork == [h \in MCHash |-> 1]

MCNetHeight[h \in MCHash] == IF h = g THEN 0 ELSE MCNetHeight[MCPrev[h]] + 1

MCNetWork == [h \in MCHash |-> MCNetHeight[h] + 1]

MCCheckTarget(s, h, now) == TRUE

MCInitBlocks == {<<g, a>>}

MCRoleOf == [acc \in {relayer} |-> {}]
=============================================================================

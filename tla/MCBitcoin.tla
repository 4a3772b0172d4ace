----------------------------- MODULE MCBitcoin -----------------------------
(***************************************************************************)
(* A testnet with intervals of four blocks and medians over three:         *)
(*                                                                         *)
(*  height  4   5   6   7 |  8   9   10   11 | 12   13                     *)
(*          g - a - b - c -- d - e - f -- i -- j -- k                      *)
(*                       \        \- F -- I -- J                           *)
(*                        \- P - Q - R -- S -- T                           *)
(*                                                                         *)
(* e is mined at the minimum difficulty, f is earlier than its parent.  J  *)
(* alone outweighs j and k: it comes after faster blocks.  Headers that    *)
(* break a rule: B keeps its parent's bits at a retarget, O is too old, V  *)
(* has an old version, W claims the minimum difficulty too early, and N is *)
(* too new until time has passed.                                          *)
(***************************************************************************)
EXTENDS Bitcoin

MCHash == {"g", "a", "b", "c", "d", "e", "f", "i", "j", "k", "F", "I", "J",
           "P", "Q", "R", "S", "T", "B", "O", "V", "W", "N"}

MCPrev ==
  [h \in MCHash |->
     CASE h = "a" -> "g" [] h = "b" -> "a" [] h = "c" -> "b"
       [] h \in {"d", "P", "B"} -> "c" [] h \in {"e", "V", "N"} -> "d"
       [] h \in {"f", "F", "W"} -> "e" [] h = "i" -> "f" [] h \in {"j", "O"} -> "i"
       [] h = "k" -> "j" [] h = "I" -> "F" [] h = "J" -> "I" [] h = "Q" -> "P"
       [] h = "R" -> "Q" [] h = "S" -> "R" [] h = "T" -> "S" [] OTHER -> "none"]

MCTime ==
  [h \in MCHash |->
     CASE h = "g" -> 0 [] h = "a" -> 2 [] h = "b" -> 4 [] h = "c" -> 6
       [] h = "B" -> 7 [] h \in {"d", "Q"} -> 8
       [] h \in {"f", "F", "P", "R", "V"} -> 9 [] h \in {"I", "S"} -> 10
       [] h \in {"J", "T", "O"} -> 11 [] h \in {"e", "i"} -> 13
       [] h \in {"j", "W"} -> 14 [] h = "k" -> 15 [] h = "N" -> 41]

\* Compact targets: the size, in units of a mantissa, and the mantissa.
MCBits ==
  [h \in MCHash |->
     CASE h \in {"g", "a", "b", "c", "B"} -> 8 * 64 + 31
       [] h \in {"e", "W", "N"} -> 9 * 64 + 31
       [] h \in {"j", "k", "O"} -> 8 * 64 + 14
       [] h \in {"J", "T"} -> 7 * 64 + 23
       [] OTHER -> 8 * 64 + 23]

MCVersion == [h \in MCHash |-> IF h = "V" THEN 3 ELSE 4]

MCWork == [h \in MCHash |-> Val(work_from_bits(MCBits[h]))]

MCNetHeight[h \in MCHash] == IF MCPrev[h] = "none" THEN 4 ELSE MCNetHeight[MCPrev[h]] + 1

MCNetWork[h \in MCHash] ==
  MCWork[h] + (IF MCPrev[h] = "none" THEN 0 ELSE MCNetWork[MCPrev[h]])

MCMaxU256 == Val(MAX)

\* Not a compact number: 2^17 - 1.
MCPowLimit == Of(2 ^ 17 - 1)

MCInitBlocks == {<<"g", "a", "b", "c">>}

MCBatches == {<<h>> : h \in MCHash} \cup {<<"F", "I">>, <<"P", "Q", "R", "S">>}

MCRoleOf == [acc \in {"relayer"} |-> {}]

\* What NetworkProofs assumes of the deployment.
ASSUME DeploymentAssumption ==
  /\ InitIsChain
  /\ KeepsBlocks(MEDIAN_TIME_SPAN) /\ KeepsBlocks(difficulty_adjustment_interval - 1)
  /\ Scales(Val(pow_limit), pow_target_timespan * 4)
  /\ LimitHolds
=============================================================================

----------------------------- MODULE MCLitecoin -----------------------------
(***************************************************************************)
(* Intervals of four blocks, medians over three, genesis one block before  *)
(* an interval:                                                            *)
(*                                                                         *)
(*  height  3 | 4   5   6   7 |  8   9   10   11 | 12                      *)
(*          g - a - b - c - d -- e - f - i -- j -- k                       *)
(*                       \        \- F - I -- J -- K                       *)
(*                        \ D -- E - X                                     *)
(*                                                                         *)
(* The chain starts at the easiest target; d is so late that the target    *)
(* stays there.  Headers that break a rule: B takes j's bits at a          *)
(* retarget, O is too old.                                                 *)
(***************************************************************************)
EXTENDS Litecoin

MCHash == {"g", "a", "b", "c", "d", "e", "f", "i", "j", "k", "D", "E", "X",
           "F", "I", "J", "K", "B", "O"}

MCPrev ==
  [h \in MCHash |->
     CASE h = "a" -> "g" [] h = "b" -> "a" [] h = "c" -> "b" [] h \in {"d", "D"} -> "c"
       [] h = "e" -> "d" [] h \in {"f", "F"} -> "e" [] h = "i" -> "f"
       [] h \in {"j", "O"} -> "i" [] h \in {"k", "B"} -> "j" [] h = "E" -> "D" [] h = "X" -> "E"
       [] h = "I" -> "F" [] h = "J" -> "I" [] h = "K" -> "J" [] OTHER -> "none"]

MCTime ==
  [h \in MCHash |->
     CASE h = "g" -> 0 [] h = "a" -> 2 [] h = "b" -> 4 [] h = "c" -> 6
       [] h = "D" -> 8 [] h = "E" -> 9 [] h = "X" -> 10 [] h = "d" -> 70
       [] h = "e" -> 72 [] h \in {"f", "O"} -> 71 [] h = "i" -> 73 [] h = "j" -> 74
       [] h \in {"k", "B"} -> 75 [] h = "F" -> 80 [] h = "I" -> 81 [] h = "J" -> 82
       [] h = "K" -> 83]

MCBits ==
  [h \in MCHash |->
     CASE h = "k" -> 11 * 64 + 31 [] h \in {"E", "X"} -> 12 * 64 + 15
       [] h = "K" -> 12 * 64 + 23 [] OTHER -> 12 * 64 + 31]

MCVersion == [h \in MCHash |-> 4]

MCWork == [h \in MCHash |-> Val(work_from_bits(MCBits[h]))]

MCNetHeight[h \in MCHash] == IF MCPrev[h] = "none" THEN 3 ELSE MCNetHeight[MCPrev[h]] + 1

MCNetWork[h \in MCHash] ==
  MCWork[h] + (IF MCPrev[h] = "none" THEN 0 ELSE MCNetWork[MCPrev[h]])

MCMaxU256 == Val(MAX)

MCPowLimit == Of(2 ^ 23 - 1)

MCInitBlocks == {<<"g", "a", "b", "c">>}

MCBatches == {<<h>> : h \in MCHash} \cup {<<"e", "f">>, <<"i", "j", "k">>}

MCRoleOf == [acc \in {"relayer"} |-> {}]

\* What NetworkProofs assumes of the deployment.
ASSUME DeploymentAssumption ==
  /\ ~pow_allow_min_difficulty_blocks
  /\ InitIsChain
  /\ KeepsBlocks(MEDIAN_TIME_SPAN) /\ KeepsBlocks(difficulty_adjustment_interval)
  /\ ScalesShifted
  /\ LimitHolds
=============================================================================

----------------------------- MODULE MCDogecoin -----------------------------
(***************************************************************************)
(* A testnet where every block retargets, medians over three:              *)
(*                                                                         *)
(*  height  4   5   6   7    8   9   10   11   12                          *)
(*          g - a - b - c -- d - e - f -- i -- j                           *)
(*                       \        \- X -- Y                                *)
(*                        \- D - E - F -- I                                *)
(*                                                                         *)
(* e is earlier than d.  f, i and j are easy, so that X outweighs them     *)
(* all.  Headers that break a rule: B keeps its parent's bits, O is too    *)
(* old, N is too new until time has passed.                                *)
(***************************************************************************)
EXTENDS Dogecoin, Upgrade

MCHash == {"g", "a", "b", "c", "d", "e", "f", "i", "j", "X", "Y",
           "D", "E", "F", "I", "B", "O", "N"}

MCPrev ==
  [h \in MCHash |->
     CASE h = "a" -> "g" [] h = "b" -> "a" [] h = "c" -> "b" [] h \in {"d", "D"} -> "c"
       [] h = "e" -> "d" [] h \in {"f", "X", "B"} -> "e" [] h \in {"i", "O"} -> "f"
       [] h \in {"j", "N"} -> "i" [] h = "Y" -> "X" [] h = "E" -> "D" [] h = "F" -> "E"
       [] h = "I" -> "F" [] OTHER -> "none"]

MCTime ==
  [h \in MCHash |->
     CASE h = "g" -> 0 [] h = "a" -> 8 [] h = "b" -> 16 [] h = "c" -> 24
       [] h = "D" -> 25 [] h \in {"e", "O"} -> 29 [] h \in {"d", "X", "B"} -> 30 [] h = "Y" -> 31
       [] h = "E" -> 41 [] h = "F" -> 42 [] h = "I" -> 43 [] h = "f" -> 60
       [] h = "i" -> 61 [] h = "j" -> 62 [] h = "N" -> 63]

MCBits ==
  [h \in MCHash |->
     CASE h \in {"f", "i", "j", "N", "O"} -> 9 * 64 + 31 [] h \in {"F", "I"} -> 9 * 64 + 8
       [] h \in {"X", "Y"} -> 8 * 64 + 27 [] OTHER -> 8 * 64 + 31]

MCVersion == [h \in MCHash |-> 4]

MCWork == [h \in MCHash |-> Val(work_from_bits(MCBits[h]))]

MCNetHeight[h \in MCHash] == IF MCPrev[h] = "none" THEN 4 ELSE MCNetHeight[MCPrev[h]] + 1

MCNetWork[h \in MCHash] ==
  MCWork[h] + (IF MCPrev[h] = "none" THEN 0 ELSE MCNetWork[MCPrev[h]])

MCMaxU256 == Val(MAX)

MCPowLimit == Of(2 ^ 17 - 1)

MCInitBlocks == {<<"g", "a", "b", "c">>}

MCBatches == {<<h>> : h \in MCHash} \cup {<<"e", "f">>, <<"D", "E">>}

MCRoleOf == [acc \in {"relayer"} |-> {}]

\* What NetworkProofs assumes of the deployment.
ASSUME DeploymentAssumption ==
  /\ DigishieldHeight \in Int /\ GenesisHeight >= DigishieldHeight
  /\ InitIsChain
  /\ KeepsBlocks(MEDIAN_TIME_SPAN)
  /\ Scales(Val(pow_limit), pow_target_timespan + pow_target_timespan \div 2)
  /\ LimitHolds
=============================================================================

------------------------------ MODULE MCZcash ------------------------------
(***************************************************************************)
(* A testnet with averaging windows and medians of three blocks:           *)
(*                                                                         *)
(*  height  4   5   6   7   8   9   10   11   12   13   14                 *)
(*          g - a - b - c - d - e - f -- i -- j -- k -- l                  *)
(*                                   \         \-- X -- Y                  *)
(*                                    \- I --- J -- K                      *)
(*                                                                         *)
(* k is late and easy, so that X outweighs k and l.  Headers that break a  *)
(* rule: B has its parent's bits, O is too old, Q is too far ahead of the  *)
(* median, Z has no valid solution; N is too new until time has passed.    *)
(***************************************************************************)
EXTENDS Zcash

MCHash == {"g", "a", "b", "c", "d", "e", "f", "i", "j", "k", "l", "X", "Y",
           "I", "J", "K", "B", "O", "Q", "Z", "N"}

MCPrev ==
  [h \in MCHash |->
     CASE h = "a" -> "g" [] h = "b" -> "a" [] h = "c" -> "b" [] h = "d" -> "c"
       [] h = "e" -> "d" [] h = "f" -> "e" [] h \in {"i", "I", "B", "Q", "Z"} -> "f"
       [] h = "j" -> "i" [] h \in {"k", "X"} -> "j" [] h \in {"l", "N", "O"} -> "k"
       [] h = "Y" -> "X" [] h = "J" -> "I" [] h = "K" -> "J" [] OTHER -> "none"]

MCTime ==
  [h \in MCHash |->
     CASE h = "g" -> 0 [] h = "a" -> 4 [] h = "b" -> 8 [] h = "c" -> 12 [] h = "d" -> 16
       [] h = "e" -> 20 [] h = "f" -> 24 [] h \in {"B", "Z"} -> 25
       [] h \in {"j", "O"} -> 26 [] h \in {"i", "X"} -> 27 [] h = "Y" -> 28 [] h = "I" -> 40 [] h = "J" -> 41
       [] h = "K" -> 42 [] h = "k" -> 60 [] h \in {"l", "Q"} -> 61 [] h = "N" -> 62]

MCBits ==
  [h \in MCHash |->
     CASE h \in {"i", "j", "I", "J", "X", "Q", "Z"} -> 8 * 64 + 30
       [] h = "k" -> 9 * 64 + 31 [] h \in {"l", "N", "O"} -> 9 * 64 + 14
       [] h = "K" -> 9 * 64 + 9 [] h = "Y" -> 8 * 64 + 27 [] OTHER -> 8 * 64 + 31]

MCVersion == [h \in MCHash |-> 4]

MCEquihashValid == MCHash \ {"Z"}

MCWork == [h \in MCHash |-> Val(work_from_bits(MCBits[h]))]

MCNetHeight[h \in MCHash] == IF MCPrev[h] = "none" THEN 4 ELSE MCNetHeight[MCPrev[h]] + 1

MCNetWork[h \in MCHash] ==
  MCWork[h] + (IF MCPrev[h] = "none" THEN 0 ELSE MCNetWork[MCPrev[h]])

MCMaxU256 == Val(MAX)

MCPowLimit == Of(2 ^ 17 - 1)

MCInitBlocks == {<<"g", "a", "b", "c", "d", "e", "f">>}

MCBatches == {<<h>> : h \in MCHash} \cup {<<"I", "J", "K">>, <<"X", "Y">>}

MCRoleOf == [acc \in {"relayer"} |-> {}]

\* What NetworkProofs assumes of the deployment.
ASSUME DeploymentAssumption ==
  /\ InitIsChain
  /\ KeepsBlocks(pow_averaging_window + MEDIAN_TIME_SPAN)
  /\ WindowsScale
  /\ LimitHolds
=============================================================================

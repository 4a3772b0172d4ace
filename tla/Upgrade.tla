------------------------------- MODULE Upgrade -------------------------------
(***************************************************************************)
(* The contract across an upgrade of its code (mod migrate of contract/    *)
(* src/lib.rs).  The code is replaced in one call and the STATE record     *)
(* rewritten in another, so that calls may come in between.                *)
(*                                                                         *)
(* The build before is called V2 after the layout it stores.  Its code is  *)
(* not in the repository; it is taken to serve the calls of LightClient.   *)
(* Its used_aux_parent_blocks and the parameters of the deployment change  *)
(* nothing the model keeps.                                                *)
(***************************************************************************)
EXTENDS LightClient

CONSTANT FirstBuild   \* the build that is deployed first

VARIABLES
  build,   \* the code deployed: "V2" or "current"
  layout   \* the layout of the stored STATE, "none" before init

upgradeVars == <<vars, build, layout>>

ASSUME FirstBuildAssumption == FirstBuild \in {"V2", "current"}

UpgradeInit == Init /\ build = FirstBuild /\ layout = "none"

\* A call reads STATE in the layout of its build and panics on any other, and
\* init requires that there is none; a call that returns writes STATE back.
Call ==
  /\ layout \in {"none", build}
  /\ Next
  /\ layout' = IF Initialised' THEN build ELSE "none"
  /\ UNCHANGED build

\* up_deploy_code of near_plugins, called by a CodeDeployer.
DeployCode ==
  /\ pc \in {"uninit", "idle"}
  /\ build = "V2"
  /\ build' = "current"
  /\ UNCHANGED <<vars, layout>>

\* The state built from old_state, field by field.
migrated_swapped(s) ==
  [height_to_header |-> s.height_to_header, header_to_height |-> s.header_to_height,
   tip_blockhash |-> s.initial_blockhash, initial_blockhash |-> s.tip_blockhash,
   headers_pool |-> s.headers_pool]

migrated(s) ==
  [height_to_header |-> s.height_to_header, header_to_height |-> s.header_to_height,
   tip_blockhash |-> s.tip_blockhash, initial_blockhash |-> s.initial_blockhash,
   headers_pool |-> s.headers_pool]

\* Whichever layout reads the whole of STATE is the one it has.
migrate ==
  /\ pc = "idle"
  /\ build = "current"
  /\ saved' = IF layout = "current" THEN saved ELSE migrated(saved)
  /\ db' = saved'
  /\ layout' = "current"
  /\ UNCHANGED <<pc, call, cursor, fork_tip, paused, balance, clock, build>>

UpgradeNext == Call \/ DeployCode \/ migrate

UpgradeSpec == UpgradeInit /\ [][UpgradeNext]_upgradeVars
=============================================================================

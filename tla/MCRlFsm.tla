------------------------------ MODULE MCRlFsm ------------------------------
(* RlFsm with two policies and the goals a keyboard ("rl_0", "rl_1"), an     *)
(* unconfigured key ("rl_4") and a mistyped number ("rl_9...") produce.      *)
EXTENDS RlFsm

MCPolicy == {"walk", "jump_policy"}
MCRlGoal == {"rl_0", "rl_1", "rl_4", "rl_99999999999"}
MCPolicyOf == [g \in MCRlGoal |->
  CASE g = "rl_0" -> "walk"
    [] g = "rl_1" -> "jump_policy"
    [] g = "rl_4" -> NoPolicy
    [] OTHER -> Overflow]
MCPolicyTorque == {0, 3}
=============================================================================

------------------------------ MODULE PlayTask -----------------------------
(***************************************************************************)
(* How scripts/np3o/play.py gets from the task that was asked for to the   *)
(* one that replays a checkpoint of Mini: by the widths of the networks in *)
(* the file, which it compares with a table kept by hand.  A task and its  *)
(* -Play task are one family here: both are in the table with the same     *)
(* widths, and the switch goes from one to another of the same kind.       *)
(***************************************************************************)
EXTENDS EnvCfg, FiniteSetsExt

\* The width of a term of Mini, which has six joints, two feet and a height
\* scanner of 17 by 11 rays.
Width(term) ==
  LET name == term[2]
  IN CASE name \in {"base_lin_vel", "base_ang_vel", "projected_gravity", "velocity_commands"} -> 3
       [] name \in {"joint_pos", "joint_vel", "actions", "joint_kp_factor", "joint_kd_factor"} -> 6
       [] name \in {"contact_state", "gait_phase"} -> 2
       [] name = "jump_cmd" -> 1
       [] name = "jump_state" -> 4
       [] name = "terrain_profile" -> 9
       [] name = "height_scan" -> 187
\* <<n_proprio, n_critic>> of a configuration's terms.
Dims(have) ==
  LET width(groups) == MapThenSumSet(Width, {t \in have : t[1] \in groups})
  IN <<width({"policy"}), width({"critic", "priv", "scanner"})>>

\* _KNOWN_MINI_TASK_OBS_DIMS.
KnownDims ==
  [family \in {"Velocity-Flat-Mini", "Recovery-Flat-Mini", "jump-Flat-Mini", "Stairs-Jump-Mini",
               "Stairs-Jump-Mini-Legacy"} |->
    CASE family = "Velocity-Flat-Mini" -> <<27, 44>>
      [] family = "Recovery-Flat-Mini" -> <<27, 231>>
      [] family = "jump-Flat-Mini" -> <<28, 49>>
      [] family = "Stairs-Jump-Mini" -> <<38, 32>>
      [] family = "Stairs-Jump-Mini-Legacy" -> <<36, 235>>]

\* The family that replays a checkpoint of these widths when this one is asked
\* for: another one only if it is the only one listed with the widths.
AutoSelect(family, dims) ==
  LET matches == {f \in DOMAIN KnownDims \ {"Stairs-Jump-Mini-Legacy"} : KnownDims[f] = dims}
  IN IF family \in DOMAIN KnownDims /\ KnownDims[family] # dims /\ Cardinality(matches) = 1
     THEN CHOOSE f \in matches : TRUE ELSE family
\* What is selected may be played: the widths are those of its networks.
Validated(dims, model) == dims = model
=============================================================================

----------------------------- MODULE TasksTita -----------------------------
(***************************************************************************)
(* The environment configurations of the robot Tita, an eight-joint robot  *)
(* on the same two wheels as Mini, and its registered tasks.               *)
(***************************************************************************)
EXTENDS TasksMini

\* tita/rough_env_cfg.py.
TitaSceneCfg == Plain(Scene({"terrain_generator", "robot", "height_scanner", "contact_forces",
                             "light", "sky_light", "base_link", "leg_2", "leg_3", "leg_4"}))
TitaCommandsCfg == Plain(Of("commands", {"base_velocity"}))
TitaActionsCfg ==
  LET legs == Of("actions", {"joint_pos_0", "joint_pos_1", "joint_pos_2",
                             "joint_pos_4", "joint_pos_5", "joint_pos_6"})
      wheels == Of("actions", {"joint_vel_3", "joint_vel_7"})
  IN Part(legs \cup wheels, {}, Wheels(wheels))
TitaObservationsCfg ==
  Part(Of("policy", Proprio) \cup Of("critic", Proprio \cup {"base_lin_vel"}) \cup PrivCfg \cup Scanner,
       {}, {ByCommand("policy"), ByCommand("critic"), Scanned(<<"scanner", "height_scan">>)}
             \cup Wheels({<<"policy", "joint_pos">>, <<"critic", "joint_pos">>} \cup Contacts))
TitaEventCfg ==
  Part(Randomised \cup Pushes \cup Events({"physics_material", "reset_base", "reset_robot_joints"}), {},
       Selects(Weighed, {"base_link"}))
TitaRewardsCfg ==
  Join(RoughRewards(RoughZero \cup OnWheels \cup {"inverted_leg_swing_momentum"}),
       Part({}, {}, Selects(Rewards({"inverted_leg_swing_momentum"}), {"leg_2", "base_link"})))
TitaTerminationsCfg ==
  Part(BaseContact \cup Of("terminations", {"time_out"}), {}, Selects(BaseContact, {"base_link"}))
TitaCurriculumCfg == Part(TerrainLevels, {}, TerrainLevels \X Scene({"terrain_generator"}))
TitaCostsCfg == Plain(Of("costs", {"joint_pos_limit", "joint_vel_limit", "joint_torque_limit"}))
TitaBase ==
  Join(Join(Join(TitaSceneCfg, TitaCommandsCfg), Join(TitaActionsCfg, TitaObservationsCfg)),
       Join(Join(TitaEventCfg, TitaRewardsCfg),
            Join(TitaCostsCfg, Join(TitaTerminationsCfg, TitaCurriculumCfg))))
TitaRoughEnvCfg == Class("TitaRoughEnvCfg", Groups, TitaBase, <<Stack(10)>>)
TitaRoughEnvCfg_PLAY == Inherits(TitaRoughEnvCfg, "TitaRoughEnvCfg_PLAY", <<Drop(Pushes)>>)

\* tita/flat_env_cfg.py.
TitaFlatEnvCfg ==
  Inherits(TitaRoughEnvCfg, "TitaFlatEnvCfg",
           <<Plane, Blind, Drop(Of("policy", {"height_scan"})), Drop(Scanner), Drop(TerrainLevels)>>)
TitaFlatEnvCfg_PLAY ==
  Inherits(TitaFlatEnvCfg, "TitaFlatEnvCfg_PLAY", <<Drop(Pushes), Drop(Randomised)>>)

\* tita/recovery_env_cfg.py.
TitaSelfRighting ==
  <<Weigh(Rewards({"base_contact_penalty", "upward", "flat_orientation_l2", "base_height_l2"})),
    Silence(Tracks \cup Rewards({"alive", "is_terminated"}))>>
TitaRecoveryEnvCfg ==
  Inherits(TitaFlatEnvCfg, "TitaRecoveryEnvCfg",
           <<Drop(BaseContact), Use(Events({"reset_base"}))>> \o TitaSelfRighting)
TitaRecoveryRoughPost ==
  <<Blind, Drop(Scanner), RecoveryLevels, Drop(BaseContact), Use(Events({"reset_base"}))>>
    \o TitaSelfRighting
TitaRecoveryRoughEnvCfg ==
  Inherits(TitaRoughEnvCfg, "TitaRecoveryRoughEnvCfg", TitaRecoveryRoughPost)
TitaRecoveryRoughEnvCfg_PLAY ==
  Inherits(TitaRecoveryRoughEnvCfg, "TitaRecoveryRoughEnvCfg_PLAY", <<Drop(Pushes), Drop(Randomised)>>)
TitaRecoveryEnvCfg_PLAY ==
  Inherits(TitaRecoveryEnvCfg, "TitaRecoveryEnvCfg_PLAY", <<Drop(Pushes), Drop(Randomised)>>)

\* tita/jump_env_cfg.py.
TitaJumpFlatEnvCfg ==
  Inherits(TitaFlatEnvCfg, "TitaJumpFlatEnvCfg",
           <<Drop(BaseContact), Add(Part(JumpCmd, {}, Wheels(JumpCmd))),
             Use(Of("commands", {"base_velocity"})), Use(Of("actions", {"joint_pos_1", "joint_pos_5"})),
             Add(Part(JumpObs, {}, JumpObs \X JumpCmd)), Use(Events({"reset_base"})),
             Add(Plain(Events({"limit_recovery_leg_2"}))),
             Weigh(Tracks \cup Rewards({"base_contact_raw", "upright_progress",
               "inverted_leg_swing_momentum", "base_height_l2", "flat_orientation_l2", "upward"})),
             Silence(Rewards({"base_contact_penalty", "inverted_ang_vel_bonus", "lin_vel_z_l2",
                              "ang_vel_xy_l2"}))>>
             \o JumpPaid("leg_4"))
TitaJumpFlatEnvCfg_PLAY ==
  Inherits(TitaJumpFlatEnvCfg, "TitaJumpFlatEnvCfg_PLAY",
           <<Drop(Pushes), Drop(Randomised), Use(JumpCmd \cup Of("commands", {"base_velocity"})),
             Use(Events({"reset_base"}))>>)

\* tita/command_gated_flat_env_cfg.py: one command of six dimensions.
WheelCommands == Of("commands", {"wheel_commands"})
Gated == (Proprio \ {"velocity_commands"}) \cup {"wheel_commands"}
CommandGatedCommandsCfg == Plain(WheelCommands)
CommandGatedObservationsCfg ==
  Part(Of("policy", Gated) \cup Of("critic", Gated \cup {"base_lin_vel"}) \cup PrivCfg, {},
       (Of("policy", {"wheel_commands"}) \cup Of("critic", {"wheel_commands"})) \X WheelCommands
         \cup Wheels(Contacts))
CommandGatedEventCfg ==
  Join(TitaEventCfg, Part(Events({"add_other_mass", "add_other_com"}), {},
                          Selects(Events({"add_base_com"}), {"base_link"})))
CommandGatedRewardsCfg ==
  LET tracking == Rewards({"tracking_lin_x_vel", "tracking_lin_y_vel", "tracking_ang_vel",
                           "tracking_leg_length", "tsk"})
      paid == {"projected_gravity", "similar_calf", "joint_action_rate", "wheel_action_rate",
               "lin_vel_z", "ang_vel_xy", "dof_acc", "dof_force", "collision", "joint_mirror",
               "base_height"}
      zero == {"tracking_lin_y_vel", "feet_distance", "survive"}
  IN Part(tracking \cup Rewards(paid \cup zero), Rewards(zero),
          (tracking \X WheelCommands) \cup Wheels(Rewards({"feet_distance"}))
            \cup Selects(Rewards({"collision"}), {"leg_3"}))
CommandGatedTerminationsCfg ==
  Part(Of("terminations", {"time_out", "roll_pitch", "undesired_contacts"}), {},
       Selects(Of("terminations", {"undesired_contacts"}), {"base_link"}))
CommandGatedGroups ==
  {"scene", "policy", "critic", "priv", "scanner", "actions", "commands", "rewards",
   "terminations", "events", "costs"}
CommandGatedBase ==
  Join(Join(Join(TitaSceneCfg, CommandGatedCommandsCfg), Join(TitaActionsCfg, CommandGatedObservationsCfg)),
       Join(Join(CommandGatedEventCfg, CommandGatedRewardsCfg),
            Join(CommandGatedTerminationsCfg, TitaCostsCfg)))
TitaCommandGatedFlatEnvCfg ==
  TitaFlatEnvCfg \o Class("TitaCommandGatedFlatEnvCfg", CommandGatedGroups, CommandGatedBase,
    <<Plane, Blind, Drop(Scanner), Drop(TerrainLevels), Stack(10), Drop(Pushes),
      Use(Events({"reset_base"})), Use(Scene({"contact_forces"}))>>)
TitaCommandGatedFlatEnvCfg_PLAY ==
  Inherits(TitaCommandGatedFlatEnvCfg, "TitaCommandGatedFlatEnvCfg_PLAY",
           <<Drop(Pushes), Drop(Randomised \cup Events({"add_other_com", "add_other_mass"}))>>)

\* tita/__init__.py.
CommandGatedRunner == Runner("np3o", 25)
TitaTasks ==
  Pair("CommandGated-Flat-Tita", TitaCommandGatedFlatEnvCfg, TitaCommandGatedFlatEnvCfg_PLAY,
       CommandGatedRunner)
    \cup Pair("Velocity-Flat-Tita", TitaFlatEnvCfg, TitaFlatEnvCfg_PLAY, Np3oRunner)
    \cup Pair("Velocity-Rough-Tita", TitaRoughEnvCfg, TitaRoughEnvCfg_PLAY, Np3oRunner)
    \cup Pair("jump-Flat-Tita", TitaJumpFlatEnvCfg, TitaJumpFlatEnvCfg_PLAY, Np3oRunner)
    \cup Pair("Recovery-Rough-Tita", TitaRecoveryRoughEnvCfg, TitaRecoveryRoughEnvCfg_PLAY, Np3oRunner)
    \cup Pair("Recovery-Flat-Tita", TitaRecoveryEnvCfg, TitaRecoveryEnvCfg_PLAY, Np3oRunner)
=============================================================================

----------------------------- MODULE TasksMini -----------------------------
(***************************************************************************)
(* The environment configurations of the robot Mini and its registered     *)
(* tasks.  Its first links hang on base_link by fixed joints and become    *)
(* parts of it (ddt_robot.py, 366-371).                                    *)
(***************************************************************************)
EXTENDS TasksD1

\* mini/rough_env_cfg.py.
MiniSceneCfg == Plain(Scene({"terrain_generator", "robot", "height_scanner", "contact_forces",
                             "light", "sky_light", "base_link", "leg_2", "leg_3", "leg_4"}))
MiniCommandsCfg == Plain(Of("commands", {"base_velocity"}))
MiniActionsCfg ==
  LET legs == Of("actions", {"joint_pos_0", "joint_pos_1", "joint_pos_3", "joint_pos_4"})
      wheels == Of("actions", {"joint_vel_2", "joint_vel_5"})
  IN Part(legs \cup wheels, {}, Selects(wheels, {"leg_4"}))
\* Terms that select the wheels by the name of their link or joint.
Wheels(terms) == Selects(terms, {"leg_4"})
MiniObservationsCfg ==
  Part(Of("policy", Proprio) \cup Of("critic", Proprio \cup {"base_lin_vel"}) \cup PrivCfg \cup Scanner,
       {}, {ByCommand("policy"), ByCommand("critic"), Scanned(<<"scanner", "height_scan">>)}
             \cup Wheels({<<"policy", "joint_pos">>, <<"critic", "joint_pos">>} \cup Contacts))
Weighed == Events({"add_base_mass", "base_external_force_torque"})
MiniEventCfg ==
  Part(Randomised \cup Pushes \cup Events({"physics_material", "reset_base", "reset_robot_joints"}), {},
       Selects(Weighed, {"base_link"}))
\* The rewards of Mini and Tita that are paid, and the jump rewards that find
\* their wheels by name.
RoughPaid == {"lin_vel_z_l2", "ang_vel_xy_l2", "dof_torques_l2", "dof_acc_l2", "action_rate_l2",
              "joint_mirror", "undesired_contacts", "flat_orientation_l2", "base_height_l2"}
RoughZero == {"stand_still", "upward", "alive", "is_terminated", "base_contact_penalty",
              "upright_progress", "inverted_ang_vel_bonus", "base_contact_raw"}
OnWheels == {"jump_before_setting", "lin_vel_z_jump", "jump_flight_height", "jump_land_stability",
             "jump_land_orientation"}
RoughRewards(zero) ==
  Part(Tracks \cup Rewards(RoughPaid \cup zero), Rewards(zero),
       Follow(Tracks \cup Rewards({"stand_still"}))
         \cup Wheels(Rewards(OnWheels \cup {"stand_still"}))
         \cup Selects(Rewards({"undesired_contacts"}), {"leg_3"})
         \cup Selects(Rewards({"base_contact_penalty", "base_contact_raw"}), {"base_link"}))
MiniRewardsCfg == RoughRewards(RoughZero \cup OnWheels \cup {"jump_forward_progress"})
BaseContact == Of("terminations", {"base_contact"})
MiniTerminationsCfg ==
  Part(BaseContact \cup Of("terminations", {"time_out"}), {}, Selects(BaseContact, {"base_link"}))
MiniCurriculumCfg == Part(TerrainLevels, {}, TerrainLevels \X Scene({"terrain_generator"}))
MiniCostsCfg == Plain(Of("costs", {"joint_pos_limit", "joint_vel_limit", "joint_torque_limit"}))
MiniBase ==
  Join(Join(Join(MiniSceneCfg, MiniCommandsCfg), Join(MiniActionsCfg, MiniObservationsCfg)),
       Join(Join(MiniEventCfg, MiniRewardsCfg),
            Join(MiniCostsCfg, Join(MiniTerminationsCfg, MiniCurriculumCfg))))
MiniRoughEnvCfg == Class("MiniRoughEnvCfg", Groups, MiniBase, <<Stack(10)>>)
MiniRoughEnvCfg_PLAY == Inherits(MiniRoughEnvCfg, "MiniRoughEnvCfg_PLAY", <<Drop(Pushes)>>)

\* mini/flat_env_cfg.py.
Standing == Weigh(Rewards({"flat_orientation_l2", "base_height_l2", "upward", "upright_progress"}))
Quiet == Silence(Rewards({"inverted_ang_vel_bonus", "base_contact_raw", "base_contact_penalty"}))
MiniFlatPost ==
  <<Standing, Quiet, Plane, Blind, Drop(Of("policy", {"height_scan"})), Drop(Scanner),
    Drop(TerrainLevels)>>
\* Mutant: the scanner group is left without its sensor.
MiniFlatKeepsScanner ==
  Inherits(MiniRoughEnvCfg, "MiniFlatEnvCfg",
           SelectSeq(MiniFlatPost, LAMBDA s : s # Drop(Scanner)))
MiniFlatEnvCfg == Inherits(MiniRoughEnvCfg, "MiniFlatEnvCfg", MiniFlatPost)
MiniFlatEnvCfg_PLAY ==
  Inherits(MiniFlatEnvCfg, "MiniFlatEnvCfg_PLAY", <<Drop(Pushes), Drop(Randomised)>>)

\* mini/recovery_env_cfg.py.
EnableHeightScanner ==
  <<Add(Plain(Scene({"height_scanner"}))),
    Add(Part(Scanner, {}, {Scanned(<<"scanner", "height_scan">>)}))>>
DisableJumpRewards == Drop(Rewards(OnWheels \cup {"jump_forward_progress"}))
SelfRighting ==
  <<Weigh(Rewards({"base_contact_raw", "upright_progress", "upward", "inverted_ang_vel_bonus",
                   "flat_orientation_l2", "base_height_l2"}) \cup Tracks),
    Silence(Rewards({"base_contact_penalty", "alive", "is_terminated"}))>>
MiniRecoveryPost ==
  EnableHeightScanner \o <<Drop(BaseContact), Use(Events({"reset_base"}))>> \o SelfRighting
    \o <<DisableJumpRewards>>
MiniRecoveryEnvCfg == Inherits(MiniFlatEnvCfg, "MiniRecoveryEnvCfg", MiniRecoveryPost)
\* Mutant: the replay is built on the walking task.
MiniRecoveryPlayOfWalking ==
  Inherits(MiniFlatEnvCfg, "MiniRecoveryEnvCfg_PLAY", <<Drop(Pushes), Drop(Randomised)>>)
MiniRecoveryEnvCfg_PLAY ==
  Inherits(MiniRecoveryEnvCfg, "MiniRecoveryEnvCfg_PLAY", <<Drop(Pushes), Drop(Randomised)>>)
\* terrain_levels_recovery in the place of terrain_levels_vel.
RecoveryLevels == Add(Part(TerrainLevels, {}, TerrainLevels \X Scene({"terrain_generator"})))
MiniRecoveryRoughEnvCfg ==
  Inherits(MiniRoughEnvCfg, "MiniRecoveryRoughEnvCfg",
           EnableHeightScanner
             \o <<RecoveryLevels, Drop(BaseContact), Use(Events({"reset_base"}))>> \o SelfRighting
             \o <<DisableJumpRewards>>)
MiniRecoveryRoughEnvCfg_PLAY ==
  Inherits(MiniRecoveryRoughEnvCfg, "MiniRecoveryRoughEnvCfg_PLAY", <<Drop(Pushes), Drop(Randomised)>>)

\* mini/stairs_env_cfg.py: it raises RuntimeError without generated terrain.
MiniStairsEnvCfg ==
  Inherits(MiniRecoveryRoughEnvCfg, "MiniStairsEnvCfg",
           <<Use(Scene({"terrain_generator"})), RecoveryLevels,
             Use(Of("commands", {"base_velocity"})), Use(Events({"reset_base"})),
             Add(Plain(Of("terminations", {"terrain_out_of_bounds"}))),
             Add(Part(Pushes, {}, Selects(Weighed \cap Pushes, {"base_link"}))),
             Weigh(Tracks \cup Rewards({"base_height_l2", "joint_mirror"})),
             Point(Rewards({"base_height_l2"}), Scene({"height_scanner"}))>>)
MiniStairsEnvCfg_PLAY ==
  Inherits(MiniStairsEnvCfg, "MiniStairsEnvCfg_PLAY", <<Drop(Pushes), Drop(Randomised)>>)

\* mini/stairs_jump_env_cfg.py: a depth camera and a gait phase; the rewards
\* are gated by the terrain under the height scanner.
GaitPhase == {<<"policy", "gait_phase">>, <<"critic", "gait_phase">>}
TerrainGated == Rewards({"flat_leg_posture", "rough_single_stance", "rough_alternating_height",
                         "rough_swing_contact"})
OnFeet == Rewards({"rough_single_stance", "rough_alternating_height", "rough_swing_contact",
                   "both_feet_airborne"})
MiniStairsJumpEnvCfg ==
  Inherits(MiniStairsEnvCfg, "MiniStairsJumpEnvCfg",
           <<Drop(BaseContact), Use(Scene({"height_scanner"})), Add(Plain(Scene({"depth_camera"}))),
             Use(Of("commands", {"base_velocity"})), Use(TerrainLevels),
             Add(Part({<<"policy", "terrain_profile">>} \cup GaitPhase, {},
                      {<<<<"policy", "terrain_profile">>, <<"scene", "depth_camera">>>>})),
             Use(Events({"reset_base"})),
             Weigh(Tracks \cup Rewards({"lin_vel_z_l2", "ang_vel_xy_l2", "flat_orientation_l2",
                                        "base_height_l2"})),
             Silence(Rewards({"joint_mirror"})),
             Add(Part(TerrainGated \cup OnFeet, {},
                      Selects(TerrainGated, {"height_scanner"}) \cup Wheels(OnFeet)
                        \cup Follow(Rewards({"rough_single_stance", "rough_alternating_height"}))))>>)
MiniStairsJumpEnvCfg_PLAY ==
  Inherits(MiniStairsJumpEnvCfg, "MiniStairsJumpEnvCfg_PLAY",
           <<Drop(Pushes), Drop(Randomised), Use(Of("commands", {"base_velocity"}))>>)
\* Replays the checkpoints of the task before it had a gait phase.
MiniStairsJumpLegacyEnvCfg_PLAY ==
  Inherits(MiniStairsJumpEnvCfg_PLAY, "MiniStairsJumpLegacyEnvCfg_PLAY",
           <<Drop(GaitPhase),
             Add(Part(Of("commands", {"terrain_jump"}), {},
                      Selects(Of("commands", {"terrain_jump"}), {"height_scanner", "leg_4"}))),
             Add(Part({<<"critic", "jump_state">>}, {},
                      {<<<<"critic", "jump_state">>, <<"commands", "terrain_jump">>>>}))>>)

\* mini/jump_env_cfg.py.
JumpCmd == Of("commands", {"jump_cmd"})
JumpObs == {<<"policy", "jump_cmd">>, <<"critic", "jump_cmd">>, <<"critic", "jump_state">>}
\* The paid jump rewards, with the selectors of their class.
JumpPaid(wheel) ==
  <<Weigh(Rewards(OnWheels)), Point(Rewards(OnWheels), Scene({wheel}) \cup JumpCmd)>>
MiniJumpFlatEnvCfg ==
  Inherits(MiniFlatEnvCfg, "MiniJumpFlatEnvCfg",
           <<Drop(BaseContact), Add(Part(JumpCmd, {}, Wheels(JumpCmd))),
             Use(Of("commands", {"base_velocity"})), Add(Part(JumpObs, {}, JumpObs \X JumpCmd)),
             Use(Events({"reset_base"})), Drop(Events({"jump_assist"})),
             Weigh(Tracks \cup Rewards({"base_contact_raw", "upright_progress",
               "inverted_ang_vel_bonus", "base_height_l2", "flat_orientation_l2", "upward"})),
             Silence(Rewards({"base_contact_penalty", "lin_vel_z_l2", "ang_vel_xy_l2"}))>>
             \o JumpPaid("leg_4"))
JumpPlay ==
  <<Drop(Pushes), Drop(Events({"jump_assist"})), Drop(Randomised),
    Use(JumpCmd \cup Of("commands", {"base_velocity"})), Use(Events({"reset_base"}))>>
MiniJumpFlatEnvCfg_PLAY == Inherits(MiniJumpFlatEnvCfg, "MiniJumpFlatEnvCfg_PLAY", JumpPlay)

\* mini/__init__.py.
MiniTasks ==
  Pair("Velocity-Flat-Mini", MiniFlatEnvCfg, MiniFlatEnvCfg_PLAY, Np3oRunner)
    \cup Pair("Velocity-Rough-Mini", MiniRoughEnvCfg, MiniRoughEnvCfg_PLAY, Np3oRunner)
    \cup Pair("Recovery-Flat-Mini", MiniRecoveryEnvCfg, MiniRecoveryEnvCfg_PLAY, Np3oRunner)
    \cup Pair("Recovery-Rough-Mini", MiniRecoveryRoughEnvCfg, MiniRecoveryRoughEnvCfg_PLAY, Np3oRunner)
    \cup Pair("Stairs-Mini", MiniStairsEnvCfg, MiniStairsEnvCfg_PLAY, Np3oRunner)
    \cup Pair("Stairs-Jump-Mini", MiniStairsJumpEnvCfg, MiniStairsJumpEnvCfg_PLAY, Np3oRunner)
    \cup Pair("jump-Flat-Mini", MiniJumpFlatEnvCfg, MiniJumpFlatEnvCfg_PLAY, Np3oRunner)
    \cup {[id |-> "Stairs-Jump-Mini-Legacy-Play", family |-> "Stairs-Jump-Mini-Legacy",
           chain |-> MiniStairsJumpLegacyEnvCfg_PLAY, trained |-> MiniStairsJumpLegacyEnvCfg_PLAY,
           runner |-> Np3oRunner]}
=============================================================================

------------------------------ MODULE TasksD1 ------------------------------
(***************************************************************************)
(* The environment configurations of the robots D1 and D1H, and their      *)
(* registered tasks.                                                       *)
(***************************************************************************)
EXTENDS EnvCfg, Naturals

Wheel(side) == {side \o "_leg_pos", side \o "_foot_vel"}
Legs(sides) == Of("actions", UNION {Wheel(s) : s \in sides})

\* What every policy group of D1 and D1H observes.
Proprio == {"base_ang_vel", "projected_gravity", "velocity_commands",
            "joint_pos", "joint_vel", "actions"}
ByCommand(group) == <<<<group, "velocity_commands">>, <<"commands", "base_velocity">>>>
Scanned(t) == <<t, <<"scene", "height_scanner">>>>
Contacts == {<<"priv", "contact_state">>}
Tracks == Rewards({"track_lin_vel_xy_exp", "track_ang_vel_z_exp"})
Follow(terms) == terms \X Of("commands", {"base_velocity"})

\* d1/base_env_cfg.py.  ddt_robot.py 197-262 imports D1 and D1H with
\* merge_fixed_joints: the links F_base_link and R_base_link, which hang on
\* base_link by fixed joints, become parts of it.
SceneCfg == Plain(Scene({"terrain_generator", "robot", "height_scanner",
                         "height_scanner_base", "contact_forces", "light", "sky_light",
                         "base_link", "foot"}))
CommandsCfg == Plain(Of("commands", {"base_velocity"}))
ActionsCfg == Plain(Legs({"fl", "fr", "rl", "rr"}))
ObservationsCfg ==
  Part(Of("policy", Proprio) \cup Of("critic", Proprio \cup {"base_lin_vel", "height_scan"}), {},
       {ByCommand("policy"), ByCommand("critic"), Scanned(<<"critic", "height_scan">>)})
OnBase == Events({"add_base_mass", "add_base_com", "base_external_force_torque"})
EventCfg ==
  Part(OnBase \cup Events({"physics_material", "randomize_actuator_gains", "reset_base",
                           "reset_robot_joints", "push_robot"}), {},
       Selects(OnBase, {"base_link"}))
RewardsCfg ==
  LET paid == {"lin_vel_z_l2", "ang_vel_xy_l2", "flat_orientation_l2", "base_height_l2",
               "joint_acc_l2", "power_distribution_var", "action_rate_l2", "undesired_contacts",
               "contact_forces", "upward"}
      zero == {"is_terminated", "joint_torques_l2", "joint_vel_l2", "joint_pos_limits",
               "joint_vel_limits", "joint_power", "default_joint_l2", "hip_pos"}
  IN Part(Tracks \cup Rewards(paid \cup zero), Rewards(zero),
          Follow(Tracks \cup Rewards({"hip_pos"}))
            \cup Selects(Rewards({"base_height_l2"}), {"height_scanner_base", "base_link"})
            \cup Selects(Rewards({"contact_forces"}), {"foot"}))
TerminationsCfg == Plain(Of("terminations", {"time_out", "terrain_out_of_bounds"}))
Levels == Of("curriculum", {"command_levels_lin_vel", "command_levels_ang_vel"})
TerrainLevels == Of("curriculum", {"terrain_levels"})
CurriculumCfg ==
  Part(TerrainLevels \cup Levels, {},
       Follow(Levels) \cup (TerrainLevels \X Scene({"terrain_generator"}))
         \cup {<<<<"curriculum", "command_levels_lin_vel">>, <<"rewards", "track_lin_vel_xy_exp">>>>,
               <<<<"curriculum", "command_levels_ang_vel">>, <<"rewards", "track_ang_vel_z_exp">>>>})

Groups == {"scene", "policy", "critic", "priv", "scanner", "actions", "commands", "rewards",
           "terminations", "events", "curriculum", "costs"}
Base == Join(Join(Join(SceneCfg, CommandsCfg), Join(ActionsCfg, ObservationsCfg)),
             Join(Join(EventCfg, RewardsCfg), Join(TerminationsCfg, CurriculumCfg)))
PolicyJoints == Of("policy", {"joint_pos", "joint_vel"})
D1RoughEnvCfg == Class("D1RoughEnvCfg", Groups, Base, <<Use(PolicyJoints)>>)

Pushes == Events({"base_external_force_torque", "push_robot"})
Randomised == Events({"add_base_inertia", "add_base_com", "add_base_mass", "randomize_actuator_gains"})
Scanner == Of("scanner", {"height_scan"})
Plane == Drop(Scene({"terrain_generator"}))
Blind == Drop(Scene({"height_scanner"}))

\* d1/rsl_rl: the tasks of stock PPO.
D1RoughEnvCfg_PLAY == Inherits(D1RoughEnvCfg, "D1RoughEnvCfg_PLAY", <<Drop(Pushes)>>)
D1FlatEnvCfg ==
  Inherits(D1RoughEnvCfg, "D1FlatEnvCfg",
           <<Plane, Blind, Drop(Of("critic", {"height_scan"})), Drop(Scanner), Drop(TerrainLevels)>>)
D1FlatEnvCfg_PLAY == Inherits(D1FlatEnvCfg, "D1FlatEnvCfg_PLAY", <<Drop(Pushes), Drop(Randomised)>>)

\* The privileged observations of d1/np3o, and those of d1/dreamwaq.
PrivCfg == Of("priv", {"contact_state", "joint_kp_factor", "joint_kd_factor"})
PrivilegedObservationsCfg ==
  Part(Of("policy", Proprio) \cup Of("critic", Proprio \cup {"base_lin_vel"}) \cup PrivCfg \cup Scanner,
       {}, {ByCommand("policy"), ByCommand("critic"), Scanned(<<"scanner", "height_scan">>)}
             \cup Selects(Contacts, {"foot"}))
DreamWaQObservationsCfg == PrivilegedObservationsCfg
Observed == {"policy", "critic", "priv", "scanner"}

\* d1/np3o.
Gait == Rewards({"wheel_scrub_penalty", "foot_clearance", "gait_trot"})
RoughRewardsCfg ==
  Join(RewardsCfg, Part(Gait \cup Rewards({"joint_mirror"}), Gait \cup Rewards({"joint_mirror"}),
                        Follow(Gait) \cup Selects(Gait, {"foot"})))
CostsCfg == Plain(Of("costs", {"joint_pos_limit", "joint_vel_limit", "joint_torque_limit"}))
D1RoughNP3OPost ==
  <<Stack(10), Silence(Rewards({"flat_orientation_l2", "foot_clearance", "gait_trot"})),
    Weigh(Rewards({"hip_pos", "joint_mirror", "wheel_scrub_penalty", "action_rate_l2"})),
    Drop(Levels), Prune("D1RoughNP3OEnvCfg")>>
NP3O(post) ==
  D1RoughEnvCfg \o Class("D1RoughNP3OEnvCfg", Observed \cup {"rewards", "costs"},
                         Join(Join(PrivilegedObservationsCfg, RoughRewardsCfg), CostsCfg), post)
\* Mutant: the history stays flat.
D1RoughNP3OFlatHistory == NP3O(Tail(D1RoughNP3OPost))
D1RoughNP3OEnvCfg == NP3O(D1RoughNP3OPost)
D1RoughNP3OEnvCfg_PLAY ==
  Inherits(D1RoughNP3OEnvCfg, "D1RoughNP3OEnvCfg_PLAY",
           <<Drop(Pushes), Drop(Levels), Prune("D1RoughNP3OEnvCfg_PLAY")>>)
D1FlatNP3OEnvCfg ==
  Inherits(D1RoughNP3OEnvCfg, "D1FlatNP3OEnvCfg",
           <<Plane, Drop(Scanner), Swap(Rewards({"base_height_l2"}), Scene({"height_scanner_base"}), {}),
             Drop(TerrainLevels),
             Use(Of("commands", {"base_velocity"})),
             Weigh(Rewards({"hip_pos", "foot_clearance", "gait_trot", "joint_mirror"})),
             Prune("D1FlatNP3OEnvCfg")>>)
D1FlatNP3OEnvCfg_PLAY ==
  Inherits(D1FlatNP3OEnvCfg, "D1FlatNP3OEnvCfg_PLAY",
           <<Drop(Pushes), Drop(Randomised), Drop(Levels), Prune("D1FlatNP3OEnvCfg_PLAY")>>)

\* UniformThresholdVelocityCommandCfg under the same name.
PlatformCommandsCfg == Plain(Of("commands", {"base_velocity"}))
D1PlatformNP3OEnvCfg ==
  D1RoughEnvCfg \o Class("D1PlatformNP3OEnvCfg", {"commands"}, PlatformCommandsCfg,
    <<Add(Plain(Scene({"terrain_generator"}))), Prune("D1PlatformNP3OEnvCfg")>>)
D1PlatformNP3OEnvCfg_PLAY ==
  Inherits(D1PlatformNP3OEnvCfg, "D1PlatformNP3OEnvCfg_PLAY",
           <<Drop(Pushes), Drop(Levels), Use(Of("commands", {"base_velocity"})),
             Prune("D1PlatformNP3OEnvCfg_PLAY")>>)

\* d1/dreamwaq.
D1RoughDreamWaQEnvCfg ==
  D1RoughEnvCfg \o Class("D1RoughDreamWaQEnvCfg", Observed, DreamWaQObservationsCfg,
                         <<Stack(5), Prune("D1RoughDreamWaQEnvCfg")>>)
D1RoughDreamWaQEnvCfg_PLAY ==
  Inherits(D1RoughDreamWaQEnvCfg, "D1RoughDreamWaQEnvCfg_PLAY", <<Drop(Pushes)>>)
D1FlatDreamWaQEnvCfg ==
  Inherits(D1RoughDreamWaQEnvCfg, "D1FlatDreamWaQEnvCfg",
           <<Plane, Blind, Drop(Scanner), Drop(TerrainLevels), Prune("D1FlatDreamWaQEnvCfg")>>)
D1FlatDreamWaQEnvCfg_PLAY ==
  Inherits(D1FlatDreamWaQEnvCfg, "D1FlatDreamWaQEnvCfg_PLAY", <<Drop(Pushes), Drop(Randomised)>>)

\* d1h: two wheels, no scanner over the base.
D1hSceneCfg == Plain(Scene({"terrain_generator", "robot", "height_scanner", "contact_forces",
                            "light", "sky_light", "base_link", "foot"}))
D1hCommandsCfg == Plain(Of("commands", {"base_velocity"}))
D1HActionsCfg == Plain(Legs({"fl", "fr"}))
D1hObservationsCfg ==
  Part(Of("policy", Proprio) \cup Of("critic", Proprio \cup {"base_lin_vel"}) \cup PrivCfg \cup Scanner,
       {}, {ByCommand("policy"), ByCommand("critic"), Scanned(<<"scanner", "height_scan">>)}
             \cup Selects(Contacts, {"foot"}))
\* The base is selected as ".*_base_link", which matches F_base_link alone.
D1hEventCfg ==
  Part(OnBase \cup Events({"physics_material", "randomize_actuator_gains", "reset_base",
                           "reset_robot_joints", "push_robot"}), {},
       Selects(OnBase, {"F_base_link"}))
D1hRewardsCfg ==
  LET paid == {"lin_vel_z_l2", "ang_vel_xy_l2", "flat_orientation_l2", "base_height_l2",
               "joint_acc_l2", "joint_power", "joint_pos_penalty", "action_rate_l2",
               "undesired_contacts", "upward", "default_joint_l2", "hip_pos", "body_pos_to_feet_x",
               "body_feet_distance_x", "body_feet_distance_y", "body_symmetry_y", "body_symmetry_z"}
      zero == {"is_terminated", "joint_torques_l2", "joint_vel_l2", "joint_pos_limits",
               "joint_vel_limits", "joint_mirror", "contact_forces", "feet_air_time",
               "collision_head", "dof_thigh_vel"}
      feet == {"contact_forces", "feet_air_time", "body_pos_to_feet_x", "body_feet_distance_x",
               "body_feet_distance_y", "body_symmetry_y", "body_symmetry_z"}
  IN Part(Tracks \cup Rewards(paid \cup zero), Rewards(zero),
          Follow(Tracks \cup Rewards({"joint_pos_penalty"})) \cup Selects(Rewards(feet), {"foot"}))
D1hTerminationsCfg == Plain(Of("terminations", {"time_out", "terrain_out_of_bounds"}))
D1hCurriculumCfg == Part(TerrainLevels, {}, TerrainLevels \X Scene({"terrain_generator"}))
D1hCostsCfg == Plain(Of("costs", {"joint_pos_limit", "joint_vel_limit", "joint_torque_limit"}))
D1hBase ==
  Join(Join(Join(D1hSceneCfg, D1hCommandsCfg), Join(D1HActionsCfg, D1hObservationsCfg)),
       Join(Join(D1hEventCfg, D1hRewardsCfg), Join(D1hCostsCfg, Join(D1hTerminationsCfg, D1hCurriculumCfg))))
D1hRoughEnvCfg ==
  Class("D1hRoughEnvCfg", Groups, D1hBase,
        <<Use(PolicyJoints), Stack(10), Use(Events({"reset_base"})), PruneAlways(FALSE)>>)
D1hRoughEnvCfg_PLAY == Inherits(D1hRoughEnvCfg, "D1hRoughEnvCfg_PLAY", <<Drop(Pushes)>>)
D1hFlatEnvCfg ==
  Inherits(D1hRoughEnvCfg, "D1hFlatEnvCfg",
           <<Plane, Blind, Drop(Scanner), Drop(TerrainLevels), Use(Of("commands", {"base_velocity"}))>>)
D1hFlatEnvCfg_PLAY == Inherits(D1hFlatEnvCfg, "D1hFlatEnvCfg_PLAY", <<Drop(Pushes), Drop(Randomised)>>)

\* The runners of the agents packages.
Np3oRunner == Runner("np3o", 24)
DreamWaQRunner == Runner("dreamwaq", 24)
PPORunner == Runner("ppo", 24)

\* d1/__init__.py and d1h/__init__.py.
D1Tasks ==
  Pair("Velocity-Flat-D1", D1FlatEnvCfg, D1FlatEnvCfg_PLAY, PPORunner)
    \cup Pair("Velocity-Rough-D1", D1RoughEnvCfg, D1RoughEnvCfg_PLAY, PPORunner)
    \cup Pair("Velocity-Flat-D1-NP3O", D1FlatNP3OEnvCfg, D1FlatNP3OEnvCfg_PLAY, Np3oRunner)
    \cup Pair("Velocity-Rough-D1-NP3O", D1RoughNP3OEnvCfg, D1RoughNP3OEnvCfg_PLAY, Np3oRunner)
    \cup Pair("Velocity-Flat-D1-DreamWaQ", D1FlatDreamWaQEnvCfg, D1FlatDreamWaQEnvCfg_PLAY,
              DreamWaQRunner)
    \cup Pair("Velocity-Rough-D1-DreamWaQ", D1RoughDreamWaQEnvCfg, D1RoughDreamWaQEnvCfg_PLAY,
              DreamWaQRunner)
PlatformTasks ==
  Pair("Velocity-Platform-D1-NP3O", D1PlatformNP3OEnvCfg, D1PlatformNP3OEnvCfg_PLAY, Np3oRunner)
D1HTasks ==
  Pair("Velocity-Flat-D1H-NP3O", D1hFlatEnvCfg, D1hFlatEnvCfg_PLAY, Np3oRunner)
    \cup Pair("Velocity-Rough-D1H-NP3O", D1hRoughEnvCfg, D1hRoughEnvCfg_PLAY, Np3oRunner)
=============================================================================

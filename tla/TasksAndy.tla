----------------------------- MODULE TasksAndy -----------------------------
(***************************************************************************)
(* The environment configurations of the robot Andy and its registered     *)
(* tasks.  They are built on Mini's classes, but Andy drives on its third  *)
(* links: it has no leg_4, and it has two passive wheels that Mini lacks.  *)
(* (Its model file is not kept here: its links are those that              *)
(* andy/rough_env_cfg.py, 6-43, names.)                                    *)
(***************************************************************************)
EXTENDS TasksMini

\* andy/rough_env_cfg.py.
AndySceneCfg == Plain((MiniSceneCfg.terms \ Scene({"leg_4"})) \cup Scene({"wheel_1"}))
AndyActionsCfg ==
  LET legs == Of("actions", {"joint_pos_0", "joint_pos_1", "joint_pos_3", "joint_pos_4"})
      wheels == Of("actions", {"joint_vel_2", "joint_vel_5"})
  IN Part(legs \cup wheels, {}, Selects(wheels, {"leg_3"}))
Leg3 == Scene({"leg_3"})
Leg4 == Scene({"leg_4"})
JointTerms == {<<"policy", "joint_pos">>, <<"critic", "joint_pos">>}
Costs == Of("costs", {"joint_pos_limit", "joint_vel_limit", "joint_torque_limit"})
configure_andy_mdp ==
  <<Swap(JointTerms, Leg4, Leg3), Use(Of("policy", {"joint_vel"}) \cup Of("critic", {"joint_vel"})),
    Swap(Contacts, Leg4, Leg3),
    Use(PrivCfg \cup Events({"randomize_actuator_gains", "reset_robot_joints"})),
    Use(Rewards({"dof_torques_l2", "dof_acc_l2", "joint_mirror"})),
    Swap(Rewards({"stand_still"}), Leg4, Leg3),
    Swap(Rewards({"undesired_contacts"}), Leg3, Scene({"leg_2"})), Use(Rewards({"base_height_l2"})),
    Retarget(Rewards(OnWheels), Leg4, Leg3), Use(Costs)>>
\* A class of Mini with Andy's scene and actions.
AndyClass(base, name, post) ==
  base \o Class(name, {"scene", "actions"}, Join(AndySceneCfg, AndyActionsCfg), post)
AndyRoughEnvCfg ==
  AndyClass(MiniRoughEnvCfg, "AndyRoughEnvCfg", configure_andy_mdp \o <<Drop(Pushes)>>)
AndyRoughEnvCfg_PLAY == Inherits(AndyRoughEnvCfg, "AndyRoughEnvCfg_PLAY", <<Drop(Pushes)>>)

\* andy/flat_env_cfg.py.
OnPassiveWheels(terms) == Selects(terms, {"wheel_1"})
AuxiliaryWheelContacts ==
  LET contacts == Rewards({"auxiliary_wheel_contacts"})
  IN Add(Part(contacts, {}, OnPassiveWheels(contacts)))
AndyFlatEnvCfg ==
  Inherits(AndyRoughEnvCfg, "AndyFlatEnvCfg",
           <<Standing, Quiet, AuxiliaryWheelContacts, Plane, Blind,
             Drop(Of("policy", {"height_scan"})), Drop(Scanner), Drop(TerrainLevels)>>)
AndyFlatEnvCfg_PLAY ==
  Inherits(AndyFlatEnvCfg, "AndyFlatEnvCfg_PLAY", <<Drop(Pushes), Drop(Randomised)>>)

\* andy/recovery_env_cfg.py.
configure_andy_domain_randomization == <<Use(Randomised \cup Events({"physics_material"}))>>
SwingMomentum == Rewards({"inverted_leg_swing_momentum"})
configure_andy_recovery_rewards ==
  <<Use(Scene({"robot"})), Add(Plain(Rewards({"recovery_joint_pose"}))),
    Weigh(Rewards({"base_contact_raw"})), Silence(Rewards({"inverted_ang_vel_bonus"})),
    Add(Part(SwingMomentum, {}, Selects(SwingMomentum, {"leg_2", "base_link"}))),
    AuxiliaryWheelContacts>>
AndyRecoveryPost ==
  configure_andy_mdp \o configure_andy_domain_randomization \o configure_andy_recovery_rewards
    \o <<Drop(Pushes)>>
AndyRecoveryEnvCfg == AndyClass(MiniRecoveryEnvCfg, "AndyRecoveryEnvCfg", AndyRecoveryPost)
AndyRecoveryEnvCfg_PLAY ==
  Inherits(AndyRecoveryEnvCfg, "AndyRecoveryEnvCfg_PLAY", <<Drop(Pushes), Drop(Randomised)>>)
AndyRecoveryRoughEnvCfg ==
  AndyClass(MiniRecoveryRoughEnvCfg, "AndyRecoveryRoughEnvCfg", AndyRecoveryPost)
AndyRecoveryRoughEnvCfg_PLAY ==
  Inherits(AndyRecoveryRoughEnvCfg, "AndyRecoveryRoughEnvCfg_PLAY", <<Drop(Pushes), Drop(Randomised)>>)

\* andy/jump_env_cfg.py.
AndyJumpFlatEnvCfg ==
  AndyClass(MiniJumpFlatEnvCfg, "AndyJumpFlatEnvCfg",
    configure_andy_mdp
      \o <<Swap(JumpCmd, Leg4, Leg3),
           Use(Rewards({"jump_flight_height", "jump_before_setting"})),
           Weigh(Rewards({"jump_before_setting", "lin_vel_z_jump"})),
           Add(Part(BaseContact, {}, OnPassiveWheels(BaseContact)
                                       \cup Selects(BaseContact, {"base_link"}))),
           Use(Events({"reset_base", "reset_robot_joints"}))>>
      \o configure_andy_domain_randomization \o configure_andy_recovery_rewards
      \o <<Drop(Rewards({"recovery_joint_pose"})),
           Swap(Rewards({"base_height_l2", "upward", "upright_progress"}), {}, JumpCmd),
           Drop(Pushes), Drop(Events({"jump_assist"}))>>)
AndyJumpFlatEnvCfg_PLAY ==
  Inherits(AndyJumpFlatEnvCfg, "AndyJumpFlatEnvCfg_PLAY",
           <<Drop(Pushes), Drop(Events({"jump_assist"})), Drop(Randomised),
             Use(Events({"reset_robot_joints"}))>> \o Tail(Tail(Tail(JumpPlay))))

\* andy/height_env_cfg.py: base_velocity carries [vx, height, yaw rate].
HeightCommandsCfg == Plain(Of("commands", {"base_velocity"}))
HeightTerms == Rewards({"tracking_base_height", "base_height_error", "auxiliary_contact_low",
                        "auxiliary_contact_high", "tracking_leg_2_height"})
AndyHeightFlatPost ==
  <<Use(Scene({"robot"})), Use(AndyActionsCfg.terms),
    Use({<<"policy", "velocity_commands">>, <<"critic", "velocity_commands">>}),
    Add(Part(Rewards({"track_lin_vel_xy_exp"}), {}, Follow(Rewards({"track_lin_vel_xy_exp"})))),
    Weigh(Rewards({"track_ang_vel_z_exp", "lin_vel_z_l2", "ang_vel_xy_l2", "dof_acc_l2",
                   "action_rate_l2", "joint_mirror", "is_terminated"})),
    Drop(Rewards({"stand_still"})),
    Add(Part(Rewards({"stationary_motion"}), {}, Follow(Rewards({"stationary_motion"})))),
    Drop(Rewards({"base_height_l2", "upward", "upright_progress", "auxiliary_wheel_contacts"})),
    Add(Part(HeightTerms, {},
             Follow(HeightTerms)
               \cup OnPassiveWheels(Rewards({"auxiliary_contact_low", "auxiliary_contact_high"})))),
    Add(Plain(Rewards({"dof_vel_l2", "dof_pos_limits"}))),
    Point(BaseContact, Scene({"base_link", "leg_2"})),
    Add(Plain(Of("terminations", {"min_base_height"}) \cup Events({"push_robot"})))>>
AndyHeightFlatEnvCfg ==
  AndyFlatEnvCfg \o Class("AndyHeightFlatEnvCfg", {"commands"}, HeightCommandsCfg, AndyHeightFlatPost)
AndyHeightFlatEnvCfg_PLAY ==
  Inherits(AndyHeightFlatEnvCfg, "AndyHeightFlatEnvCfg_PLAY",
           <<Drop(Randomised \cup Events({"push_robot"}))>>)

\* andy/pace: the identified motors, then randomisation around them, then a
\* fixed height.
apply_pace_height ==
  <<Use(Scene({"contact_forces", "robot"})),
    Use(Of("actions", {"joint_pos_0", "joint_pos_1", "joint_pos_3", "joint_pos_4"})),
    Drop(Randomised \cup Pushes \cup Events({"physics_material"})),
    Use(Events({"reset_robot_joints"}))>>
AndyPaceHeightFlatEnvCfg ==
  Inherits(AndyHeightFlatEnvCfg, "AndyPaceHeightFlatEnvCfg", apply_pace_height)
AndyPaceHeightFlatEnvCfg_PLAY ==
  Inherits(AndyPaceHeightFlatEnvCfg, "AndyPaceHeightFlatEnvCfg_PLAY", <<>>)

BaseVelocity == Of("commands", {"base_velocity"})
Stationary == Rewards({"stationary_translation", "stationary_yaw", "stationary_tracking",
                       "stationary_leg_motion"})
PaceBase(name) == Add(Part(Events({name}), {}, Selects(Events({name}), {"base_link"})))
PacePush == Of("curriculum", {"pace_push"})
AndyPaceRobustPost ==
  <<Use(BaseVelocity), Drop(Rewards({"stationary_motion"})),
    Add(Part(Stationary, {}, Follow(Stationary))), Weigh(Rewards({"action_rate_l2"})),
    Add(Plain(Events({"randomize_actuator_gains", "pace_joint_parameters"}))),
    PaceBase("add_base_mass"), PaceBase("add_base_com"), Add(Plain(Events({"physics_material"}))),
    Use(Events({"reset_robot_joints"})),
    Use(Of("policy", {"base_ang_vel", "projected_gravity", "joint_pos", "joint_vel"})),
    Add(Plain(Events({"push_robot"}))),
    Add(Part(PacePush, {}, PacePush \X Rewards({"tracking_base_height"})))>>
\* Mutant: the centre of mass is not randomised again.
AndyPaceRobustFixedCom ==
  Inherits(AndyPaceHeightFlatEnvCfg, "AndyPaceRobustHeightFlatEnvCfg",
           SelectSeq(AndyPaceRobustPost, LAMBDA s : s # PaceBase("add_base_com")))
AndyPaceRobustHeightFlatEnvCfg ==
  Inherits(AndyPaceHeightFlatEnvCfg, "AndyPaceRobustHeightFlatEnvCfg", AndyPaceRobustPost)
AndyPaceRobustHeightFlatEnvCfg_PLAY ==
  Inherits(AndyPaceRobustHeightFlatEnvCfg, "AndyPaceRobustHeightFlatEnvCfg_PLAY", <<>>)

AndyPaceFixedHeightFlatEnvCfg ==
  Inherits(AndyPaceRobustHeightFlatEnvCfg, "AndyPaceFixedHeightFlatEnvCfg",
           <<Use(BaseVelocity), Drop(Rewards({"tracking_leg_2_height", "auxiliary_contact_low"})),
             Add(Part(Rewards({"stationary_pose"}), {}, Follow(Rewards({"stationary_pose"})))),
             Weigh(Rewards({"stationary_translation", "stationary_yaw", "stationary_tracking",
                            "flat_orientation_l2"})),
             Use(Scene({"robot"})),
             Use(Events({"randomize_actuator_gains", "pace_joint_parameters", "add_base_mass",
                         "add_base_com"})),
             Add(Plain(Events({"add_base_inertia"}))),
             Use(Events({"physics_material", "reset_robot_joints", "reset_base"})),
             Use(Of("policy", {"base_ang_vel", "projected_gravity", "joint_pos", "joint_vel"})),
             Use(Events({"push_robot"}))>>)
AndyPaceFixedHeightFlatEnvCfg_PLAY ==
  Inherits(AndyPaceFixedHeightFlatEnvCfg, "AndyPaceFixedHeightFlatEnvCfg_PLAY",
           <<Drop(Randomised \cup Events({"pace_joint_parameters", "physics_material", "push_robot"})),
             Drop(PacePush), Use(Scene({"robot"}))>>)

\* andy/__init__.py and andy/pace/__init__.py.
AndyTasks ==
  Pair("Velocity-Flat-Andy", AndyFlatEnvCfg, AndyFlatEnvCfg_PLAY, Np3oRunner)
    \cup Pair("Velocity-Rough-Andy", AndyRoughEnvCfg, AndyRoughEnvCfg_PLAY, Np3oRunner)
    \cup Pair("Recovery-Flat-Andy", AndyRecoveryEnvCfg, AndyRecoveryEnvCfg_PLAY, Np3oRunner)
    \cup Pair("Recovery-Rough-Andy", AndyRecoveryRoughEnvCfg, AndyRecoveryRoughEnvCfg_PLAY, Np3oRunner)
    \cup Pair("jump-Flat-Andy", AndyJumpFlatEnvCfg, AndyJumpFlatEnvCfg_PLAY, Np3oRunner)
    \cup Pair("Height-Flat-Andy", AndyHeightFlatEnvCfg, AndyHeightFlatEnvCfg_PLAY, Np3oRunner)
PaceTasks ==
  Pair("Height-Flat-Andy-Pace", AndyPaceHeightFlatEnvCfg, AndyPaceHeightFlatEnvCfg_PLAY, Np3oRunner)
    \cup Pair("Height-Flat-Andy-Pace-Robust", AndyPaceRobustHeightFlatEnvCfg,
              AndyPaceRobustHeightFlatEnvCfg_PLAY, Np3oRunner)
    \cup Pair("Velocity-Flat-Andy-Pace-Fixed035", AndyPaceFixedHeightFlatEnvCfg,
              AndyPaceFixedHeightFlatEnvCfg_PLAY, Np3oRunner)
=============================================================================

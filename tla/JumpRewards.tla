----------------------------- MODULE JumpRewards ---------------------------
(***************************************************************************)
(* The rewards of mdp/rewards.py that are gated by the stage of a jump     *)
(* term.  Isaac Lab evaluates them in every env.step before the resets and *)
(* before the term's own update, so they see the stage of the last step.   *)
(* Only whether a reward pays is kept; b says that the body does what the  *)
(* reward of its stage asks for: ground contact in PREP and LAND, rising   *)
(* in TAKEOFF and FLIGHT, being over min_height in FLIGHT.                 *)
(***************************************************************************)
EXTENDS JumpTerm

CONSTANT WindowSteps  \* flight_reward_window_s, in control steps
ASSUME WindowAssumption == WindowSteps \in Nat

\* Each function pays, for the robot of row s.
jump_before_setting(s, b) == s.stage = "PREP" /\ b
lin_vel_z_jump(s, b) == s.stage \in {"TAKEOFF", "FLIGHT"} /\ b
\* Mutant: the window is not looked at.
WholeFlight(s, b) == s.stage = "FLIGHT" /\ b
jump_flight_height(s, b) == s.stage = "FLIGHT" /\ s.fly <= WindowSteps /\ b
\* jump_land_stability and jump_land_orientation.
jump_land(s, b) == s.stage = "LAND" /\ b
\* The gate of upward, base_height_l2 and upright_progress.
Standing(s) == s.stage \in {"RECOVERY", "LAND"}

\* The bonus of the stage; lin_vel_z_jump goes on in FLIGHT, where gravity
\* ends it.
Bonus(s, b) == \/ jump_before_setting(s, b) \/ jump_land(s, b) \/ jump_flight_height(s, b)
               \/ lin_vel_z_jump(s, b) /\ s.stage = "TAKEOFF"

\* The account of a stage: how often its bonus has been paid, and for how
\* many steps on the ground the posture rewards have not.
Zero == [stage |-> "RECOVERY", bonus |-> 0, unposed |-> 0]
Paid(n, s, b) ==
  [stage   |-> s.stage,
   bonus   |-> (IF n.stage = s.stage THEN n.bonus ELSE 0) + (IF Bonus(s, b) THEN 1 ELSE 0),
   unposed |-> IF Standing(s) \/ s.flown THEN 0 ELSE n.unposed + 1]

\* No stage of a jump can be drawn out for its bonus: it is paid at most prep
\* times in PREP, less than s1_timeout in TAKEOFF, for flight_reward_window in
\* FLIGHT, which itself has no timeout, and less than s3_timeout in LAND; and
\* the posture is unpaid for less than PREP and TAKEOFF together may last.
Bounded(n, prep) ==
  /\ n.stage = "RECOVERY" => n.bonus = 0
  /\ n.stage = "PREP" => n.bonus <= prep
  /\ n.stage = "TAKEOFF" => n.bonus < S1Steps
  /\ n.stage = "FLIGHT" => n.bonus <= WindowSteps
  /\ n.stage = "LAND" => n.bonus < S3Steps
  /\ n.unposed < prep + S1Steps
=============================================================================

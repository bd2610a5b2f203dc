---------------------------- MODULE TerrainJump ----------------------------
(***************************************************************************)
(* TerrainJumpCommand of mdp/commands.py: the same stages, started by an   *)
(* obstacle in the height scan instead of a command.  The scan is reduced  *)
(* to what _update_obstacle_geometry decides: no obstacle, one farther     *)
(* than takeoff_distance, or one within it (without an obstacle the        *)
(* distance is max_detection_distance, which is beyond takeoff_distance).  *)
(* trigger_step is drawn and never read, so it stays 0 here.               *)
(***************************************************************************)
EXTENDS JumpRewards

CONSTANT PrepSteps  \* prep_timeout_s, in control steps

ASSUME PrepAssumption == PrepSteps \in Nat \ {0}

VARIABLES
  st,       \* the term's row
  episode, steps, touch, paid,  \* as in JumpFsm
  fresh,    \* history: the last step has reset the row
  obstacle  \* what the scan shows in this step

vars == <<st, episode, steps, touch, paid, fresh, obstacle>>

Scan == {"none", "far", "near"}

\* _reset_jump_state: the drawn command is overwritten.
ResetTerrain(s) == Reset(s, 0, 0, 0)

\* begin_prep.
Noticed(s, o) ==
  IF s.stage = "RECOVERY" /\ o # "none" THEN [s EXCEPT !.stage = "PREP", !.cmd = 1] ELSE s

Due(s, o) == o = "near" \/ s.prep >= PrepSteps
\* Mutant: the stages are not cancelled.
LostNever(s, o) == FALSE
\* lost_obstacle, by the stage before takeoff.
Lost(s, o) == s.stage = "PREP" /\ o = "none"

\* The prep timer, takeoff and lost_obstacle: a jump whose timer runs out in
\* the update that loses the obstacle is cancelled.
Prepared(s, o) ==
  LET p == [s EXCEPT !.prep = IF s.stage = "PREP" THEN @ + 1 ELSE 0]
      k == IF s.stage = "PREP" /\ Due(p, o) THEN [p EXCEPT !.stage = "TAKEOFF"] ELSE p
  IN IF Lost(s, o) THEN ResetTerrain(k) ELSE k

\* _update_command up to the timeouts.
Updated(s, warm, t, fit, o) == Counted(Prepared(Noticed(Contact(s, t, fit), o), o), warm)

Init ==
  /\ st = Blank /\ paid = Zero /\ fresh = TRUE
  /\ episode \in 0..(EpisodeSteps - 1)  \* init_at_random_ep_len, as in JumpFsm
  /\ steps = 0 /\ touch \in BOOLEAN /\ obstacle = "none"

\* One env.step: over is a termination, t, fit, b and o the physics.
Step(over, t, fit, b, o) ==
  LET ended == over \/ episode + 1 >= EpisodeSteps
      begun == IF ended THEN ResetTerrain(st) ELSE st
      upd   == Updated(begun, Warm(Ticked(steps)), t, fit, o)
  IN /\ st' = IF Expired(upd) THEN ResetTerrain(upd) ELSE upd
     /\ episode' = IF ended THEN 0 ELSE episode + 1
     /\ steps' = Ticked(steps) /\ touch' = t /\ obstacle' = o
     /\ fresh' = (ended \/ st'.stage = "RECOVERY")
     /\ paid' = Paid(IF fresh THEN Zero ELSE paid, st, b)

Next == \E over, t, fit, b \in BOOLEAN, o \in Scan : Step(over, t, fit, b, o)

Spec == Init /\ [][Next]_vars
-----------------------------------------------------------------------------
(* Properties. *)

\* Types of all variables; no timer reaches its timeout, so nobody waits in
\* PREP, TAKEOFF or LAND for ever; the timer of PREP keeps its last value for
\* the first step of TAKEOFF.
TypeOK ==
  /\ st \in [cmd : {0, 1}, stage : Stage, flown : BOOLEAN, jumped : BOOLEAN,
             last : BOOLEAN, rec : 0..(RecoverySteps - 1), s1 : 0..(S1Steps - 1), fly : Nat,
             s3 : 0..(S3Steps - 1), trigger : {0}, prep : 0..PrepSteps]
  /\ st.stage # "TAKEOFF" => st.prep < PrepSteps
  /\ episode \in 0..(EpisodeSteps - 1) /\ steps \in 0..WarmupSteps
  /\ touch \in BOOLEAN /\ obstacle \in Scan /\ fresh \in BOOLEAN
  /\ paid \in [stage : Stage, bonus : Nat, unposed : Nat]

\* The internal reward activation is set exactly while a jump is under way,
\* so no reward of a jump is paid in RECOVERY and none is withheld later.
ActiveIffJumping ==
  /\ st.cmd = 1 <=> st.stage # "RECOVERY"
  /\ st.flown <=> st.stage \in {"FLIGHT", "LAND"}
  /\ st.jumped <=> st.stage = "LAND"

\* A take-off is rewarded only in front of an obstacle: one that is lost in
\* the very update in which the timer of PREP runs out cancels the jump.
TakeoffSeesObstacle ==
  [][st.stage # "TAKEOFF" /\ st'.stage = "TAKEOFF" => obstacle' # "none"]_vars

\* A jump's bonuses are bounded here too.
BonusBounded == Bounded(paid, PrepSteps - 1)

\* The stages run as JumpStages says here too.
Stages == INSTANCE JumpStages WITH stage <- st.stage, cmd <- st.cmd,
                                   flown <- st.flown, jumped <- st.jumped
ImplementsStages == Stages!Spec
=============================================================================

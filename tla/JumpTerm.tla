------------------------------ MODULE JumpTerm -----------------------------
(***************************************************************************)
(* The methods that JumpCommand and TerrainJumpCommand of mdp/commands.py  *)
(* share, as functions of the term's state, for one robot (the rows of the *)
(* tensors are independent).                                               *)
(*                                                                         *)
(* The contacts are one Boolean: airborne and landed only ask whether any  *)
(* wheel touched the ground in this update or in the last one.  fly is     *)
(* flight_reward_timer; prep, the timer of TerrainJumpCommand, stays 0 in  *)
(* JumpCommand.  Heights, positions and metrics are left out.              *)
(***************************************************************************)
EXTENDS Integers

CONSTANTS
  RecoverySteps, S1Steps, S3Steps,  \* the timeouts, in control steps
  WarmupSteps,   \* warmup_iterations * steps_per_iteration
  EpisodeSteps   \* max_episode_length

ASSUME TimeoutAssumption ==
  RecoverySteps \in Nat \ {0} /\ S1Steps \in Nat \ {0} /\ S3Steps \in Nat \ {0}
ASSUME StepsAssumption == WarmupSteps \in Nat /\ EpisodeSteps \in Nat \ {0}

Stage == {"RECOVERY", "PREP", "TAKEOFF", "FLIGHT", "LAND"}

\* The term's row after construction.
Blank == [cmd |-> 0, stage |-> "RECOVERY", flown |-> FALSE, jumped |-> FALSE, last |-> FALSE,
          rec |-> 0, s1 |-> 0, fly |-> 0, s3 |-> 0, trigger |-> 0, prep |-> 0]

\* warmup_complete after n steps; n is counted up to WarmupSteps.
Warm(n) == n >= WarmupSteps
Ticked(n) == IF n < WarmupSteps THEN n + 1 ELSE n

\* Mutants: a reset in the middle of an episode counts its delay from 0; the
\* flag of a past flight stays.
ResetFromZero(s, c, base, d) ==
  [s EXCEPT !.cmd = c, !.stage = "RECOVERY", !.flown = FALSE, !.jumped = FALSE,
            !.last = FALSE, !.rec = 0, !.s1 = 0, !.fly = 0, !.s3 = 0, !.trigger = d, !.prep = 0]
ResetKeepsFlown(s, c, base, d) ==
  [s EXCEPT !.cmd = c, !.stage = "RECOVERY", !.jumped = FALSE,
            !.last = FALSE, !.rec = 0, !.s1 = 0, !.fly = 0, !.s3 = 0, !.trigger = base + d,
            !.prep = 0]
\* _reset_jump_state with the command c and the delay d that were drawn;
\* base is 0 for an absolute reset, else episode_length_buf.
Reset(s, c, base, d) ==
  [s EXCEPT !.cmd = c, !.stage = "RECOVERY", !.flown = FALSE, !.jumped = FALSE,
            !.last = FALSE, !.rec = 0, !.s1 = 0, !.fly = 0, !.s3 = 0, !.trigger = base + d,
            !.prep = 0]

\* Mutant: the last contacts are not looked at.
FilteredNow(s, t) == t
\* Some wheel's contact_filt.
Filtered(s, t) == t \/ s.last
\* Mutant: any stage but LAND may leave the ground.
MayLeaveAnytime(s) == s.stage # "LAND"
MayLeave(s) == s.stage = "TAKEOFF"
\* _update_contact_state; t: some wheel touches, fit: the optional height and
\* velocity conditions hold.
Contact(s, t, fit) ==
  LET off    == ~Filtered(s, t) /\ fit /\ MayLeave(s)
      landed == Filtered(s, t) /\ s.flown
  IN [s EXCEPT !.last = t, !.flown = @ \/ off, !.jumped = @ \/ landed,
               !.stage = IF landed THEN "LAND" ELSE IF off THEN "FLIGHT" ELSE @]

\* _update_jump_timers: the counts, and whether one has expired.
Counted(s, warm) ==
  [s EXCEPT !.rec = IF warm /\ s.cmd = 0 /\ s.stage = "RECOVERY" THEN @ + 1 ELSE 0,
            !.s1 = IF s.stage = "TAKEOFF" THEN @ + 1 ELSE 0,
            !.fly = IF s.stage = "FLIGHT" THEN @ + 1 ELSE 0,
            !.s3 = IF s.stage = "LAND" THEN @ + 1 ELSE 0]
\* Mutant: one step too late.
ExpiredLate(s) == s.rec > RecoverySteps \/ s.s1 > S1Steps \/ s.s3 > S3Steps
Expired(s) == s.rec >= RecoverySteps \/ s.s1 >= S1Steps \/ s.s3 >= S3Steps
=============================================================================

------------------------------ MODULE JumpFsm ------------------------------
(***************************************************************************)
(* JumpCommand of mdp/commands.py: the stage machine of the commanded jump *)
(* in the training environments, for one robot.                            *)
(*                                                                         *)
(* Step is one env.step: Isaac Lab (external) moves the physics, counts    *)
(* the steps, resets an ended episode through _resample_command, and then  *)
(* calls _update_command.                                                  *)
(***************************************************************************)
EXTENDS JumpRewards

CONSTANTS MinDelay, MaxDelay  \* trigger_step_range is (MinDelay, MaxDelay + 1)
ASSUME DelayAssumption == MinDelay \in Nat /\ MaxDelay \in Nat /\ MinDelay <= MaxDelay

VARIABLES
  play,     \* cfg.play_mode: every segment jumps
  manual,   \* cfg.manual_mode: jump_cmd is set by play.py
  st,       \* the term's row: see TypeOK
  episode,  \* episode_length_buf
  steps,    \* common_step_counter, up to WarmupSteps
  touch,    \* some wheel touches the ground in this step
  age,      \* history: updates since the last reset
  key,      \* jump_command of play.py: the operator holds the key
  paid      \* history: what the rewards have paid for in the stage

modes == <<play, manual>>
vars == <<modes, st, episode, steps, touch, age, key, paid>>

\* _update_command, automatic: both transitions may happen in one update.
Trigger(s, ep, can) ==
  LET go   == can /\ s.cmd = 1
      prep == IF go /\ s.stage = "RECOVERY" THEN "PREP" ELSE s.stage
  IN [s EXCEPT !.stage = IF go /\ ep >= s.trigger /\ prep = "PREP" THEN "TAKEOFF" ELSE prep]

\* _update_command, manual mode.
Manual(s) ==
  [s EXCEPT !.stage = IF s.cmd = 0 THEN "RECOVERY"
                      ELSE IF @ = "RECOVERY" THEN "TAKEOFF" ELSE @]

\* _update_command up to the timeouts.
Updated(s, ep, warm, t, fit) ==
  LET c == Contact(s, t, fit)
  IN Counted(IF manual THEN Manual(c) ELSE Trigger(c, ep, warm \/ play), warm)

\* What a reset may draw: the delay (play_trigger_steps is one of them), the
\* command.
Delay == MinDelay..MaxDelay
Drawn == IF play THEN {1} ELSE {0, 1}

\* After the reset that precedes the first step.  train.py has learn() draw
\* episode_length_buf anew after it (init_at_random_ep_len), so that the
\* trigger, drawn by that reset, may lie behind; play.py, whose modes play and
\* manual are, leaves it at 0.
Init ==
  /\ play \in BOOLEAN /\ manual \in BOOLEAN
  /\ \E c \in Drawn, d \in Delay : st = Reset(Blank, c, 0, d)
  /\ episode \in IF play \/ manual THEN {0} ELSE 0..(EpisodeSteps - 1)
  /\ steps = 0 /\ touch \in BOOLEAN /\ age = 0 /\ key = 0
  /\ paid = Zero

\* play.py stores the key's state before the step, in manual mode only.
Pressed(s, k) == IF manual THEN [s EXCEPT !.cmd = k] ELSE s

\* One env.step: k is key's new value, over a termination, t, fit and b the
\* physics, c and d what a reset draws.
Step(k, over, t, fit, b, c, d) ==
  LET ended == over \/ episode + 1 >= EpisodeSteps
      ep    == IF ended THEN 0 ELSE episode + 1
      begun == IF ended THEN Reset(Pressed(st, k), c, 0, d) ELSE Pressed(st, k)
      upd   == Updated(begun, ep, Warm(Ticked(steps)), t, fit)
  IN /\ st' = IF Expired(upd) THEN Reset(upd, c, ep, d) ELSE upd
     /\ episode' = ep /\ steps' = Ticked(steps) /\ touch' = t
     /\ key' = k /\ UNCHANGED modes
     /\ paid' = Paid(IF age = 0 THEN Zero ELSE paid, st, b)
     /\ age' = IF ended \/ Expired(upd) THEN 0 ELSE age + 1

Keys == IF manual THEN {0, 1} ELSE {0}

Next == \E k \in Keys, over, t, fit, b \in BOOLEAN, c \in Drawn, d \in Delay :
          Step(k, over, t, fit, b, c, d)

Spec == Init /\ [][Next]_vars

\* The training or play loop keeps stepping.
FairSpec == Spec /\ WF_vars(Next)
-----------------------------------------------------------------------------
(* Properties. *)

\* Types of all variables; the timers never reach their timeouts.
TypeOK ==
  /\ st \in [cmd : {0, 1}, stage : Stage, flown : BOOLEAN, jumped : BOOLEAN,
             last : BOOLEAN, rec : 0..(RecoverySteps - 1), s1 : 0..(S1Steps - 1), fly : Nat,
             s3 : 0..(S3Steps - 1), trigger : Nat, prep : Nat]
  /\ play \in BOOLEAN /\ manual \in BOOLEAN
  /\ episode \in 0..(EpisodeSteps - 1) /\ steps \in 0..WarmupSteps
  /\ touch \in BOOLEAN /\ age \in 0..(EpisodeSteps - 1) /\ key \in Keys
  /\ paid \in [stage : Stage, bonus : Nat, unposed : Nat]

\* What the critic sees agrees with the stage in every automatic run: a jump
\* is under way only on command, was_in_flight is set exactly from leaving
\* the ground to the reset, has_jumped exactly from the landing on.
FlagsAgree ==
  ~manual =>
    /\ st.stage # "RECOVERY" => st.cmd = 1
    /\ st.flown <=> st.stage \in {"FLIGHT", "LAND"}
    /\ st.jumped <=> st.stage = "LAND"

\* A flight is declared only when the wheels have been off the ground in this
\* step and in the one before, also across resets, which forget last_contacts.
NoPhantomFlight ==
  [][st.stage # "FLIGHT" /\ st'.stage = "FLIGHT" => ~touch /\ ~touch']_vars

\* A commanded jump takes off when its delay is over: no reset, absolute or
\* in the middle of an episode, makes it earlier or later.  (That it is never
\* earlier takes a warm-up no shorter than the smallest delay, as the training
\* tasks have it: the trigger of a first episode may lie behind already.)
TakesOffOnTime ==
  ~manual =>
    /\ st.stage = "TAKEOFF" => age >= MinDelay
    /\ st.cmd = 1 /\ (play \/ Warm(steps)) /\ st.stage \in {"RECOVERY", "PREP"}
         => age <= MaxDelay

\* A jump's bonuses are bounded, whatever resets, timeouts and contacts do.
BonusBounded == ~manual => Bounded(paid, MaxDelay)

\* An automatic run goes through its stages as JumpStages says: no update
\* skips the flight or the landing, no timeout or reset leaves a flag behind.
\* (In manual mode the operator cuts jumps short: it maps to a standing robot.)
Stages == INSTANCE JumpStages WITH stage <- IF manual THEN "RECOVERY" ELSE st.stage,
                                   cmd <- IF manual THEN 0 ELSE st.cmd,
                                   flown <- ~manual /\ st.flown, jumped <- ~manual /\ st.jumped
ImplementsStages == Stages!Spec

\* Manual mode: a key that stays pressed makes the robot take off again and
\* again, even if it was pressed while was_in_flight was left from a jump
\* that the operator had cut short.  Episodes must last more than one step:
\* the draw at the end of one overwrites the key for an update.
HeldKeyJumps ==
  (<>[](manual /\ key = 1) /\ []<>(episode > 0)) => []<>(st.stage \in {"TAKEOFF", "FLIGHT"})
=============================================================================

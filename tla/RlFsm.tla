------------------------------- MODULE RlFsm -------------------------------
(***************************************************************************)
(* The mode machine of rl_controller (controller/rl_controller/src/fsm):   *)
(* class FSM and its states Passive ("idle"), TransformUp, JointPD,        *)
(* TransformDown and one FSMState_RL per policy.                           *)
(*                                                                         *)
(* RlController::update calls FSM::run once per control cycle.  A run in   *)
(* mode NORMAL runs the current state and asks it where to go; the next    *)
(* run, in mode CHANGE, leaves it, enters the next state and runs that     *)
(* one, without asking it.  The operator's goal is a string that a topic   *)
(* callback stores at any moment between two cycles.                       *)
(*                                                                         *)
(* Joint vectors are abstracted to what they are, not to their values:     *)
(* "setpoint" says which posture the last low_cmd asks the motors for, and *)
(* "tau" is the largest feed-forward torque in it.  A callback that writes *)
(* fsm_name_ while checkTransition copies it yields a name no state knows; *)
(* that outcome is the goal "other", which fsm_goal_cb may store as well.  *)
(***************************************************************************)
EXTENDS Integers

CONSTANTS
  Policy,       \* names of the loaded policies (params->rl_policy_names)
  RlGoal,       \* goals "rl_<n>" that are published
  PolicyOf,     \* what rl_policy_names[stoi(goal.substr(3))] is for each:
                \* a policy, NoPolicy (bad index, not a number) or Overflow
  MaxFoldRamp,  \* bound on fold_timer * rate * (distance to the fold pose)
  StandRamp,    \* standup_ramp_iter = stand_timer * update_rate
  Settle,       \* 100 in the code: cycles to wait after the ramps
  StandTorque,  \* largest entry of transform_up.ff_torque
  PolicyTorque, \* magnitudes kp*command - kd*vel of a wheel can have
  TorqueLimit   \* params->torque_limit

NoPolicy == "none"
Overflow == "out_of_range"     \* stoi throws std::out_of_range

Builtin == {"idle", "transform_up", "joint_pd", "transform_down"}
State   == Builtin \cup Policy
Goal    == Builtin \cup RlGoal \cup {"other"}

ASSUME PolicyAssumption ==
  /\ Policy \cap (Builtin \cup {NoPolicy, Overflow}) = {}
  /\ RlGoal \cap (Builtin \cup {"other"}) = {}
  /\ PolicyOf \in [RlGoal -> Policy \cup {NoPolicy, Overflow}]
ASSUME RampAssumption ==
  MaxFoldRamp \in Nat /\ StandRamp \in Nat /\ Settle \in Nat /\ Settle >= 3
ASSUME TorqueAssumption ==
  /\ StandTorque \in Nat /\ TorqueLimit \in Nat
  /\ PolicyTorque \subseteq Nat /\ PolicyTorque # {}

VARIABLES
  goal,      \* rc_data->fsm_name_
  mode,      \* FSM::_mode
  cur,       \* FSM::_currentState
  next,      \* FSM::_nextState
  mem,       \* counters of the transform state that is current
  setpoint,  \* what low_cmd asks for after the last run
  tau,       \* largest |low_cmd->tau_cmd[i]| after the last run
  halted     \* an exception left FSM::run, the control loop is gone

vars == <<goal, mode, cur, next, mem, setpoint, tau, halted>>

Flag     == {"StandUp", "FoldLegs", "RollOver"}
Setpoint == {"damp",      \* zero gains but joint damping (Passive)
             "limp",      \* low_cmd->zero() and nothing else
             "ramp",      \* between the initial and the target posture
             "fold", "stand", "hold", "policy",
             "nan"}       \* 0/0 in the interpolation

\* _state_iter grows as long as its state is current; from IterCap on no
\* comparison in the code changes its outcome, so the model stops counting.
IterCap == MaxFoldRamp + StandRamp + Settle + 2
Bump(i) == IF i < IterCap THEN i + 1 ELSE i

Mem == [iter : 0..IterCap, foldRamp : 0..MaxFoldRamp, flag : Flag,
        motionStart : 0..(IterCap + 1), finish : BOOLEAN]
-----------------------------------------------------------------------------
(* The states: enter, run and checkTransition of each. *)

\* Mutant: divides by max_iter - 1.
InterpolatedShort(curr, max, target) ==
  IF curr > max THEN target ELSE IF max = 1 THEN "nan" ELSE "ramp"
\* FSMState_TransformUp/Down::_SetJPosInterPts
Interpolated(curr, max, target) ==
  IF curr > max THEN target
  ELSE IF max = 0 THEN "nan"
  ELSE IF curr = max THEN target ELSE "ramp"

\* What state s leaves in the counters when it is entered with the legs
\* "ramp" cycles away from the fold pose.
Entered(s, m, ramp, upside) ==
  CASE s = "transform_up" ->
         [m EXCEPT !.iter = 0, !.foldRamp = ramp, !.motionStart = 0,
                   !.flag = IF upside THEN "RollOver" ELSE "FoldLegs"]
    [] s = "transform_down" ->
         [m EXCEPT !.iter = 0, !.foldRamp = ramp, !.finish = FALSE]
    [] OTHER -> m

\* TransformDown::exit; the other states' exit leave nothing modelled here.
Exited(s, m) == IF s = "transform_down" THEN [m EXCEPT !.finish = FALSE] ELSE m

\* TransformUp::run: the end of the fold phase picks the next phase.
FoldDone(m) == m.flag = "FoldLegs" /\ m.iter - m.motionStart >= m.foldRamp
UpAfterRun(m, upside) ==
  IF FoldDone(m)
  THEN [m EXCEPT !.iter = Bump(@), !.motionStart = m.iter + 1,
                 !.flag = IF upside THEN "RollOver" ELSE "StandUp"]
  ELSE [m EXCEPT !.iter = Bump(@)]
UpSetpoint(m) ==
  CASE m.flag = "FoldLegs" -> Interpolated(m.iter - m.motionStart, m.foldRamp, "fold")
    [] m.flag = "StandUp"  -> Interpolated(m.iter - m.motionStart, StandRamp, "stand")
    [] OTHER               -> "limp"     \* "Transform Up State not defined"

\* Mutant: ++_state_iter forgotten.
DownNotCounting(m) == [m EXCEPT !.finish = @ \/ m.iter >= m.foldRamp + Settle]
\* TransformDown::run
DownAfterRun(m) ==
  [m EXCEPT !.iter = Bump(@), !.finish = @ \/ m.iter >= m.foldRamp + Settle]

AfterRun(s, m, upside) ==
  CASE s = "transform_up"   -> UpAfterRun(m, upside)
    [] s = "transform_down" -> DownAfterRun(m)
    [] OTHER                -> m

SetpointOf(s, m) ==
  CASE s = "idle"           -> "damp"
    [] s = "transform_up"   -> UpSetpoint(m)
    [] s = "joint_pd"       -> "hold"
    [] s = "transform_down" -> Interpolated(m.iter, m.foldRamp, "fold")
    [] OTHER                -> "policy"

\* Feed-forward torque of a run; t is what the policy asks of the wheels.
TorqueOf(s, m, t) ==
  CASE s \in Policy -> t
    [] s = "transform_up" /\ m.flag # "RollOver" -> StandTorque
    [] OTHER -> 0

\* FSM::run 94-98: the result of std::clamp is discarded.
Clamped(t) == t

\* Mutant: the stand ramp is forgotten.
GateWithoutStand(m) == m.iter >= m.foldRamp + Settle
\* (int)(_state_iter - fold_ramp_iter - standup_ramp_iter) >= 100
GateOpen(m) == m.iter >= m.foldRamp + StandRamp + Settle

\* Mutant: the index is not checked against the number of policies.
SelectedUnchecked(s, g) == PolicyOf[g]
Selected(s, g) == IF PolicyOf[g] \in Policy THEN PolicyOf[g] ELSE s

PassiveTarget(g) == IF g \in {"transform_up", "joint_pd"} THEN g ELSE "idle"
\* Mutant: catches only std::invalid_argument.
JointPDEscaping(g) ==
  CASE g \in RlGoal -> IF PolicyOf[g] = Overflow THEN Overflow ELSE Selected("joint_pd", g)
    [] g \in {"idle", "transform_down"} -> g
    [] OTHER -> "joint_pd"
JointPDTarget(g) ==
  CASE g \in RlGoal -> Selected("joint_pd", g)
    [] g \in {"idle", "transform_down"} -> g
    [] OTHER -> "joint_pd"
\* Mutant: "idle" is accepted at any time.
UpAbortable(m, g) == IF g = "idle" THEN "idle" ELSE "transform_up"
\* Only TransformUp lets std::out_of_range escape.
UpTarget(m, g) ==
  CASE ~GateOpen(m) -> "transform_up"
    [] GateOpen(m) /\ g \in RlGoal ->
         IF PolicyOf[g] = Overflow THEN Overflow ELSE Selected("transform_up", g)
    [] GateOpen(m) /\ g \in {"joint_pd", "transform_down"} -> g
    [] OTHER -> "transform_up"
DownTarget(m) == IF m.finish THEN "idle" ELSE "transform_down"
\* Mutant: "idle" is accepted while a policy drives.
PolicyIdle(s, g) ==
  CASE g \in RlGoal -> Selected(s, g)
    [] g \in {"idle", "transform_down"} -> g
    [] OTHER -> s
\* Mutant: the transform_down branch is missing.
PolicyDeaf(s, g) == IF g \in RlGoal THEN Selected(s, g) ELSE s
PolicyTarget(s, g) ==
  CASE g \in RlGoal -> Selected(s, g)
    [] g = "transform_down" -> g
    [] OTHER -> s

CheckTransition(s, m, g) ==
  CASE s = "idle"           -> PassiveTarget(g)
    [] s = "transform_up"   -> UpTarget(m, g)
    [] s = "joint_pd"       -> JointPDTarget(g)
    [] s = "transform_down" -> DownTarget(m)
    [] OTHER                -> PolicyTarget(s, g)

\* FSM::getNextState
GetNextState(s) == IF s \in State THEN s ELSE "idle"
-----------------------------------------------------------------------------
Init ==
  /\ goal = "idle"
  /\ mode = "NORMAL" /\ cur = "idle" /\ next = "idle"
  /\ mem = [iter |-> 0, foldRamp |-> 0, flag |-> "FoldLegs",
            motionStart |-> 0, finish |-> FALSE]
  /\ setpoint = "limp" /\ tau = 0 /\ halted = FALSE

\* RlController::fsm_goal_cb, any goal at any time.
FsmGoalCb(g) ==
  /\ goal' = g
  /\ UNCHANGED <<mode, cur, next, mem, setpoint, tau, halted>>

\* State s runs on counters m; what it writes to low_cmd.
Runs(s, m, upside, t) ==
  /\ mem' = AfterRun(s, m, upside)
  /\ setpoint' = SetpointOf(s, m)
  /\ tau' = Clamped(TorqueOf(s, m, t))

\* FSM::run, mode NORMAL.  checkSafty() always returns true.
RunNormal(upside, t) ==
  /\ ~halted /\ mode = "NORMAL"
  /\ Runs(cur, mem, upside, t)
  /\ LET want == CheckTransition(cur, mem', goal) IN
       \/ /\ want = Overflow
          /\ halted' = TRUE
          /\ UNCHANGED <<mode, next>>
       \/ /\ want = cur
          /\ UNCHANGED <<mode, next, halted>>
       \/ /\ want \notin {cur, Overflow}
          /\ mode' = "CHANGE" /\ next' = GetNextState(want)
          /\ UNCHANGED halted
  /\ UNCHANGED <<goal, cur>>

\* FSM::run, mode CHANGE.
RunChange(ramp, upside, t) ==
  /\ ~halted /\ mode = "CHANGE"
  /\ cur' = next /\ mode' = "NORMAL"
  /\ Runs(next, Entered(next, Exited(cur, mem), ramp, upside), upside, t)
  /\ UNCHANGED <<goal, next, halted>>

Run == \E upside \in BOOLEAN, t \in PolicyTorque :
         \/ RunNormal(upside, t)
         \/ \E ramp \in 0..MaxFoldRamp : RunChange(ramp, upside, t)

Next == (\E g \in Goal : FsmGoalCb(g)) \/ Run

Spec == Init /\ [][Next]_vars

\* The controller manager calls update every cycle; the operator may be mute.
FairSpec == Spec /\ WF_vars(Run)
-----------------------------------------------------------------------------
(* The inductive invariant behind the safety properties (RlFsm_proofs). *)

\* The counters tell how far TransformUp has got: k cycles after the fold ramp
\* it is k-1 cycles into the stand ramp, so that the gate's margin of Settle
\* cycles covers the off-by-one at both ends of the interpolation.
UpProgress ==
  cur = "transform_up" =>
    /\ mem.flag = "FoldLegs" =>
         mem.motionStart = 0 /\ mem.iter <= mem.foldRamp /\ setpoint # "stand"
    /\ mem.flag = "StandUp" =>
         /\ mem.motionStart = mem.foldRamp + 1 /\ mem.iter >= mem.motionStart
         /\ mem.iter > mem.motionStart + StandRamp + 1 => setpoint = "stand"
         /\ setpoint = "stand" => mem.iter > mem.motionStart + StandRamp
    /\ mode = "CHANGE" => GateOpen(mem)

\* TransformDown decides to leave in the very cycle in which it finishes.
DownProgress ==
  cur = "transform_down" =>
    /\ mem.finish <=> mode = "CHANGE"
    /\ mem.finish => setpoint = "fold"

\* A pending change is one the current state may ask for.
Allowed(s, t) ==
  \/ s = "idle" /\ t \in {"transform_up", "joint_pd"}
  \/ s = "transform_up" /\ t \in Policy \cup {"joint_pd", "transform_down"}
  \/ s = "joint_pd" /\ t \in Policy \cup {"idle", "transform_down"}
  \/ s = "transform_down" /\ t = "idle"
  \/ s \in Policy /\ t \in Policy \cup {"transform_down"}

\* What holds between any two steps of the machine and explains all the
\* safety properties below.
IInv ==
  /\ UpProgress /\ DownProgress
  /\ cur = "joint_pd" => setpoint = "hold"
  /\ mode = "CHANGE" => Allowed(cur, next)
-----------------------------------------------------------------------------
(* The abstract machine this one implements. *)
PostureOf ==
  CASE cur = "idle" -> "limp"
    [] cur = "transform_up" /\ mem.flag = "RollOver" -> "stranded"
    [] cur = "transform_up" /\ mem.flag # "RollOver" ->
         IF setpoint = "stand" THEN "stood" ELSE "rising"
    [] cur = "joint_pd" -> "held"
    [] cur = "transform_down" -> IF mem.finish THEN "folded" ELSE "lowering"
    [] OTHER -> "driven"
Abstract == INSTANCE Posture WITH posture <- PostureOf
-----------------------------------------------------------------------------
(* Properties. *)

\* Types of all variables (the counters stay inside the ramps' bounds).
TypeOK ==
  /\ goal \in Goal
  /\ mode \in {"NORMAL", "CHANGE"}
  /\ cur \in State /\ next \in State
  /\ mem \in Mem
  /\ setpoint \in Setpoint
  /\ tau \in Nat
  /\ halted \in BOOLEAN

\* The gate of TransformUp is on time alone, not on the phase.  It is enough
\* for a robot that is not upside down: whenever TransformUp has decided to
\* hand over (to a policy, to joint_pd or to transform_down) the last command
\* was the full stand posture.
StoodBeforeLeaving ==
  mode = "CHANGE" /\ cur = "transform_up" =>
    setpoint = "stand" \/ mem.flag = "RollOver"

\* The legs lose their stiffness (Passive) only after TransformDown has
\* brought them to the fold posture or from joint_pd; never while a policy
\* drives and never out of TransformUp, whatever goals arrive in between.
NeverDropped ==
  [][cur # "idle" /\ cur' = "idle" =>
       \/ cur = "transform_down" /\ setpoint = "fold"
       \/ cur = "joint_pd" /\ setpoint = "hold"]_vars

\* The body only goes through the passages Posture allows: no policy and no
\* joint_pd before the robot stands (or is stranded), no limp legs before it
\* is folded, no way out of TransformDown but lying down.
ImplementsPosture == Abstract!Spec

\* A NaN joint setpoint (0/0 in _SetJPosInterPts) is sent only on the very
\* first cycle of a ramp of length zero: the fold ramp when the legs are at
\* the fold pose already, the stand ramp when stand_timer rounds to nothing.
NaNOnlyOnEmptyRamp ==
  setpoint = "nan" =>
    \/ cur \in {"transform_up", "transform_down"} /\ mem.foldRamp = 0 /\ mem.iter = 1
    \/ cur = "transform_up" /\ StandRamp = 0 /\ mem.iter = mem.foldRamp + 2

\* The control loop survives every goal in every state but one: TransformUp
\* past its gate with a policy number stoi cannot represent.
LoopSurvivesGoals ==
  [][halted' # halted =>
       cur = "transform_up" /\ goal \in RlGoal /\ PolicyOf[goal] = Overflow]_vars

\* Once TransformUp is entered the robot gets to stand, whatever goals
\* arrive meanwhile, unless it is found upside down (RollOver is a dead end).
StandsUp ==
  cur = "transform_up" ~> setpoint = "stand" \/ mem.flag = "RollOver"

\* TransformDown always completes: no goal can interrupt it.
LoweringCompletes == cur = "transform_down" ~> cur = "idle"

\* An operator who keeps asking for transform_down gets the robot down and
\* limp for good from every mode, unless the loop has died.
DownIsReached ==
  <>[](goal = "transform_down") => <>[](cur = "idle" \/ halted)

\* Comment at FSM.cpp:94 "limit torque out put": what is sent stays within
\* torque_limit.  The code discards the clamped value.
TorqueLimited == tau <= TorqueLimit
=============================================================================

---------------------------- MODULE RlFsm_proofs ----------------------------
(***************************************************************************)
(* Theorems about RlFsm for every set of policies, every goal table, every *)
(* ramp length and every settle time of at least three cycles; then of     *)
(* Teleop (H) in front of it, for every set of switch positions, of other  *)
(* publishers and every depth of the goal topic.  The safety properties    *)
(* come first in each part, what has to happen in the end after them.      *)
(***************************************************************************)
EXTENDS RlFsm, Sequences, TLAPS

(* Operators: what a state leaves in its counters.                         *)

\* The cap is a natural number above every ramp, and counting stays below it.
LEMMA BumpType == IterCap \in Nat /\ \A i \in 0..IterCap : Bump(i) \in 0..IterCap
  BY RampAssumption DEF IterCap, Bump

\* A CASE over the current state never leaves the counters' types.
LEMMA RunsType ==
  ASSUME NEW s \in State, NEW m \in Mem, NEW upside \in BOOLEAN
  PROVE  AfterRun(s, m, upside) \in Mem /\ SetpointOf(s, m) \in Setpoint
<1>1. AfterRun(s, m, upside) \in Mem
  <2>1. /\ m.iter \in 0..IterCap /\ m.iter + 1 \in 0..(IterCap + 1)
        /\ Bump(m.iter) \in 0..IterCap
    BY BumpType DEF Mem
  <2>2. UpAfterRun(m, upside) \in Mem
    <3> DEFINE n == Bump(m.iter)
    <3>1. n \in 0..IterCap
      BY <2>1
    <3> HIDE DEF n
    <3>2. [m EXCEPT !.iter = n, !.motionStart = m.iter + 1,
                    !.flag = IF upside THEN "RollOver" ELSE "StandUp"] \in Mem
      BY <2>1, <3>1 DEF Mem, Flag
    <3>3. [m EXCEPT !.iter = n] \in Mem
      BY <3>1 DEF Mem
    <3>4. QED BY <3>2, <3>3 DEF UpAfterRun, n
  <2>3. DownAfterRun(m) \in Mem
    BY <2>1 DEF DownAfterRun, Mem
  <2>4. QED BY <2>2, <2>3 DEF AfterRun
<1>2. SetpointOf(s, m) \in Setpoint
  BY DEF SetpointOf, UpSetpoint, Interpolated, Setpoint
<1>3. QED BY <1>1, <1>2

\* So does entering a state.
LEMMA EnteredType ==
  ASSUME NEW s \in State, NEW c \in State, NEW m \in Mem,
         NEW ramp \in 0..MaxFoldRamp, NEW upside \in BOOLEAN
  PROVE  Entered(s, Exited(c, m), ramp, upside) \in Mem
<1>1. Exited(c, m) \in Mem
  BY DEF Exited, Mem
<1> DEFINE e == Exited(c, m)
<1>2. 0 \in 0..IterCap /\ 0 \in 0..(IterCap + 1)
  BY BumpType
<1> HIDE DEF e
<1>3. [e EXCEPT !.iter = 0, !.foldRamp = ramp, !.motionStart = 0,
                !.flag = IF upside THEN "RollOver" ELSE "FoldLegs"] \in Mem
  BY <1>1, <1>2 DEF Mem, Flag, e
<1>4. [e EXCEPT !.iter = 0, !.foldRamp = ramp, !.finish = FALSE] \in Mem
  BY <1>1, <1>2 DEF Mem, e
<1>5. QED BY <1>1, <1>3, <1>4 DEF Entered, e

\* Torques are natural numbers.
LEMMA TorqueType ==
  ASSUME NEW s, NEW m, NEW t \in PolicyTorque
  PROVE  Clamped(TorqueOf(s, m, t)) \in Nat
  BY TorqueAssumption DEF Clamped, TorqueOf

\* checkTransition only asks for states this controller can leave for.
LEMMA TargetAllowed ==
  ASSUME NEW s \in State, NEW m \in Mem, NEW g \in Goal
  PROVE  LET want == CheckTransition(s, m, g) IN
           /\ want # s /\ want # Overflow => Allowed(s, want)
           /\ want = Overflow =>
                s = "transform_up" /\ g \in RlGoal /\ PolicyOf[g] = Overflow
           /\ s = "transform_up" /\ want # s => GateOpen(m)
           /\ s = "transform_down" => (want # s <=> m.finish)
<1> USE PolicyAssumption DEF State, Builtin
<1>1. CASE s = "idle"
  BY <1>1 DEF CheckTransition, PassiveTarget, Allowed, Overflow
<1>2. CASE s = "transform_up"
  BY <1>2 DEF CheckTransition, UpTarget, Selected, Allowed, Overflow
<1>3. CASE s = "joint_pd"
  BY <1>3 DEF CheckTransition, JointPDTarget, Selected, Allowed, Overflow
<1>4. CASE s = "transform_down"
  BY <1>4 DEF CheckTransition, DownTarget, Allowed, Overflow
<1>5. CASE s \in Policy
  BY <1>5 DEF CheckTransition, PolicyTarget, Selected, Allowed, Overflow
<1>6. QED BY <1>1, <1>2, <1>3, <1>4, <1>5

\* Such a state is one of the map.
LEMMA AllowedState ==
  ASSUME NEW s, NEW t, Allowed(s, t)
  PROVE  t \in State /\ GetNextState(t) = t
  BY DEF Allowed, State, Builtin, GetNextState
-----------------------------------------------------------------------------
(* Type correctness. *)

\* The counters start inside their bounds.
LEMMA InitType == Init => TypeOK
<1>1. 0 \in 0..IterCap /\ 0 \in 0..(IterCap + 1) /\ 0 \in 0..MaxFoldRamp
  BY BumpType, RampAssumption
<1>2. [iter |-> 0, foldRamp |-> 0, flag |-> "FoldLegs",
       motionStart |-> 0, finish |-> FALSE] \in Mem
  BY <1>1 DEF Mem, Flag
<1>3. "idle" \in Goal /\ "idle" \in State /\ "limp" \in Setpoint /\ 0 \in Nat
  BY DEF Goal, State, Builtin, Setpoint
<1> SUFFICES ASSUME Init PROVE TypeOK
  OBVIOUS
<1>4. mem \in Mem
  BY <1>2 DEF Init
<1>5. QED BY <1>3, <1>4 DEF Init, TypeOK

\* A step keeps every variable's type.
LEMMA StepType == TypeOK /\ [Next]_vars => TypeOK'
<1> SUFFICES ASSUME TypeOK, [Next]_vars PROVE TypeOK'
  OBVIOUS
<1>1. ASSUME NEW g \in Goal, FsmGoalCb(g) PROVE TypeOK'
  BY <1>1 DEF FsmGoalCb, TypeOK
<1>2. ASSUME NEW upside \in BOOLEAN, NEW t \in PolicyTorque, RunNormal(upside, t)
      PROVE TypeOK'
  <2>1. mem' \in Mem /\ setpoint' \in Setpoint /\ tau' \in Nat
    BY <1>2, RunsType, TorqueType DEF RunNormal, Runs, TypeOK
  <2> DEFINE want == CheckTransition(cur, mem', goal)
  <2>2. want \notin {cur, Overflow} => GetNextState(want) \in State
    BY <2>1, TargetAllowed, AllowedState DEF TypeOK
  <2> HIDE DEF want
  <2>3. mode' \in {"NORMAL", "CHANGE"} /\ next' \in State /\ halted' \in BOOLEAN
    BY <1>2, <2>2 DEF RunNormal, TypeOK, want
  <2>4. goal' = goal /\ cur' = cur
    BY <1>2 DEF RunNormal
  <2>5. QED BY <2>1, <2>3, <2>4 DEF TypeOK
<1>3. ASSUME NEW ramp \in 0..MaxFoldRamp, NEW upside \in BOOLEAN,
             NEW t \in PolicyTorque, RunChange(ramp, upside, t)
      PROVE TypeOK'
  <2>1. Entered(next, Exited(cur, mem), ramp, upside) \in Mem
    BY EnteredType DEF TypeOK
  <2>2. mem' \in Mem /\ setpoint' \in Setpoint /\ tau' \in Nat
    BY <1>3, <2>1, RunsType, TorqueType DEF RunChange, Runs, TypeOK
  <2>3. QED BY <1>3, <2>2 DEF RunChange, TypeOK
<1>4. CASE UNCHANGED vars
  BY <1>4 DEF vars, TypeOK
<1>5. QED BY <1>1, <1>2, <1>3, <1>4 DEF Next, Run

\* Every variable keeps its type: in particular the counters of a transform
\* state never leave their bounds and next is always a state of the map.
THEOREM TypeCorrect == Spec => []TypeOK
  BY InitType, StepType, PTL DEF Spec
-----------------------------------------------------------------------------
(* The inductive invariant. *)

\* UpProgress without the pending change, as a predicate of the counters.
UpPhase(m) ==
  /\ m.flag = "FoldLegs" => m.motionStart = 0 /\ m.iter <= m.foldRamp
  /\ m.flag = "StandUp" => m.motionStart = m.foldRamp + 1 /\ m.iter >= m.motionStart
UpGood(m, sp) ==
  /\ UpPhase(m)
  /\ m.flag = "FoldLegs" => sp # "stand"
  /\ m.flag = "StandUp" =>
       /\ m.iter > m.motionStart + StandRamp + 1 => sp = "stand"
       /\ sp = "stand" => m.iter > m.motionStart + StandRamp

\* Interpolation reaches its target exactly when its ramp is used up.
LEMMA InterpolatedStand ==
  ASSUME NEW curr \in Int
  PROVE  /\ curr > StandRamp => Interpolated(curr, StandRamp, "stand") = "stand"
         /\ Interpolated(curr, StandRamp, "stand") = "stand" => curr >= StandRamp
  BY RampAssumption DEF Interpolated

\* One run of TransformUp keeps the phases in step with the counters.
LEMMA UpRun ==
  ASSUME NEW m \in Mem, NEW upside \in BOOLEAN, UpPhase(m)
  PROVE  UpGood(UpAfterRun(m, upside), UpSetpoint(m))
<1> DEFINE n == UpAfterRun(m, upside)
<1> SUFFICES UpGood(n, UpSetpoint(m))
  OBVIOUS
<1>0. /\ m.iter \in Nat /\ m.motionStart \in Nat /\ m.foldRamp \in 0..MaxFoldRamp
      /\ m.iter <= IterCap /\ m.flag \in Flag
  BY BumpType DEF Mem
<1>1. CASE m.flag = "FoldLegs" /\ m.iter < m.foldRamp
  <2>1. ~FoldDone(m)
    BY <1>0, <1>1, RampAssumption DEF FoldDone, UpPhase
  <2>2. n = [m EXCEPT !.iter = m.iter + 1]
    BY <1>0, <1>1, <2>1, RampAssumption DEF UpAfterRun, Bump, IterCap
  <2>3. /\ n.flag = "FoldLegs" /\ n.motionStart = 0
        /\ n.iter = m.iter + 1 /\ n.foldRamp = m.foldRamp
    BY <2>2, <1>1 DEF Mem, UpPhase
  <2>4. UpSetpoint(m) # "stand"
    BY <1>1 DEF UpSetpoint, Interpolated
  <2> HIDE DEF n
  <2>5. QED BY <2>3, <2>4, <1>0, <1>1, RampAssumption DEF UpGood, UpPhase
<1>2. CASE m.flag = "FoldLegs" /\ ~(m.iter < m.foldRamp)
  <2>1. FoldDone(m) /\ m.iter = m.foldRamp /\ Bump(m.iter) = m.iter + 1
    BY <1>0, <1>2, RampAssumption DEF FoldDone, UpPhase, Bump, IterCap
  <2>2. n = [m EXCEPT !.iter = m.iter + 1, !.motionStart = m.iter + 1,
                      !.flag = IF upside THEN "RollOver" ELSE "StandUp"]
    BY <2>1 DEF UpAfterRun
  <2>3. /\ n.flag \in {"RollOver", "StandUp"} /\ n.motionStart = m.foldRamp + 1
        /\ n.iter = m.foldRamp + 1 /\ n.foldRamp = m.foldRamp
    BY <2>1, <2>2 DEF Mem
  <2>4. UpSetpoint(m) # "stand"
    BY <1>2 DEF UpSetpoint, Interpolated
  <2> HIDE DEF n
  <2>5. QED BY <2>3, <2>4, <1>0, RampAssumption DEF UpGood, UpPhase
<1>3. CASE m.flag = "StandUp"
  <2>1. ~FoldDone(m)
    BY <1>3 DEF FoldDone
  <2>2. n = [m EXCEPT !.iter = Bump(m.iter)]
    BY <2>1 DEF UpAfterRun
  <2>3. /\ n.flag = "StandUp" /\ n.motionStart = m.foldRamp + 1
        /\ n.iter = Bump(m.iter) /\ n.foldRamp = m.foldRamp
        /\ m.motionStart = m.foldRamp + 1 /\ m.iter >= m.foldRamp + 1
    BY <2>2, <1>3 DEF Mem, UpPhase
  <2>4. UpSetpoint(m) = Interpolated(m.iter - (m.foldRamp + 1), StandRamp, "stand")
    BY <1>3, <2>3 DEF UpSetpoint
  <2>5. /\ m.iter - (m.foldRamp + 1) > StandRamp => UpSetpoint(m) = "stand"
        /\ UpSetpoint(m) = "stand" => m.iter - (m.foldRamp + 1) >= StandRamp
    BY <2>4, <1>0, InterpolatedStand, RampAssumption
  <2>6. /\ Bump(m.iter) \in Nat /\ Bump(m.iter) >= m.iter
        /\ Bump(m.iter) > m.foldRamp + 1 + StandRamp + 1
             => m.iter - (m.foldRamp + 1) > StandRamp
        /\ m.iter - (m.foldRamp + 1) >= StandRamp
             => Bump(m.iter) > m.foldRamp + 1 + StandRamp
    BY <1>0, <2>3, RampAssumption DEF Bump, IterCap
  <2> HIDE DEF n
  <2>7. QED BY <2>3, <2>5, <2>6, <1>0, RampAssumption DEF UpGood, UpPhase
<1>4. CASE m.flag = "RollOver"
  <2>1. n.flag = "RollOver"
    BY <1>4 DEF UpAfterRun, FoldDone, Mem
  <2>2. QED BY <2>1 DEF UpGood, UpPhase
<1>5. QED BY <1>0, <1>1, <1>2, <1>3, <1>4 DEF Flag

\* Entering TransformUp starts the fold phase (or none) from zero.
LEMMA UpEntered ==
  ASSUME NEW m \in Mem, NEW ramp \in 0..MaxFoldRamp, NEW upside \in BOOLEAN
  PROVE  UpPhase(Entered("transform_up", m, ramp, upside))
<1> DEFINE e == [m EXCEPT !.iter = 0, !.foldRamp = ramp, !.motionStart = 0,
                          !.flag = IF upside THEN "RollOver" ELSE "FoldLegs"]
<1>1. Entered("transform_up", m, ramp, upside) = e
  BY DEF Entered
<1>2. /\ e.flag \in {"RollOver", "FoldLegs"} /\ e.iter = 0 /\ e.foldRamp = ramp
      /\ e.motionStart = 0
  BY DEF Mem
<1> HIDE DEF e
<1>3. UpPhase(e)
  BY <1>2, RampAssumption DEF UpPhase
<1>4. QED BY <1>1, <1>3

\* One run of TransformDown finishes only with the fold pose commanded.
LEMMA DownRun ==
  ASSUME NEW m \in Mem, ~m.finish
  PROVE  DownAfterRun(m).finish => SetpointOf("transform_down", m) = "fold"
  BY BumpType, RampAssumption DEF DownAfterRun, SetpointOf, Interpolated, Mem

\* Passive at the start.
LEMMA InitInv == Init => IInv
  BY DEF Init, IInv, UpProgress, DownProgress

\* A cycle in mode NORMAL.
LEMMA NormalInv ==
  ASSUME TypeOK, TypeOK', IInv, NEW upside \in BOOLEAN, NEW t \in PolicyTorque,
         RunNormal(upside, t)
  PROVE  IInv'
<1> DEFINE want == CheckTransition(cur, mem', goal)
<1>1. /\ want # cur /\ want # Overflow => Allowed(cur, want)
      /\ cur = "transform_up" /\ want # cur => GateOpen(mem')
      /\ cur = "transform_down" => (want # cur <=> mem'.finish)
      /\ want = Overflow => cur = "transform_up"
  BY TargetAllowed DEF TypeOK
<1>2. want # cur /\ want # Overflow => GetNextState(want) = want
  BY <1>1, AllowedState
<1> HIDE DEF want
<1>3. /\ mode = "NORMAL" /\ cur' = cur
      /\ mem' = AfterRun(cur, mem, upside) /\ setpoint' = SetpointOf(cur, mem)
      /\ mode' = "CHANGE" => want # cur /\ want # Overflow /\ next' = GetNextState(want)
      /\ mode' # "CHANGE" => want \in {cur, Overflow}
  BY DEF RunNormal, Runs, want
<1>4. (mode = "CHANGE" => Allowed(cur, next))'
  BY <1>1, <1>2, <1>3
<1>5. (cur = "joint_pd" => setpoint = "hold")'
  BY <1>3 DEF SetpointOf
<1>6. UpProgress'
  <2> SUFFICES ASSUME cur = "transform_up" PROVE UpProgress'
    BY <1>3 DEF UpProgress
  <2>1. UpPhase(mem)
    BY DEF IInv, UpProgress, UpPhase
  <2>2. mem' = UpAfterRun(mem, upside) /\ setpoint' = UpSetpoint(mem)
    BY <1>3 DEF AfterRun, SetpointOf
  <2>3. UpGood(mem', setpoint')
    BY <2>1, <2>2, UpRun DEF TypeOK
  <2>4. mode' = "CHANGE" => GateOpen(mem')
    BY <1>1, <1>3
  <2>5. QED BY <2>3, <2>4 DEF UpProgress, UpGood, UpPhase, GateOpen
<1>7. DownProgress'
  <2> SUFFICES ASSUME cur = "transform_down" PROVE DownProgress'
    BY <1>3 DEF DownProgress
  <2>1. ~mem.finish
    BY <1>3 DEF IInv, DownProgress
  <2>2. mem' = DownAfterRun(mem)
    BY <1>3 DEF AfterRun
  <2>3. mem'.finish => setpoint' = "fold"
    BY <2>1, <2>2, <1>3, DownRun DEF TypeOK
  <2>4. mode' = "CHANGE" <=> want # cur
    BY <1>1, <1>3
  <2>5. (mem.finish)' <=> (mode = "CHANGE")'
    BY <2>4, <1>1, <1>3 DEF TypeOK, Mem
  <2>6. QED BY <2>3, <2>5 DEF DownProgress
<1>8. QED BY <1>4, <1>5, <1>6, <1>7 DEF IInv

\* A cycle in mode CHANGE.
LEMMA ChangeInv ==
  ASSUME TypeOK, TypeOK', IInv, NEW ramp \in 0..MaxFoldRamp, NEW upside \in BOOLEAN,
         NEW t \in PolicyTorque, RunChange(ramp, upside, t)
  PROVE  IInv'
<1> DEFINE x == Exited(cur, mem)
           e == Entered(next, x, ramp, upside)
<1>1. x \in Mem
  BY DEF Exited, TypeOK, Mem
<1>2. e \in Mem
  BY EnteredType DEF TypeOK
<1>3. /\ cur' = next /\ mode' = "NORMAL"
      /\ mem' = AfterRun(next, e, upside) /\ setpoint' = SetpointOf(next, e)
  BY DEF RunChange, Runs
<1>4. (cur = "joint_pd" => setpoint = "hold")'
  BY <1>3 DEF SetpointOf
<1>5. UpProgress'
  <2> SUFFICES ASSUME next = "transform_up" PROVE UpProgress'
    BY <1>3 DEF UpProgress
  <2>1. UpPhase(e)
    BY <1>1, UpEntered
  <2> HIDE DEF e
  <2>2. mem' = UpAfterRun(e, upside) /\ setpoint' = UpSetpoint(e)
    BY <1>3 DEF AfterRun, SetpointOf
  <2>3. UpGood(mem', setpoint')
    BY <1>2, <2>1, <2>2, UpRun
  <2>4. QED BY <1>3, <2>3 DEF UpProgress, UpGood, UpPhase
<1>6. DownProgress'
  <2> SUFFICES ASSUME next = "transform_down" PROVE DownProgress'
    BY <1>3 DEF DownProgress
  <2>1. e.iter = 0 /\ ~e.finish
    BY <1>1 DEF Entered, Mem
  <2> HIDE DEF e
  <2>2. mem' = DownAfterRun(e)
    BY <1>3 DEF AfterRun
  <2>3. ~mem'.finish
    BY <1>2, <2>1, <2>2, RampAssumption DEF DownAfterRun, Mem
  <2>4. QED BY <1>3, <2>3 DEF DownProgress
<1>7. QED BY <1>3, <1>4, <1>5, <1>6 DEF IInv

\* Every step keeps the inductive invariant.
LEMMA StepInv == TypeOK /\ TypeOK' /\ IInv /\ [Next]_vars => IInv'
<1> SUFFICES ASSUME TypeOK, TypeOK', IInv, [Next]_vars PROVE IInv'
  OBVIOUS
<1>1. ASSUME NEW g \in Goal, FsmGoalCb(g) PROVE IInv'
  BY <1>1 DEF FsmGoalCb, IInv, UpProgress, DownProgress, GateOpen
<1>2. ASSUME NEW upside \in BOOLEAN, NEW t \in PolicyTorque, RunNormal(upside, t)
      PROVE IInv'
  BY <1>2, NormalInv
<1>3. ASSUME NEW ramp \in 0..MaxFoldRamp, NEW upside \in BOOLEAN,
             NEW t \in PolicyTorque, RunChange(ramp, upside, t)
      PROVE IInv'
  BY <1>3, ChangeInv
<1>4. CASE UNCHANGED vars
  BY <1>4 DEF vars, IInv, UpProgress, DownProgress, GateOpen
<1>5. QED BY <1>1, <1>2, <1>3, <1>4 DEF Next, Run

\* The inductive invariant holds for every policy table and ramp.
THEOREM Invariance == Spec => [](TypeOK /\ IInv)
<1>1. Init => TypeOK /\ IInv
  BY InitType, InitInv
<1>2. TypeOK /\ IInv /\ [Next]_vars => (TypeOK /\ IInv)'
  BY StepType, StepInv
<1>3. QED BY <1>1, <1>2, PTL DEF Spec
-----------------------------------------------------------------------------
(* What it implies. *)

\* The time gate of TransformUp implies that the stand pose was commanded.
LEMMA GateMeansStood == TypeOK /\ IInv => StoodBeforeLeaving
<1> SUFFICES ASSUME TypeOK, IInv, mode = "CHANGE", cur = "transform_up",
                    mem.flag # "RollOver"
             PROVE setpoint = "stand"
  BY DEF StoodBeforeLeaving
<1>1. mem.iter \in Nat /\ mem.foldRamp \in Nat /\ mem.flag \in Flag
  BY BumpType, RampAssumption DEF TypeOK, Mem
<1>2. mem.iter >= mem.foldRamp + StandRamp + Settle
  BY DEF IInv, UpProgress, GateOpen
<1>3. mem.flag # "FoldLegs"
  BY <1>1, <1>2, RampAssumption DEF IInv, UpProgress
<1>4. QED BY <1>1, <1>2, <1>3, RampAssumption DEF IInv, UpProgress, Flag

\* TransformUp hands over only a robot whose last command was the full stand
\* pose, or one it found upside down.
THEOREM StandsBeforeHandOver == Spec => []StoodBeforeLeaving
  BY Invariance, GateMeansStood, PTL

\* The legs go limp only out of the finished fold pose or out of joint_pd.
THEOREM LimpOnlyFromRest == Spec => NeverDropped
<1>1. TypeOK /\ IInv /\ [Next]_vars =>
        [cur # "idle" /\ cur' = "idle" =>
           \/ cur = "transform_down" /\ setpoint = "fold"
           \/ cur = "joint_pd" /\ setpoint = "hold"]_vars
  <2> SUFFICES ASSUME TypeOK, IInv, Next, cur # "idle", cur' = "idle"
               PROVE  \/ cur = "transform_down" /\ setpoint = "fold"
                      \/ cur = "joint_pd" /\ setpoint = "hold"
    BY DEF vars
  <2>1. mode = "CHANGE" /\ next = "idle"
    BY DEF Next, Run, FsmGoalCb, RunNormal, RunChange
  <2>2. cur \in {"transform_down", "joint_pd"}
    BY <2>1, PolicyAssumption DEF IInv, Allowed, Builtin
  <2>3. QED BY <2>1, <2>2 DEF IInv, DownProgress
<1>2. QED BY <1>1, Invariance, PTL DEF Spec, NeverDropped

\* No goal ends the control loop but an unrepresentable number in TransformUp.
THEOREM LoopSurvives == Spec => LoopSurvivesGoals
<1>1. TypeOK /\ TypeOK' /\ [Next]_vars =>
        [halted' # halted =>
           cur = "transform_up" /\ goal \in RlGoal /\ PolicyOf[goal] = Overflow]_vars
  <2> SUFFICES ASSUME TypeOK, TypeOK', Next, halted' # halted
               PROVE cur = "transform_up" /\ goal \in RlGoal /\ PolicyOf[goal] = Overflow
    BY DEF vars
  <2>1. CheckTransition(cur, mem', goal) = Overflow
    BY DEF Next, Run, FsmGoalCb, RunNormal, RunChange
  <2>2. QED BY <2>1, TargetAllowed DEF TypeOK
<1>2. QED BY <1>1, TypeCorrect, PTL DEF Spec, LoopSurvivesGoals

\* NaN setpoints: an empty ramp, in its first cycle.
LEMMA NaNStep == TypeOK /\ TypeOK' /\ IInv /\ NaNOnlyOnEmptyRamp /\ [Next]_vars => NaNOnlyOnEmptyRamp'
<1> SUFFICES ASSUME TypeOK, TypeOK', IInv, NaNOnlyOnEmptyRamp, [Next]_vars
             PROVE NaNOnlyOnEmptyRamp'
  OBVIOUS
<1>1. ASSUME NEW s \in State, NEW m \in Mem, NEW upside \in BOOLEAN,
             s = "transform_up" => UpPhase(m),
             s = "transform_down" => ~m.finish,
             cur' = s, mem' = AfterRun(s, m, upside), setpoint' = SetpointOf(s, m)
      PROVE NaNOnlyOnEmptyRamp'
  <2> SUFFICES ASSUME setpoint' = "nan"
               PROVE  \/ cur' \in {"transform_up", "transform_down"}
                           /\ mem'.foldRamp = 0 /\ mem'.iter = 1
                      \/ cur' = "transform_up" /\ StandRamp = 0
                           /\ mem'.iter = mem'.foldRamp + 2
    BY DEF NaNOnlyOnEmptyRamp
  <2>0. /\ m.iter \in Nat /\ m.motionStart \in Nat /\ m.foldRamp \in 0..MaxFoldRamp
        /\ m.flag \in Flag
    BY BumpType DEF Mem
  <2>1. CASE s = "transform_up" /\ m.flag = "FoldLegs"
    <3>1. m.iter = 0 /\ m.foldRamp = 0 /\ m.motionStart = 0
      BY <1>1, <2>0, <2>1, RampAssumption DEF SetpointOf, UpSetpoint, Interpolated, UpPhase
    <3>2. FoldDone(m) /\ Bump(m.iter) = 1
      BY <2>1, <3>1, RampAssumption DEF FoldDone, Bump, IterCap
    <3>3. mem' = [m EXCEPT !.iter = 1, !.motionStart = m.iter + 1,
                           !.flag = IF upside THEN "RollOver" ELSE "StandUp"]
      BY <1>1, <2>1, <3>2 DEF AfterRun, UpAfterRun
    <3>4. QED BY <1>1, <2>1, <3>1, <3>3 DEF Mem
  <2>2. CASE s = "transform_up" /\ m.flag = "StandUp"
    <3>1. StandRamp = 0 /\ m.iter = m.foldRamp + 1
      BY <1>1, <2>0, <2>2, RampAssumption DEF SetpointOf, UpSetpoint, Interpolated, UpPhase
    <3>2. ~FoldDone(m) /\ Bump(m.iter) = m.foldRamp + 2
      BY <2>0, <2>2, <3>1, RampAssumption DEF FoldDone, Bump, IterCap
    <3>3. mem' = [m EXCEPT !.iter = m.foldRamp + 2]
      BY <1>1, <2>2, <3>2 DEF AfterRun, UpAfterRun
    <3>4. QED BY <1>1, <2>2, <3>1, <3>3 DEF Mem
  <2>3. CASE s = "transform_down"
    <3>1. m.iter = 0 /\ m.foldRamp = 0
      BY <1>1, <2>0, <2>3, RampAssumption DEF SetpointOf, Interpolated
    <3>2. mem'.iter = Bump(0) /\ mem'.foldRamp = 0
      BY <1>1, <2>3, <3>1 DEF AfterRun, DownAfterRun, Mem
    <3>3. QED BY <1>1, <2>3, <3>2, RampAssumption DEF Bump, IterCap
  <2>4. CASE s = "transform_up" /\ m.flag = "RollOver"
    BY <1>1, <2>4 DEF SetpointOf, UpSetpoint
  <2>5. CASE s \notin {"transform_up", "transform_down"}
    BY <1>1, <2>5 DEF SetpointOf
  <2>6. QED BY <2>0, <2>1, <2>2, <2>3, <2>4, <2>5 DEF Flag
<1>2. ASSUME NEW g \in Goal, FsmGoalCb(g) PROVE NaNOnlyOnEmptyRamp'
  BY <1>2 DEF FsmGoalCb, NaNOnlyOnEmptyRamp
<1>3. ASSUME NEW upside \in BOOLEAN, NEW t \in PolicyTorque, RunNormal(upside, t)
      PROVE NaNOnlyOnEmptyRamp'
  <2>1. /\ cur' = cur /\ mem' = AfterRun(cur, mem, upside)
        /\ setpoint' = SetpointOf(cur, mem) /\ mode = "NORMAL"
    BY <1>3 DEF RunNormal, Runs
  <2>2. cur = "transform_up" => UpPhase(mem)
    BY DEF IInv, UpProgress, UpPhase
  <2>3. cur = "transform_down" => ~mem.finish
    BY <2>1 DEF IInv, DownProgress
  <2>4. cur \in State /\ mem \in Mem
    BY DEF TypeOK
  <2>5. QED BY <2>1, <2>2, <2>3, <2>4, <1>1
<1>4. ASSUME NEW ramp \in 0..MaxFoldRamp, NEW upside \in BOOLEAN,
             NEW t \in PolicyTorque, RunChange(ramp, upside, t)
      PROVE NaNOnlyOnEmptyRamp'
  <2> DEFINE x == Exited(cur, mem)
             e == Entered(next, x, ramp, upside)
  <2>1. x \in Mem /\ e \in Mem /\ next \in State
    BY EnteredType DEF Exited, TypeOK, Mem
  <2>2. cur' = next /\ mem' = AfterRun(next, e, upside) /\ setpoint' = SetpointOf(next, e)
    BY <1>4 DEF RunChange, Runs
  <2>3. next = "transform_up" => UpPhase(e)
    BY <2>1, UpEntered
  <2>4. next = "transform_down" => ~e.finish
    BY <2>1 DEF Entered, Mem
  <2> HIDE DEF e
  <2>5. QED BY <2>1, <2>2, <2>3, <2>4, <1>1
<1>5. CASE UNCHANGED vars
  BY <1>5 DEF vars, NaNOnlyOnEmptyRamp
<1>6. QED BY <1>2, <1>3, <1>4, <1>5 DEF Next, Run

\* A NaN joint command exists only in the first cycle of an empty ramp.
THEOREM NaNConfined == Spec => []NaNOnlyOnEmptyRamp
<1>1. Init => NaNOnlyOnEmptyRamp
  BY DEF Init, NaNOnlyOnEmptyRamp
<1>2. QED BY <1>1, NaNStep, Invariance, PTL DEF Spec
-----------------------------------------------------------------------------
(* How long the transforms take: what lies behind StandsUp and             *)
(* LoweringCompletes once the control loop runs.                           *)

\* The transform that is current has not reached its posture yet.
Rising   == cur = "transform_up" /\ mem.flag # "RollOver" /\ setpoint # "stand"
Lowering == cur = "transform_down" /\ ~mem.finish

InTime ==
  /\ Rising => mem.iter <= mem.foldRamp + StandRamp + 2
  /\ Lowering => mem.iter <= mem.foldRamp + Settle

CyclesCount == [][Run /\ mode = "NORMAL" /\ (Rising \/ Lowering) => mem'.iter = mem.iter + 1]_vars

\* The bound for TransformUp is that of UpProgress.
LEMMA RisingInTime == TypeOK /\ IInv /\ Rising => mem.iter <= mem.foldRamp + StandRamp + 2
<1>. SUFFICES ASSUME TypeOK, IInv, Rising PROVE mem.iter <= mem.foldRamp + StandRamp + 2
  OBVIOUS
<1>1. /\ mem.iter \in Nat /\ mem.foldRamp \in Nat /\ mem.motionStart \in Nat
      /\ mem.flag \in {"StandUp", "FoldLegs"} /\ StandRamp \in Nat
  BY BumpType, RampAssumption DEF TypeOK, Mem, Flag, Rising
<1>. QED BY <1>1 DEF IInv, UpProgress, Rising

\* TransformDown counts a cycle and finishes at the end of its margin.
LEMMA DownCounts ==
  ASSUME NEW m \in Mem
  PROVE  /\ DownAfterRun(m).iter = Bump(m.iter) /\ DownAfterRun(m).foldRamp = m.foldRamp
         /\ ~DownAfterRun(m).finish => ~m.finish /\ m.iter < m.foldRamp + Settle
<1>1. m.iter \in Nat /\ m.foldRamp \in Nat /\ Settle \in Nat
  BY BumpType, RampAssumption DEF Mem
<1>2. DownAfterRun(m).iter = Bump(m.iter) /\ DownAfterRun(m).foldRamp = m.foldRamp
  BY DEF DownAfterRun, Mem
<1>3. DownAfterRun(m).finish <=> m.finish \/ m.iter >= m.foldRamp + Settle
  BY DEF DownAfterRun, Mem
<1>. QED BY <1>1, <1>2, <1>3

\* So no cycle of a TransformDown that goes on is beyond its margin.
LEMMA LoweringStep ==
  ASSUME TypeOK, TypeOK', Lowering => mem.iter <= mem.foldRamp + Settle, [Next]_vars, Lowering'
  PROVE  mem'.iter <= mem'.foldRamp + Settle
<1>1. ASSUME NEW m \in Mem, mem' = DownAfterRun(m) PROVE mem'.iter <= mem'.foldRamp + Settle
  <2>1. ~mem'.finish
    BY DEF Lowering
  <2>2. m.iter < m.foldRamp + Settle /\ mem'.iter = Bump(m.iter) /\ mem'.foldRamp = m.foldRamp
    BY <1>1, <2>1, DownCounts
  <2>3. m.iter \in Nat /\ m.foldRamp \in Nat /\ Settle \in Nat
    BY BumpType, RampAssumption DEF Mem
  <2>. QED BY <2>2, <2>3 DEF Bump
<1>2. ASSUME NEW g \in Goal, FsmGoalCb(g) PROVE mem'.iter <= mem'.foldRamp + Settle
  BY <1>2 DEF FsmGoalCb, Lowering
<1>3. ASSUME NEW upside \in BOOLEAN, NEW t \in PolicyTorque, RunNormal(upside, t)
      PROVE  mem'.iter <= mem'.foldRamp + Settle
  <2>1. cur' = cur /\ cur = "transform_down"
    BY <1>3 DEF RunNormal, Lowering
  <2>2. mem' = DownAfterRun(mem)
    BY <1>3, <2>1 DEF RunNormal, Runs, AfterRun
  <2>. QED BY <1>1, <2>2 DEF TypeOK
<1>4. ASSUME NEW ramp \in 0..MaxFoldRamp, NEW upside \in BOOLEAN,
             NEW t \in PolicyTorque, RunChange(ramp, upside, t)
      PROVE  mem'.iter <= mem'.foldRamp + Settle
  <2>. DEFINE e == Entered(next, Exited(cur, mem), ramp, upside)
  <2>1. next = "transform_down"
    BY <1>4 DEF RunChange, Lowering
  <2>2. Exited(cur, mem) \in Mem
    BY DEF Exited, TypeOK, Mem
  <2>3. e \in Mem
    BY <2>2, EnteredType DEF TypeOK
  <2>4. mem' = DownAfterRun(e)
    BY <1>4, <2>1 DEF RunChange, Runs, AfterRun
  <2>. QED BY <1>1, <2>3, <2>4
<1>5. CASE UNCHANGED vars
  BY <1>5 DEF vars, Lowering
<1>. QED BY <1>2, <1>3, <1>4, <1>5 DEF Next, Run

\* For every ramp length and whatever goals arrive meanwhile: the full stand
\* is commanded after at most StandRamp + 2 cycles beyond the fold ramp, and
\* TransformDown finishes after at most Settle + 1 beyond it: every cycle of the
\* control loop counts toward that bound.
THEOREM TransformsTakeBoundedTime == Spec => []InTime /\ CyclesCount
<1>1. Init => InTime
  BY DEF Init, InTime, Rising, Lowering
<1>2. TypeOK /\ TypeOK' /\ IInv' /\ InTime /\ [Next]_vars => InTime'
  <2>. SUFFICES ASSUME TypeOK, TypeOK', IInv', InTime, [Next]_vars PROVE InTime'
    OBVIOUS
  <2>1. (Rising => mem.iter <= mem.foldRamp + StandRamp + 2)'
    BY RisingInTime, PTL
  <2>2. (Lowering => mem.iter <= mem.foldRamp + Settle)'
    BY LoweringStep DEF InTime
  <2>. QED BY <2>1, <2>2 DEF InTime
<1>3. ASSUME TypeOK, InTime, Run, mode = "NORMAL", Rising \/ Lowering
      PROVE  mem'.iter = mem.iter + 1
  <2>. PICK upside \in BOOLEAN, t \in PolicyTorque : RunNormal(upside, t)
    BY <1>3 DEF Run, RunChange
  <2>1. /\ mem.iter \in Nat /\ mem.foldRamp \in 0..MaxFoldRamp /\ mem \in Mem
        /\ StandRamp \in Nat /\ Settle \in Nat /\ Settle >= 3 /\ MaxFoldRamp \in Nat
    BY <1>3, BumpType, RampAssumption DEF TypeOK, Mem
  <2>2. Bump(mem.iter) = mem.iter + 1
    BY <1>3, <2>1 DEF InTime, Bump, IterCap
  <2>3. CASE Rising
    <3>1. mem' = UpAfterRun(mem, upside)
      BY <2>3 DEF RunNormal, Runs, AfterRun, Rising
    <3>2. mem'.iter = Bump(mem.iter)
      BY <2>1, <3>1 DEF UpAfterRun, Mem
    <3>. QED BY <2>2, <3>2
  <2>4. CASE Lowering
    <3>1. mem' = DownAfterRun(mem)
      BY <2>4 DEF RunNormal, Runs, AfterRun, Lowering
    <3>. QED BY <2>1, <2>2, <3>1, DownCounts
  <2>. QED BY <1>3, <2>3, <2>4
<1>4. TypeOK /\ InTime /\ [Next]_vars =>
        [Run /\ mode = "NORMAL" /\ (Rising \/ Lowering) => mem'.iter = mem.iter + 1]_vars
  BY <1>3
<1>. QED BY <1>1, <1>2, <1>4, Invariance, PTL DEF Spec, CyclesCount
-----------------------------------------------------------------------------
(* The transforms end.  What ENABLED says of a cycle is opaque to the       *)
(* prover, so it is stated by a guard; that the guard holds whenever it     *)
(* has to is proved.                                                        *)

\* A cycle of the control loop changes something.
RunGuard ==
  /\ ~halted
  /\ \/ mode = "CHANGE"
     \/ cur \in {"transform_up", "transform_down"} /\ mem.iter < IterCap
     \/ cur = "transform_up" /\ GateOpen(mem) /\ goal = "transform_down"
     \/ cur \in Policy \cup {"joint_pd"} /\ goal = "transform_down"

\* The guard implies that a cycle is enabled.
GuardEnables == RunGuard => ENABLED <<Run>>_vars

\* The control loop is lost only to a goal that TransformUp has listened to.
HaltsLate == halted => cur = "transform_up" /\ GateOpen(mem)

\* Only UpTarget lets an exception through, and only past the gate.
LEMMA HaltsLateAlways == Spec => []HaltsLate
<1>1. Init => HaltsLate
  BY Zenon DEF Init, HaltsLate
<1>2. TypeOK /\ TypeOK' /\ HaltsLate /\ [Next]_vars => HaltsLate'
  <2>. SUFFICES ASSUME TypeOK, TypeOK', HaltsLate, [Next]_vars PROVE HaltsLate'
    OBVIOUS
  <2>1. ASSUME NEW g \in Goal, FsmGoalCb(g) PROVE HaltsLate'
    BY <2>1 DEF FsmGoalCb, HaltsLate, GateOpen
  <2>2. ASSUME NEW upside \in BOOLEAN, NEW t \in PolicyTorque, RunNormal(upside, t)
        PROVE HaltsLate'
    <3>1. halted' => CheckTransition(cur, mem', goal) = Overflow /\ cur' = cur
      BY <2>2 DEF RunNormal
    <3>2. Overflow # "transform_up"
      BY DEF Overflow
    <3>. QED BY <3>1, <3>2, TargetAllowed DEF TypeOK, HaltsLate
  <2>3. ASSUME NEW ramp \in 0..MaxFoldRamp, NEW upside \in BOOLEAN,
               NEW t \in PolicyTorque, RunChange(ramp, upside, t)
        PROVE HaltsLate'
    BY <2>3 DEF RunChange, HaltsLate
  <2>4. CASE UNCHANGED vars
    BY <2>4 DEF vars, HaltsLate, GateOpen
  <2>. QED BY <2>1, <2>2, <2>3, <2>4 DEF Next, Run
<1>. QED BY <1>1, <1>2, TypeCorrect, PTL DEF Spec

\* A transform whose counter still has to reach something.
Transforming ==
  /\ ~halted /\ mode = "NORMAL"
  /\ Lowering \/ (cur = "transform_up" /\ ~GateOpen(mem))

Good == TypeOK /\ IInv /\ InTime /\ HaltsLate

\* It has not come to the cap of the counter.
LEMMA BelowCap ==
  ASSUME Good, Transforming
  PROVE  /\ mem.iter \in Nat /\ mem.iter < IterCap
         /\ mem.iter <= MaxFoldRamp + StandRamp + Settle
         /\ Bump(mem.iter) = mem.iter + 1
<1>1. /\ mem.iter \in Nat /\ mem.foldRamp \in 0..MaxFoldRamp
      /\ MaxFoldRamp \in Nat /\ StandRamp \in Nat /\ Settle \in Nat
  BY BumpType, RampAssumption DEF Good, TypeOK, Mem
<1>2. mem.iter <= mem.foldRamp + Settle \/ mem.iter < mem.foldRamp + StandRamp + Settle
  BY <1>1 DEF Good, InTime, Transforming, GateOpen
<1>. QED BY <1>1, <1>2 DEF IterCap, Bump

\* What a cycle does to its counter.
LEMMA TransformingCycle ==
  ASSUME Good, Transforming, NEW upside \in BOOLEAN, NEW t \in PolicyTorque, RunNormal(upside, t)
  PROVE  mem'.iter = mem.iter + 1
<1>1. mem' = AfterRun(cur, mem, upside) /\ mem \in Mem /\ Bump(mem.iter) = mem.iter + 1
  BY BelowCap DEF RunNormal, Runs, Good, TypeOK
<1>2. CASE cur = "transform_down"
  BY <1>1, <1>2, DownCounts DEF AfterRun
<1>3. CASE cur = "transform_up"
  BY <1>1, <1>3 DEF AfterRun, UpAfterRun, Mem
<1>. QED BY <1>2, <1>3 DEF Transforming, Lowering

\* It has counted i cycles at least.
AtLeast(i) == Transforming /\ mem.iter >= i

\* No step makes it fewer.
LEMMA CountSteps ==
  ASSUME NEW i \in Nat, Good, [Next]_vars, AtLeast(i)
  PROVE  AtLeast(i)' \/ ~Transforming'
<1>1. mem.iter \in Nat /\ mem.iter >= i /\ Transforming
  BY BelowCap DEF AtLeast
<1>2. ASSUME NEW g \in Goal, FsmGoalCb(g) PROVE mem'.iter >= i
  BY <1>1, <1>2 DEF FsmGoalCb
<1>3. ASSUME NEW upside \in BOOLEAN, NEW t \in PolicyTorque, RunNormal(upside, t)
      PROVE mem'.iter >= i
  BY <1>1, <1>3, TransformingCycle
<1>4. ASSUME NEW ramp \in 0..MaxFoldRamp, NEW upside \in BOOLEAN,
             NEW t \in PolicyTorque, RunChange(ramp, upside, t)
      PROVE FALSE
  BY <1>1, <1>4 DEF RunChange, Transforming
<1>5. ASSUME UNCHANGED vars PROVE mem'.iter >= i
  BY <1>1, <1>5 DEF vars
<1>6. mem'.iter >= i
  BY <1>2, <1>3, <1>4, <1>5 DEF Next, Run
<1>. QED BY <1>6 DEF AtLeast

\* A cycle makes it one more.
LEMMA CountMoves ==
  ASSUME NEW i \in Nat, NEW j \in Nat, j = i + 1, Good, <<Run>>_vars, AtLeast(i)
  PROVE  AtLeast(j)' \/ ~Transforming'
<1>1. mem.iter \in Nat /\ mem.iter >= i /\ Transforming
  BY BelowCap DEF AtLeast
<1>2. PICK upside \in BOOLEAN, t \in PolicyTorque : RunNormal(upside, t)
  BY <1>1 DEF Run, RunChange, Transforming
<1>3. mem'.iter = mem.iter + 1
  BY <1>1, <1>2, TransformingCycle
<1>. QED BY <1>1, <1>3 DEF AtLeast

\* The control loop runs.
Cycling == [][Next]_vars /\ WF_vars(Run) /\ []Good /\ []GuardEnables

\* From i cycles on the counter gets to j, unless the transform ends before.
Reaches(i, j) == Cycling => (AtLeast(i) ~> AtLeast(j) \/ ~Transforming)

\* A fair control loop counts the next cycle.
LEMMA CountOne ==
  ASSUME NEW i \in Nat, NEW j \in Nat, j = i + 1
  PROVE  Reaches(i, j)
<1>1. Good /\ AtLeast(i) /\ GuardEnables => ENABLED <<Run>>_vars
  BY BelowCap DEF GuardEnables, RunGuard, AtLeast, Transforming, Lowering
<1>2. Good /\ [Next]_vars /\ AtLeast(i) => AtLeast(i)' \/ ~Transforming'
  BY CountSteps
<1>3. Good /\ <<Run>>_vars /\ AtLeast(i) => AtLeast(j)' \/ ~Transforming'
  BY CountMoves
<1>. QED BY <1>1, <1>2, <1>3, PTL DEF Cycling, Reaches

\* It counts n cycles, wherever it stands.
Counts(n) == \A i, j \in Nat : j = i + n => Reaches(i, j)

\* Counting m cycles and then n is counting m + n.
LEMMA CountsAdd ==
  ASSUME NEW m \in Nat, NEW n \in Nat, NEW k \in Nat, k = m + n
  PROVE  Counts(m) /\ Counts(n) => Counts(k)
<1>1. ASSUME NEW i \in Nat, NEW a \in Nat, NEW j \in Nat
      PROVE  Reaches(i, a) /\ Reaches(a, j) => Reaches(i, j)
  BY PTL DEF Reaches
<1>2. ASSUME NEW i \in Nat, NEW j \in Nat, j = i + k
      PROVE  i + m \in Nat /\ j = (i + m) + n
  BY <1>2
<1>. QED BY <1>1, <1>2 DEF Counts

\* Sixteen thousand cycles, by doubling (induction over a temporal formula is
\* not to be had).
LEMMA CountsFar == Counts(16384)
<1>1. Counts(1)
  BY CountOne DEF Counts
<1>2. Counts(2)
  BY <1>1, CountsAdd, 1 + 1 = 2
<1>3. Counts(4)
  BY <1>2, CountsAdd, 2 + 2 = 4
<1>4. Counts(8)
  BY <1>3, CountsAdd, 4 + 4 = 8
<1>5. Counts(16)
  BY <1>4, CountsAdd, 8 + 8 = 16
<1>6. Counts(32)
  BY <1>5, CountsAdd, 16 + 16 = 32
<1>7. Counts(64)
  BY <1>6, CountsAdd, 32 + 32 = 64
<1>8. Counts(128)
  BY <1>7, CountsAdd, 64 + 64 = 128
<1>9. Counts(256)
  BY <1>8, CountsAdd, 128 + 128 = 256
<1>10. Counts(512)
  BY <1>9, CountsAdd, 256 + 256 = 512
<1>11. Counts(1024)
  BY <1>10, CountsAdd, 512 + 512 = 1024
<1>12. Counts(2048)
  BY <1>11, CountsAdd, 1024 + 1024 = 2048
<1>13. Counts(4096)
  BY <1>12, CountsAdd, 2048 + 2048 = 4096
<1>14. Counts(8192)
  BY <1>13, CountsAdd, 4096 + 4096 = 8192
<1>. QED BY <1>14, CountsAdd, 8192 + 8192 = 16384

\* The longest ramps of the configurations are 2000 cycles per radian and 1000.
RampsConfigured == MaxFoldRamp + StandRamp + Settle <= 16384 - 1

\* So the counter comes to where the transform ends.
LEMMA TransformsEnd ==
  ASSUME RampsConfigured
  PROVE  Cycling => (Transforming ~> ~Transforming)
<1>1. PICK z \in Nat, last \in Nat : z = 0 /\ last = z + 16384
  OBVIOUS
<1>2. Reaches(z, last)
  BY <1>1, CountsFar, 16384 \in Nat DEF Counts
<1>3. Good /\ Transforming => AtLeast(z)
  BY <1>1, BelowCap DEF AtLeast
<1>4. Good /\ AtLeast(last) => ~Transforming
  BY <1>1, BelowCap, RampAssumption DEF AtLeast, RampsConfigured
<1>. QED BY <1>2, <1>3, <1>4, PTL DEF Reaches, Cycling

\* The control loop runs from the start, or from any time on.
LEMMA FairCycling == FairSpec /\ []GuardEnables => Cycling
<1>1. TypeOK /\ IInv /\ InTime /\ HaltsLate => Good
  BY DEF Good
<1>. QED BY <1>1, Invariance, TransformsTakeBoundedTime, HaltsLateAlways, PTL DEF FairSpec, Spec, Cycling

\* The modes between which the machine moves, for the rest of this section.
Changing(s) == mode = "CHANGE" /\ ~halted /\ next = s
Staying(S) == mode = "NORMAL" /\ ~halted /\ cur \in S
ToDown  == Changing("transform_down")
ToLimp  == Changing("idle")
ToOther == mode = "CHANGE" /\ ~halted /\ next \notin {"transform_down", "idle"}
Limp    == Staying({"idle"})
Drives  == Staying(Policy \cup {"joint_pd"})
UpWaits == Staying({"transform_up"}) /\ ~GateOpen(mem)
UpHears == Staying({"transform_up"}) /\ GateOpen(mem)
Downs   == Staying({"transform_down"})

\* A transform under way is one of these.
LEMMA TransformingIs == Good => (Transforming <=> Downs \/ UpWaits)
BY DEF Good, IInv, DownProgress, Transforming, Lowering, Downs, UpWaits, Staying

\* Steps that need nothing of the goal.
LEMMA ModeSteps ==
  ASSUME Good, Good', [Next]_vars
  PROVE  /\ ToDown => ToDown' \/ Downs'
         /\ ToLimp => ToLimp' \/ Limp'
         /\ ToOther => ToOther' \/ Drives' \/ UpWaits' \/ UpHears'
         /\ Downs => Downs' \/ ToLimp'
         /\ halted => halted'
<1>. USE DEF ToDown, ToLimp, ToOther, Limp, Drives, UpWaits, UpHears, Downs, Changing, Staying
<1>1. ASSUME NEW g \in Goal, FsmGoalCb(g) PROVE UNCHANGED <<mode, cur, next, mem, halted>>
  BY <1>1 DEF FsmGoalCb
<1>2. CASE UNCHANGED vars
  BY <1>2 DEF vars, GateOpen
<1>3. ASSUME NEW upside \in BOOLEAN, NEW t \in PolicyTorque, RunNormal(upside, t), Downs
      PROVE  Downs' \/ ToLimp'
  <2>1. CheckTransition(cur, mem', goal) = IF mem'.finish THEN "idle" ELSE "transform_down"
    BY <1>3 DEF CheckTransition, DownTarget
  <2>2. Overflow \notin {"idle", "transform_down"} /\ GetNextState("idle") = "idle"
    BY DEF Overflow, GetNextState
  <2>. QED BY <1>3, <2>1, <2>2 DEF RunNormal
<1>4. ASSUME NEW upside \in BOOLEAN, NEW t \in PolicyTorque, RunNormal(upside, t)
      PROVE  ~halted /\ mode = "NORMAL"
  BY <1>4 DEF RunNormal
<1>5. ASSUME NEW ramp \in 0..MaxFoldRamp, NEW upside \in BOOLEAN,
             NEW t \in PolicyTorque, RunChange(ramp, upside, t)
      PROVE  /\ mode = "CHANGE" /\ ~halted /\ cur' = next /\ mode' = "NORMAL" /\ ~halted'
             /\ next \in State
  BY <1>5 DEF RunChange, Good, TypeOK
<1>6. CASE \E g \in Goal : FsmGoalCb(g)
  BY <1>1, <1>6 DEF GateOpen
<1>7. CASE \E upside \in BOOLEAN, t \in PolicyTorque : RunNormal(upside, t)
  BY <1>3, <1>4, <1>7
<1>8. CASE \E upside \in BOOLEAN, t \in PolicyTorque, ramp \in 0..MaxFoldRamp : RunChange(ramp, upside, t)
  BY <1>5, <1>8 DEF State, Builtin
<1>. QED BY <1>2, <1>6, <1>7, <1>8 DEF Next, Run

\* A cycle carries out a pending change.
LEMMA ModeMoves ==
  ASSUME Good, <<Run>>_vars
  PROVE  /\ ToDown => Downs'
         /\ ToLimp => Limp'
         /\ ToOther => Drives' \/ UpWaits' \/ UpHears'
<1>. USE DEF ToDown, ToLimp, ToOther, Limp, Drives, UpWaits, UpHears, Downs, Changing, Staying
<1>1. ASSUME mode = "CHANGE" PROVE cur' = next /\ mode' = "NORMAL" /\ halted' = halted /\ next \in State
  BY <1>1 DEF Run, RunNormal, RunChange, Good, TypeOK
<1>. QED BY <1>1 DEF State, Builtin

\* TransformDown ends in Passive, whatever goals arrive, for ramps that are
\* configured.
THEOREM LoweringEnds ==
  ASSUME RampsConfigured
  PROVE  FairSpec /\ []GuardEnables => LoweringCompletes
<1>. DEFINE Down == cur = "transform_down"
            Idle == cur = "idle"
            DownLeaves == Down /\ ToLimp
<1>1. Good => (Down <=> Downs \/ DownLeaves)
  BY PolicyAssumption DEF Good, IInv, DownProgress, HaltsLate, TypeOK, Allowed, Builtin, Downs, ToLimp, Changing, Staying
<1>2. Good /\ Downs => Transforming
  BY TransformingIs
<1>3. ToLimp /\ GuardEnables => ENABLED <<Run>>_vars
  BY DEF ToLimp, Changing, GuardEnables, RunGuard
<1>4. Good /\ Good' /\ [Next]_vars => /\ ToLimp => ToLimp' \/ Limp'
                                      /\ Downs => Downs' \/ ToLimp'
  BY ModeSteps
<1>5. Good /\ <<Run>>_vars /\ ToLimp => Limp'
  BY ModeMoves
<1>6. Limp => Idle
  BY DEF Limp, Staying
<1>7. /\ Down <=> cur = "transform_down"
      /\ Idle <=> cur = "idle"
      /\ DownLeaves <=> Down /\ ToLimp
  OBVIOUS
<1>8. Cycling => (Transforming ~> ~Transforming)
  BY TransformsEnd
<1>9. Good /\ UpWaits => ~Downs
  BY DEF UpWaits, Downs, Staying
<1>. HIDE DEF Down, Idle, DownLeaves
<1>10. Cycling => (ToLimp ~> Limp)
  BY <1>3, <1>4, <1>5, PTL DEF Cycling
<1>11. Cycling => (Downs ~> ToLimp)
  BY <1>2, <1>4, <1>8, PTL DEF Cycling
<1>12. Cycling => (Down ~> Idle)
  BY <1>1, <1>6, <1>7, <1>10, <1>11, PTL DEF Cycling
<1>. QED BY <1>7, <1>12, FairCycling, PTL DEF LoweringCompletes

\* TransformUp gets the robot to stand, whatever goals arrive, unless it finds
\* it upside down.
THEOREM RisingEnds ==
  ASSUME RampsConfigured
  PROVE  FairSpec /\ []GuardEnables => StandsUp
<1>. DEFINE Up == cur = "transform_up"
            Stood == setpoint = "stand" \/ mem.flag = "RollOver"
<1>1. Up => Rising \/ Stood
  BY DEF Rising
<1>2. ASSUME Good, Rising PROVE Transforming /\ mode = "NORMAL" /\ cur = "transform_up"
  <2>1. /\ mem.iter \in Nat /\ mem.foldRamp \in 0..MaxFoldRamp
        /\ StandRamp \in Nat /\ Settle \in Nat /\ Settle >= 3 /\ mode \in {"NORMAL", "CHANGE"}
    BY <1>2, BumpType, RampAssumption DEF Good, TypeOK, Mem
  <2>2. mem.iter <= mem.foldRamp + StandRamp + 2
    BY <1>2 DEF Good, InTime
  <2>3. ~GateOpen(mem)
    BY <2>1, <2>2 DEF GateOpen
  <2>4. mode = "NORMAL"
    BY <1>2, <2>1, <2>3 DEF Good, IInv, UpProgress, Rising
  <2>. QED BY <1>2, <2>3, <2>4 DEF Good, HaltsLate, Transforming, Rising
<1>3. ASSUME Good, [Next]_vars, Rising PROVE Rising' \/ Stood'
  <2>1. mode = "NORMAL" /\ cur = "transform_up"
    BY <1>2, <1>3
  <2>2. cur' = cur
    BY <1>3, <2>1 DEF Next, FsmGoalCb, Run, RunNormal, RunChange, vars
  <2>. QED BY <2>1, <2>2 DEF Rising
<1>4. Cycling => (Transforming ~> ~Transforming)
  BY TransformsEnd
<1>5. Good /\ Rising => Transforming
  BY <1>2
<1>6. Good /\ [Next]_vars /\ Rising => Rising' \/ Stood'
  BY <1>3
<1>7. /\ Up <=> cur = "transform_up"
      /\ Stood <=> setpoint = "stand" \/ mem.flag = "RollOver"
  OBVIOUS
<1>. HIDE DEF Up, Stood
<1>8. Cycling => (Up ~> Stood)
  BY <1>1, <1>4, <1>5, <1>6, PTL DEF Cycling
<1>. QED BY <1>7, <1>8, FairCycling, PTL DEF StandsUp

\* What every mode makes of the goal transform_down.
LEMMA AskedNormal ==
  ASSUME Good, goal = "transform_down", NEW upside \in BOOLEAN, NEW t \in PolicyTorque,
         RunNormal(upside, t)
  PROVE  /\ Limp => Limp'
         /\ Drives => ToDown'
         /\ UpWaits => UpWaits' \/ UpHears' \/ ToDown'
         /\ UpHears => ToDown'
<1>. USE PolicyAssumption
     DEF ToDown, Limp, Drives, UpWaits, UpHears, Changing, Staying, Builtin
<1>1. /\ mode = "NORMAL" /\ ~halted /\ cur' = cur
      /\ LET want == CheckTransition(cur, mem', goal) IN
           /\ want = cur /\ want # Overflow => mode' = "NORMAL" /\ ~halted'
           /\ want = "transform_down" /\ want # cur =>
                mode' = "CHANGE" /\ ~halted' /\ next' = "transform_down"
  BY DEF RunNormal, GetNextState, Overflow, State
<1>2. Limp => CheckTransition(cur, mem', goal) = "idle"
  BY DEF CheckTransition, PassiveTarget
<1>3. "transform_down" \notin RlGoal
  OBVIOUS
<1>4. Drives => CheckTransition(cur, mem', goal) = "transform_down"
  BY <1>3 DEF CheckTransition, JointPDTarget, PolicyTarget
<1>5. UpWaits \/ UpHears => CheckTransition(cur, mem', goal)
                              = IF GateOpen(mem') THEN "transform_down" ELSE "transform_up"
  BY <1>3 DEF CheckTransition, UpTarget
<1>6. UpHears => GateOpen(mem')
  <2>. SUFFICES ASSUME UpHears PROVE GateOpen(mem')
    OBVIOUS
  <2>1. mem' = UpAfterRun(mem, upside) /\ mem \in Mem
    BY DEF RunNormal, Runs, AfterRun, Good, TypeOK
  <2>2. mem'.iter = Bump(mem.iter) /\ mem'.foldRamp = mem.foldRamp
    BY <2>1 DEF UpAfterRun, Mem
  <2>3. mem.iter \in Nat /\ mem.foldRamp \in 0..MaxFoldRamp
    BY <2>1, BumpType DEF Mem
  <2>4. mem.iter >= mem.foldRamp + StandRamp + Settle
    BY DEF GateOpen
  <2>. QED BY <2>2, <2>3, <2>4, RampAssumption DEF GateOpen, Bump, IterCap
<1>7. Overflow \notin {"idle", "transform_up", "transform_down"}
  BY DEF Overflow
<1>. QED BY <1>1, <1>2, <1>4, <1>5, <1>6, <1>7

\* So do all steps as long as it is asked for.
LEMMA AskedSteps ==
  ASSUME Good, Good', goal = "transform_down", [Next]_vars
  PROVE  /\ Limp => Limp'
         /\ Drives => Drives' \/ ToDown'
         /\ UpWaits => UpWaits' \/ UpHears' \/ ToDown'
         /\ UpHears => UpHears' \/ ToDown'
<1>1. CASE (\E g \in Goal : FsmGoalCb(g)) \/ UNCHANGED vars
  BY <1>1 DEF FsmGoalCb, vars, Limp, Drives, UpWaits, UpHears, Staying, GateOpen
<1>2. CASE \E upside \in BOOLEAN, t \in PolicyTorque : RunNormal(upside, t)
  BY <1>2, AskedNormal
<1>3. CASE \E upside \in BOOLEAN, t \in PolicyTorque, ramp \in 0..MaxFoldRamp : RunChange(ramp, upside, t)
  BY <1>3 DEF RunChange, Limp, Drives, UpWaits, UpHears, Staying
<1>. QED BY <1>1, <1>2, <1>3 DEF Next, Run

\* A cycle hears it, where it is heard.
LEMMA AskedMoves ==
  ASSUME Good, goal = "transform_down", <<Run>>_vars
  PROVE  /\ Drives => ToDown'
         /\ UpHears => ToDown'
<1>1. CASE \E upside \in BOOLEAN, t \in PolicyTorque : RunNormal(upside, t)
  BY <1>1, AskedNormal
<1>2. CASE \E upside \in BOOLEAN, t \in PolicyTorque, ramp \in 0..MaxFoldRamp : RunChange(ramp, upside, t)
  BY <1>2 DEF RunChange, Drives, UpHears, Staying
<1>. QED BY <1>1, <1>2 DEF Run

\* An operator who keeps asking for transform_down gets the robot down and
\* limp for good, from every mode and for all ramps that are configured.
THEOREM DownIsReachedAlways ==
  ASSUME RampsConfigured
  PROVE  FairSpec /\ []GuardEnables => DownIsReached
<1>. DEFINE Asked == goal = "transform_down"
            Rest == cur = "idle" \/ halted
            Stops == halted
            Follow == Cycling /\ []Asked
<1>1. Good => \/ Stops \/ ToDown \/ ToLimp \/ ToOther \/ Limp \/ Drives \/ UpWaits \/ UpHears \/ Downs
  BY DEF Good, TypeOK, State, Builtin, ToDown, ToLimp, ToOther, Limp, Drives, UpWaits, UpHears,
         Downs, Changing, Staying
<1>2. /\ ToDown /\ GuardEnables => ENABLED <<Run>>_vars
      /\ ToLimp /\ GuardEnables => ENABLED <<Run>>_vars
      /\ ToOther /\ GuardEnables => ENABLED <<Run>>_vars
      /\ Asked /\ Drives /\ GuardEnables => ENABLED <<Run>>_vars
      /\ Asked /\ UpHears /\ GuardEnables => ENABLED <<Run>>_vars
  BY DEF ToDown, ToLimp, ToOther, Drives, UpHears, Changing, Staying, GuardEnables, RunGuard
<1>3. Good /\ Good' /\ [Next]_vars =>
        /\ ToDown => ToDown' \/ Downs'
        /\ ToLimp => ToLimp' \/ Limp'
        /\ ToOther => ToOther' \/ Drives' \/ UpWaits' \/ UpHears'
        /\ Downs => Downs' \/ ToLimp'
        /\ Stops => Stops'
  BY ModeSteps
<1>4. Good /\ Good' /\ Asked /\ [Next]_vars =>
        /\ Limp => Limp'
        /\ Drives => Drives' \/ ToDown'
        /\ UpWaits => UpWaits' \/ UpHears' \/ ToDown'
        /\ UpHears => UpHears' \/ ToDown'
  BY AskedSteps
<1>5. /\ Good /\ <<Run>>_vars /\ ToDown => Downs'
      /\ Good /\ <<Run>>_vars /\ ToLimp => Limp'
      /\ Good /\ <<Run>>_vars /\ ToOther => Drives' \/ UpWaits' \/ UpHears'
  BY ModeMoves
<1>6. /\ Good /\ Asked /\ <<Run>>_vars /\ Drives => ToDown'
      /\ Good /\ Asked /\ <<Run>>_vars /\ UpHears => ToDown'
  BY AskedMoves
<1>7. /\ Good /\ Downs => Transforming
      /\ Good /\ UpWaits => Transforming
  BY TransformingIs
<1>8. Limp \/ Stops => Rest
  BY DEF Limp, Staying
<1>9. /\ Asked <=> goal = "transform_down"
      /\ Rest <=> cur = "idle" \/ halted
  OBVIOUS
<1>10. Cycling => (Transforming ~> ~Transforming)
  BY TransformsEnd
<1>. HIDE DEF Asked, Rest, Stops
<1>12. Follow => (ToLimp ~> Limp)
  BY <1>2, <1>3, <1>5, PTL DEF Cycling
<1>13. Follow => (Downs ~> ToLimp)
  BY <1>3, <1>7, <1>10, PTL DEF Cycling
<1>14. Follow => (ToDown ~> Downs)
  BY <1>2, <1>3, <1>5, PTL DEF Cycling
<1>15. Follow => (Drives ~> ToDown)
  BY <1>2, <1>4, <1>6, PTL DEF Cycling
<1>16. Follow => (UpHears ~> ToDown)
  BY <1>2, <1>4, <1>6, PTL DEF Cycling
<1>17. Follow => (UpWaits ~> UpHears \/ ToDown)
  BY <1>4, <1>7, <1>10, PTL DEF Cycling
<1>18. Follow => (ToOther ~> Drives \/ UpWaits \/ UpHears)
  BY <1>2, <1>3, <1>5, PTL DEF Cycling
<1>19. Follow => <>(Stops \/ Limp)
  BY <1>1, <1>12, <1>13, <1>14, <1>15, <1>16, <1>17, <1>18, PTL DEF Cycling
<1>20. Follow => <>[]Rest
  BY <1>3, <1>4, <1>8, <1>19, PTL DEF Cycling
<1>21. Cycling => []Cycling
  BY PTL DEF Cycling
<1>. QED BY <1>9, <1>20, <1>21, FairCycling, PTL DEF DownIsReached
-----------------------------------------------------------------------------
(* Refinement. *)

\* Inside TransformUp a robot that stands keeps standing, one that is
\* stranded stays stranded.
LEMMA UpNormalPosture ==
  ASSUME TypeOK, IInv, NEW upside \in BOOLEAN, cur = "transform_up", cur' = cur,
         mem' = UpAfterRun(mem, upside), setpoint' = UpSetpoint(mem)
  PROVE  [Abstract!Next]_PostureOf
<1>0. /\ mem.iter \in Nat /\ mem.motionStart \in Nat /\ mem.flag \in Flag
      /\ mem \in Mem
  BY BumpType DEF TypeOK, Mem
<1>1. CASE mem.flag = "RollOver"
  <2>1. mem'.flag = "RollOver"
    BY <1>0, <1>1 DEF UpAfterRun, FoldDone, Mem
  <2>2. QED BY <1>1, <2>1 DEF PostureOf
<1>2. CASE mem.flag # "RollOver" /\ setpoint = "stand"
  <2>1. mem.flag = "StandUp" /\ mem.iter > mem.motionStart + StandRamp
    BY <1>0, <1>2 DEF IInv, UpProgress, Flag
  <2>2. setpoint' = "stand" /\ mem' = [mem EXCEPT !.iter = Bump(mem.iter)]
    BY <1>0, <2>1, RampAssumption DEF UpSetpoint, Interpolated, UpAfterRun, FoldDone
  <2>3. mem'.flag = "StandUp"
    BY <1>0, <2>1, <2>2 DEF Mem
  <2>4. PostureOf' = PostureOf
    BY <1>2, <2>2, <2>3 DEF PostureOf
  <2>5. QED BY <2>4
<1>3. CASE mem.flag # "RollOver" /\ setpoint # "stand"
  <2>1. PostureOf = "rising"
    BY <1>3 DEF PostureOf
  <2>2. PostureOf' \in {"rising", "stood", "stranded"}
    BY DEF PostureOf
  <2>3. QED BY <2>1, <2>2 DEF Abstract!Next, Abstract!Rise, Abstract!Move
<1>4. QED BY <1>1, <1>2, <1>3

\* A cycle in mode NORMAL leaves the robot in a posture Posture allows.
LEMMA NormalPosture ==
  ASSUME TypeOK, IInv, NEW upside \in BOOLEAN, NEW t \in PolicyTorque,
         RunNormal(upside, t)
  PROVE  [Abstract!Next]_PostureOf
<1>1. /\ cur' = cur /\ mem' = AfterRun(cur, mem, upside)
      /\ setpoint' = SetpointOf(cur, mem) /\ mode = "NORMAL"
  BY DEF RunNormal, Runs
<1>2. CASE cur = "transform_up"
  BY <1>1, <1>2, UpNormalPosture DEF AfterRun, SetpointOf
<1>3. CASE cur = "transform_down"
  <2>1. PostureOf = "lowering"
    BY <1>1, <1>3 DEF IInv, DownProgress, PostureOf
  <2>2. PostureOf' \in {"lowering", "folded"}
    BY <1>1, <1>3 DEF PostureOf
  <2>3. QED BY <2>1, <2>2 DEF Abstract!Next, Abstract!Fold, Abstract!Move
<1>4. CASE cur \notin {"transform_up", "transform_down"}
  BY <1>1, <1>4 DEF PostureOf
<1>5. QED BY <1>2, <1>3, <1>4

\* So does one in mode CHANGE.
LEMMA ChangePosture ==
  ASSUME TypeOK, TypeOK', IInv, IInv', NEW ramp \in 0..MaxFoldRamp,
         NEW upside \in BOOLEAN, NEW t \in PolicyTorque, RunChange(ramp, upside, t)
  PROVE  [Abstract!Next]_PostureOf
<1> USE PolicyAssumption DEF Builtin
<1>1. /\ cur' = next /\ mode = "CHANGE" /\ mode' = "NORMAL" /\ Allowed(cur, next)
  BY DEF RunChange, IInv
<1>2. next \in Policy => PostureOf' = "driven"
  BY <1>1 DEF PostureOf
<1>3. next = "joint_pd" => PostureOf' = "held"
  BY <1>1 DEF PostureOf
<1>4. next = "idle" => PostureOf' = "limp"
  BY <1>1 DEF PostureOf
<1>5. next = "transform_down" => PostureOf' = "lowering"
  BY <1>1 DEF PostureOf, IInv, DownProgress
<1>6. next = "transform_up" => PostureOf' \in {"rising", "stranded"}
  <2> SUFFICES ASSUME next = "transform_up" PROVE setpoint' # "stand"
    BY <1>1 DEF PostureOf
  <2> DEFINE x == Exited(cur, mem)
             e == [x EXCEPT !.iter = 0, !.foldRamp = ramp, !.motionStart = 0,
                            !.flag = IF upside THEN "RollOver" ELSE "FoldLegs"]
  <2>1. x \in Mem
    BY DEF Exited, TypeOK, Mem
  <2> HIDE DEF x
  <2>2. e.flag \in {"RollOver", "FoldLegs"}
    BY <2>1 DEF Mem
  <2>3. setpoint' = UpSetpoint(e)
    BY DEF RunChange, Runs, SetpointOf, Entered, x
  <2> HIDE DEF e
  <2>4. QED BY <2>2, <2>3 DEF UpSetpoint, Interpolated
<1>7. CASE cur = "idle"
  <2>1. PostureOf = "limp"
    BY <1>7 DEF PostureOf
  <2>2. QED BY <1>1, <1>3, <1>6, <1>7, <2>1
            DEF Allowed, Abstract!Next, Abstract!GetUp, Abstract!Move
<1>8. CASE cur = "transform_up"
  <2>1. PostureOf \in {"stood", "stranded"}
    BY <1>1, <1>8, GateMeansStood DEF PostureOf, StoodBeforeLeaving
  <2>2. PostureOf' \in {"held", "driven", "lowering"}
    BY <1>1, <1>2, <1>3, <1>5, <1>8 DEF Allowed
  <2>3. QED BY <2>1, <2>2 DEF Abstract!Next, Abstract!HandOver, Abstract!Move
<1>9. CASE cur = "joint_pd"
  <2>1. PostureOf = "held"
    BY <1>9 DEF PostureOf
  <2>2. PostureOf' \in {"limp", "driven", "lowering"}
    BY <1>1, <1>2, <1>4, <1>5, <1>9 DEF Allowed
  <2>3. QED BY <2>1, <2>2 DEF Abstract!Next, Abstract!Release, Abstract!Move
<1>10. CASE cur = "transform_down"
  <2>1. PostureOf = "folded"
    BY <1>1, <1>10 DEF PostureOf, IInv, DownProgress
  <2>2. PostureOf' = "limp"
    BY <1>1, <1>4, <1>10 DEF Allowed
  <2>3. QED BY <2>1, <2>2 DEF Abstract!Next, Abstract!LieDown, Abstract!Move
<1>11. CASE cur \in Policy
  <2>1. PostureOf = "driven"
    BY <1>11 DEF PostureOf
  <2>2. PostureOf' \in {"driven", "lowering"}
    BY <1>1, <1>2, <1>5, <1>11 DEF Allowed
  <2>3. QED BY <2>1, <2>2 DEF Abstract!Next, Abstract!Lower, Abstract!Move
<1>12. QED BY <1>7, <1>8, <1>9, <1>10, <1>11 DEF TypeOK, State

\* Every behaviour of the mode machine is one of Posture, whatever the
\* operator's goals and however the robot lies.
THEOREM RefinesPosture == Spec => ImplementsPosture
<1>1. Init => Abstract!Init
  BY DEF Init, Abstract!Init, PostureOf
<1>2. TypeOK /\ TypeOK' /\ IInv /\ IInv' /\ [Next]_vars => [Abstract!Next]_PostureOf
  <2> SUFFICES ASSUME TypeOK, TypeOK', IInv, IInv', [Next]_vars
               PROVE [Abstract!Next]_PostureOf
    OBVIOUS
  <2>1. ASSUME NEW g \in Goal, FsmGoalCb(g) PROVE PostureOf' = PostureOf
    BY <2>1 DEF FsmGoalCb, PostureOf
  <2>2. CASE UNCHANGED vars
    BY <2>2 DEF vars, PostureOf
  <2>3. QED BY <2>1, <2>2, NormalPosture, ChangePosture DEF Next, Run
<1>3. QED BY <1>1, <1>2, Invariance, PTL DEF Spec, ImplementsPosture, Abstract!Spec
-----------------------------------------------------------------------------
(* The handset in front of the machine: Teleop (H) and RlFsm share goal.   *)

CONSTANTS Drill, Depth
VARIABLES drill, frame, rx, joy, joyBusy, useSdk, sdkBit, lastKey,
          tick, data, key, goalBusy, topic
H == INSTANCE Teleop

\* The left switch of the last frame is not up.
SwitchNotUp == frame.pos[4] # -1

\* What may be asked for while it never is.
Harmless == {"transform_down"} \cup drill.others

\* Between the threads: no axis stored so far arms the node, a tick has not
\* got past its gate, and what is under way to the controller is harmless.
\* Nothing is published before the first goal: an empty name is never "changed".
Unarmed ==
  /\ DOMAIN joy = 4..6 /\ joy[4] # -1
  /\ tick \in {"wait", "up", "gate", "compare"}
  /\ data \in {"", "transform_down"}
  /\ data = "" => key = "" /\ ~goalBusy
  /\ topic \in Seq(Harmless)
  /\ goal \in {"idle"} \cup Harmless

\* keep_last loses a message and makes up none.
LEMMA PushedHarmless ==
  ASSUME Depth \in Nat \ {0}, NEW S, topic \in Seq(S), NEW g \in S
  PROVE  H!Pushed(g) \in Seq(S)
<1>1. CASE Len(topic) = Depth
  <2>1. Tail(topic) \in Seq(S)
    BY <1>1
  <2>. QED BY <1>1, <2>1 DEF H!Pushed
<1>2. CASE Len(topic) # Depth
  BY <1>2 DEF H!Pushed
<1>. QED BY <1>1, <1>2

\* What the controller takes from the topic was published.
LEMMA TakenHarmless ==
  ASSUME NEW S, topic \in Seq(S), topic # <<>>
  PROVE  Head(topic) \in S /\ Tail(topic) \in Seq(S)
OBVIOUS

\* The axes start in the middle, as make_shared leaves them.
LEMMA UnarmedInit == H!Init => Unarmed
<1>. SUFFICES ASSUME H!Init PROVE Unarmed
  OBVIOUS
<1>1. joy = [a \in 4..6 |-> 0]
  BY DEF H!Init, H!Axis
<1>2. DOMAIN joy = 4..6 /\ joy[4] # -1
  BY <1>1
<1>3. tick = "wait" /\ data = "" /\ key = "" /\ ~goalBusy /\ topic = <<>> /\ goal = "idle"
  BY Zenon DEF H!Init
<1>4. <<>> \in Seq(Harmless)
  OBVIOUS
<1>. QED BY <1>2, <1>3, <1>4 DEF Unarmed

\* No step of either thread arms the node while the switch is not up.
LEMMA UnarmedStep ==
  ASSUME Depth \in Nat \ {0}
  PROVE  Unarmed /\ SwitchNotUp /\ [H!Next]_H!vars => Unarmed'
<1>. SUFFICES ASSUME Unarmed, SwitchNotUp, [H!Next]_H!vars PROVE Unarmed'
  OBVIOUS
<1>. USE DEF H!vars, H!rxVars, H!tickVars
<1>1. /\ DOMAIN joy = 4..6 /\ joy[4] # -1
      /\ tick \in {"wait", "up", "gate", "compare"}
      /\ data \in {"", "transform_down"}
      /\ data = "" => key = "" /\ ~goalBusy
      /\ topic \in Seq(Harmless)
      /\ goal \in {"idle"} \cup Harmless
  BY DEF Unarmed
<1>2. drill' = drill /\ Harmless' = Harmless
  <2>1. drill' = drill
    BY DEF H!Next, H!Receive, H!Receiver, H!StoreAxis, H!ReadKey, H!SendJoy, H!Timer,
           H!AskDown, H!AskUp, H!AskArmed, H!AskMid, H!AskLow, H!AskJump, H!Compare,
           H!Goes, H!SendGoal, H!FsmGoalCb, H!OtherPublish
  <2>. QED BY <2>1 DEF Harmless
<1>3. CASE H!Receive \/ H!ReadKey \/ H!SendJoy
  <2>1. UNCHANGED <<joy, tick, data, key, goalBusy, topic, goal>>
    BY <1>3, Zenon DEF H!Receive, H!ReadKey, H!SendJoy
  <2>. QED BY <1>1, <1>2, <2>1 DEF Unarmed
<1>4. CASE H!StoreAxis
  <2>1. rx \in 1..3 /\ joy' = [joy EXCEPT ![3 + rx] = frame.pos[3 + rx]]
    BY <1>4 DEF H!StoreAxis
  <2>2. DOMAIN joy' = 4..6
    BY <1>1, <2>1
  <2>3. joy'[4] = IF 3 + rx = 4 THEN frame.pos[3 + rx] ELSE joy[4]
    <3>. DEFINE i == 3 + rx
                v == frame.pos[i]
    <3>1. 4 \in DOMAIN joy
      <4>1. 4 \in 4..6
        OBVIOUS
      <4>. QED BY <1>1, <4>1, Zenon
    <3>2. joy' = [joy EXCEPT ![i] = v]
      BY <2>1, Zenon
    <3>. HIDE DEF i, v
    <3>3. joy'[4] = IF i = 4 THEN v ELSE joy[4]
      BY <3>1, <3>2
    <3>. QED BY <3>3 DEF i, v
  <2>4. joy'[4] # -1
    BY <1>1, <2>3, Zenon DEF SwitchNotUp
  <2>. QED BY <1>1, <1>2, <1>4, <2>2, <2>4 DEF H!StoreAxis, Unarmed
<1>5. CASE H!AskDown
  BY <1>1, <1>2, <1>5 DEF H!AskDown, H!Goes, H!SetsData, Unarmed
<1>6. CASE H!AskUp
  BY <1>1, <1>2, <1>6 DEF H!AskUp, H!Goes, H!SetsData, Unarmed
<1>7. CASE H!AskArmed
  BY <1>1, <1>2, <1>7 DEF H!AskArmed, H!Armed, H!Goes, H!SetsData, Unarmed
<1>8. CASE H!AskMid \/ H!AskLow \/ H!AskJump
  BY <1>1, <1>8 DEF H!AskMid, H!AskLow, H!AskJump, H!Goes
<1>9. CASE H!Compare
  BY <1>1, <1>2, <1>9 DEF H!Compare, H!Changed, H!Goes, Unarmed
<1>10. CASE H!SendGoal
  <2>1. data \in Harmless /\ topic' = H!Pushed(data)
    BY <1>1, <1>10 DEF H!SendGoal, Harmless
  <2>2. topic' \in Seq(Harmless)
    BY <1>1, <2>1, PushedHarmless
  <2>. QED BY <1>1, <1>2, <1>10, <2>2 DEF H!SendGoal, Unarmed
<1>11. ASSUME NEW g \in drill.others, H!OtherPublish(g)
       PROVE  Unarmed'
  <2>1. topic' \in Seq(Harmless)
    BY <1>1, <1>11, PushedHarmless DEF H!OtherPublish, Harmless
  <2>. QED BY <1>1, <1>2, <1>11, <2>1 DEF H!OtherPublish, Unarmed
<1>12. CASE H!FsmGoalCb
  <2>1. topic # <<>> /\ goal' = Head(topic) /\ topic' = Tail(topic)
    BY <1>12 DEF H!FsmGoalCb
  <2>2. Head(topic) \in Harmless /\ Tail(topic) \in Seq(Harmless)
    BY <1>1, <2>1, TakenHarmless
  <2>. QED BY <1>1, <1>2, <1>12, <2>1, <2>2 DEF H!FsmGoalCb, Unarmed
<1>13. CASE UNCHANGED H!vars
  BY <1>1, <1>2, <1>13 DEF Unarmed
<1>. QED BY <1>3, <1>4, <1>5, <1>6, <1>7, <1>8, <1>9, <1>10, <1>11, <1>12, <1>13
     DEF H!Next, H!Receiver, H!Timer

\* Hence a node whose switch is never up is never armed.
LEMMA UnarmedAlways ==
  ASSUME Depth \in Nat \ {0}
  PROVE  H!Spec /\ []SwitchNotUp => []Unarmed
BY UnarmedInit, UnarmedStep, PTL DEF H!Spec

\* For every set of switch positions, any other publishers and any depth of
\* the goal topic: no race of the receiver with the timer arms the robot.
THEOREM RacesNeverArm ==
  ASSUME Depth \in Nat \ {0}
  PROVE  H!Spec => H!NeverArmedAlone
<1>1. SwitchNotUp <=> frame.pos[4] # -1
  BY DEF SwitchNotUp
<1>2. Unarmed => goal \in {"idle", "transform_down"} \cup drill.others
  BY DEF Unarmed, Harmless
<1>. QED BY <1>1, <1>2, UnarmedAlways, PTL DEF H!NeverArmedAlone

\* While the button's key stays what it is, the receiver that has seen it (or
\* does not look) leaves the mode alone, and does not forget it.
LEMMA HeldKeySeenOnce ==
  ASSUME NEW k, [H!Next]_H!vars, frame.key = k
  PROVE  /\ lastKey = k => lastKey' = k
         /\ lastKey = k \/ lastKey' # k => (useSdk' <=> useSdk)
<1>1. CASE H!ReadKey
  <2>1. lastKey' = k
    BY <1>1 DEF H!ReadKey
  <2>2. lastKey = k => ~H!Pressed
    BY DEF H!Pressed
  <2>. QED BY <1>1, <2>1, <2>2 DEF H!ReadKey
<1>2. CASE ~H!ReadKey
  <2>1. UNCHANGED <<lastKey, useSdk>>
    BY <1>2, Zenon
       DEF H!Next, H!Receive, H!Receiver, H!StoreAxis, H!SendJoy, H!Timer, H!AskDown,
           H!AskUp, H!AskArmed, H!AskMid, H!AskLow, H!AskJump, H!Compare, H!Goes,
           H!SendGoal, H!FsmGoalCb, H!OtherPublish, H!vars, H!rxVars
  <2>. QED BY <2>1, Zenon
<1>. QED BY <1>1, <1>2

\* For every set of keys and however the threads run: a button held down or
\* left alone does not switch SDK mode back and forth.  This needs no
\* fairness: either the receiver sees the key, once, or it never looks again.
THEOREM HeldButtonSettles == H!Spec => H!HeldTogglesOnce
<1>1. ASSUME NEW k \in H!Key
      PROVE  H!Spec => (<>[](frame.key = k) => (<>[]useSdk \/ <>[]~useSdk))
  <2>. DEFINE held == frame.key = k
              seen == lastKey = k
  <2>1. [H!Next]_H!vars /\ held => (seen => seen') /\ (seen \/ ~seen' => (useSdk' <=> useSdk))
    BY HeldKeySeenOnce
  <2>. HIDE DEF held, seen
  <2>2. H!Spec => (<>[]held => (<>[]useSdk \/ <>[]~useSdk))
    BY <2>1, PTL DEF H!Spec
  <2>3. held <=> frame.key = k
    BY DEF held
  <2>. QED BY <2>2, <2>3, PTL
<1>. QED BY <1>1 DEF H!HeldTogglesOnce

\* Passive, and no change of mode pending.
Resting == mode = "NORMAL" /\ cur = "idle" /\ setpoint \in {"limp", "damp"} /\ tau = 0

\* Node and controller together: a handset whose left switch was never up,
\* next to publishers that ask for nothing else than idle and transform_down,
\* leaves the robot in Passive, its motors damped at most and without torque.
THEOREM HandsetDownRests ==
  ASSUME Depth \in Nat \ {0}
  PROVE  Spec /\ H!Spec
           /\ [](frame.pos[4] # -1 /\ drill.others \subseteq {"idle", "transform_down"})
         => []Resting
<1>1. Init => Resting
  BY DEF Init, Resting
<1>2. Resting /\ goal \in {"idle", "transform_down"} /\ [Next]_vars => Resting'
  <2>. SUFFICES ASSUME Resting, goal \in {"idle", "transform_down"}, [Next]_vars
                PROVE  Resting'
    OBVIOUS
  <2>1. CASE UNCHANGED vars
    BY <2>1 DEF vars, Resting
  <2>2. ASSUME NEW g \in Goal, FsmGoalCb(g) PROVE Resting'
    BY <2>2 DEF FsmGoalCb, Resting
  <2>3. ASSUME NEW upside \in BOOLEAN, NEW t \in PolicyTorque, RunNormal(upside, t)
        PROVE  Resting'
    <3>1. cur = "idle" /\ "idle" \notin Policy
      BY PolicyAssumption DEF Resting, Builtin
    <3>2. CheckTransition(cur, mem', goal) = "idle"
      BY <3>1 DEF CheckTransition, PassiveTarget, Resting
    <3>3. mode' = mode /\ cur' = cur
      BY <2>3, <3>1, <3>2 DEF RunNormal
    <3>4. setpoint' = "damp" /\ tau' = 0
      BY <2>3, <3>1 DEF RunNormal, Runs, SetpointOf, TorqueOf, Clamped
    <3>. QED BY <3>1, <3>3, <3>4 DEF Resting
  <2>4. ASSUME NEW upside \in BOOLEAN, NEW t \in PolicyTorque,
               NEW ramp \in 0..MaxFoldRamp, RunChange(ramp, upside, t)
        PROVE  Resting'
    BY <2>4 DEF RunChange, Resting
  <2>. QED BY <2>1, <2>2, <2>3, <2>4 DEF Next, Run
<1>3. Unarmed /\ frame.pos[4] # -1 /\ drill.others \subseteq {"idle", "transform_down"}
        => goal \in {"idle", "transform_down"}
  BY DEF Unarmed, Harmless
<1>4. frame.pos[4] # -1 /\ drill.others \subseteq {"idle", "transform_down"} => SwitchNotUp
  BY DEF SwitchNotUp
<1>. QED BY <1>1, <1>2, <1>3, <1>4, UnarmedAlways, PTL DEF Spec
-----------------------------------------------------------------------------
(* What Teleop said last arrives, as long as nobody else speaks.           *)

\* While the publisher is busy it holds the goal published last; else that is
\* the newest message on its way, or has arrived.
NewestUnderWay ==
  /\ data \in H!TeleopGoal \cup {""} /\ topic \in Seq(H!TeleopGoal \cup {""})
  /\ tick # "wait" => ~goalBusy
  /\ goalBusy => data = key
  /\ ~goalBusy /\ topic # <<>> => topic[Len(topic)] = key
  /\ ~goalBusy /\ topic = <<>> => goal = key \/ (key = "" /\ goal = "idle")

\* keep_last drops the oldest message, never the one just published.
LEMMA PushedNewest ==
  ASSUME Depth \in Nat \ {0}, NEW S, topic \in Seq(S), NEW g \in S
  PROVE  H!Pushed(g) # <<>> /\ H!Pushed(g)[Len(H!Pushed(g))] = g
<1>. DEFINE q == IF Len(topic) = Depth THEN Tail(topic) ELSE topic
<1>1. q \in Seq(S)
  BY PushedHarmless
<1>2. H!Pushed(g) = Append(q, g)
  BY DEF H!Pushed
<1>. HIDE DEF q
<1>. QED BY <1>1, <1>2

\* Taking the oldest message leaves the newest, unless it was the only one.
LEMMA TakenNewest ==
  ASSUME NEW S, topic \in Seq(S), topic # <<>>
  PROVE  IF Tail(topic) = <<>> THEN Head(topic) = topic[Len(topic)]
         ELSE Tail(topic)[Len(Tail(topic))] = topic[Len(topic)]
<1>. DEFINE r == Tail(topic)
            n == Len(topic)
<1>1. r \in Seq(S) /\ n \in Nat \ {0} /\ Len(r) = n - 1 /\ Head(topic) = topic[1]
  OBVIOUS
<1>2. \A i \in 1..(n - 1) : r[i] = topic[i + 1]
  OBVIOUS
<1>. HIDE DEF r, n
<1>3. CASE n = 1
  <2>1. r = <<>>
    BY <1>1, <1>3
  <2>. QED BY <1>1, <1>3, <2>1 DEF r, n
<1>4. CASE n # 1
  <2>1. Len(r) # 0 /\ r[n - 1] = topic[n]
    BY <1>1, <1>2, <1>4
  <2>2. r # <<>>
    BY <2>1
  <2>. QED BY <1>1, <2>1, <2>2 DEF r, n
<1>. QED BY <1>3, <1>4

\* No step of the node or the controller loses the newest goal.
LEMMA NewestStep ==
  ASSUME Depth \in Nat \ {0}
  PROVE  NewestUnderWay /\ drill.others = {} /\ [H!Next]_H!vars => NewestUnderWay'
<1>. SUFFICES ASSUME NewestUnderWay, drill.others = {}, [H!Next]_H!vars PROVE NewestUnderWay'
  OBVIOUS
<1>. USE DEF H!vars, H!rxVars, H!tickVars
<1>. DEFINE G == H!TeleopGoal \cup {""}
<1>1. /\ data \in G /\ topic \in Seq(G)
      /\ tick # "wait" => ~goalBusy
      /\ goalBusy => data = key
      /\ ~goalBusy /\ topic # <<>> => topic[Len(topic)] = key
      /\ ~goalBusy /\ topic = <<>> => goal = key \/ (key = "" /\ goal = "idle")
  BY DEF NewestUnderWay
<1>2. CASE H!Receive \/ H!ReadKey \/ H!SendJoy \/ H!StoreAxis
  <2>1. UNCHANGED <<tick, data, key, goalBusy, topic, goal>>
    BY <1>2, Zenon DEF H!Receive, H!ReadKey, H!SendJoy, H!StoreAxis
  <2>. QED BY <1>1, <2>1 DEF NewestUnderWay
<1>3. CASE H!AskDown \/ H!AskUp \/ H!AskArmed \/ H!AskMid \/ H!AskLow \/ H!AskJump
  <2>1. UNCHANGED <<key, goalBusy, topic, goal>>
    BY <1>3, Zenon DEF H!AskDown, H!AskUp, H!AskArmed, H!AskMid, H!AskLow, H!AskJump, H!Goes,
                       H!SetsData
  <2>2. data' \in {data, "transform_down", "transform_up", "rl_0", "jump"}
    BY <1>3, Zenon DEF H!AskDown, H!AskUp, H!AskArmed, H!AskMid, H!AskLow, H!AskJump, H!SetsData
  <2>3. data' \in G
    BY <1>1, <2>2 DEF H!TeleopGoal
  <2>4. ~goalBusy
    BY <1>1, <1>3 DEF H!AskDown, H!AskUp, H!AskArmed, H!AskMid, H!AskLow, H!AskJump, H!Goes
  <2>. QED BY <1>1, <2>1, <2>3, <2>4 DEF NewestUnderWay
<1>4. CASE H!Compare
  <2>1. tick = "compare" /\ tick' = "wait" /\ key' = data /\ data' = data /\ topic' = topic
        /\ goal' = goal /\ (goalBusy' <=> key # data)
    BY <1>4 DEF H!Compare, H!Changed, H!Goes
  <2>. QED BY <1>1, <2>1 DEF NewestUnderWay
<1>5. CASE H!SendGoal
  <2>1. goalBusy /\ ~goalBusy' /\ topic' = H!Pushed(data) /\ UNCHANGED <<tick, data, key, goal>>
    BY <1>5 DEF H!SendGoal
  <2>2. topic' \in Seq(G) /\ topic' # <<>> /\ topic'[Len(topic')] = data
    BY <1>1, <2>1, PushedHarmless, PushedNewest
  <2>. QED BY <1>1, <2>1, <2>2 DEF NewestUnderWay
<1>6. CASE H!FsmGoalCb
  <2>1. /\ topic # <<>> /\ goal' = Head(topic) /\ topic' = Tail(topic)
        /\ UNCHANGED <<tick, data, key, goalBusy>>
    BY <1>6 DEF H!FsmGoalCb
  <2>2. topic' \in Seq(G)
    BY <1>1, <2>1, TakenHarmless
  <2>3. IF topic' = <<>> THEN goal' = topic[Len(topic)]
        ELSE topic'[Len(topic')] = topic[Len(topic)]
    BY <1>1, <2>1, TakenNewest
  <2>. QED BY <1>1, <2>1, <2>2, <2>3 DEF NewestUnderWay
<1>7. CASE UNCHANGED H!vars
  BY <1>1, <1>7 DEF NewestUnderWay
<1>. QED BY <1>2, <1>3, <1>4, <1>5, <1>6, <1>7
     DEF H!Next, H!Receiver, H!Timer

\* For every depth of the topic and any interleaving of the publisher with
\* the timer and the controller: a message that keep_last drops is never the
\* newest one.  Once nothing is under way the controller has the goal that the
\* node remembers as its last one, which is why it need not repeat it.
THEOREM LastGoalArrives ==
  ASSUME Depth \in Nat \ {0}
  PROVE  H!Spec /\ [](drill.others = {})
           => [](~goalBusy /\ topic = <<>> /\ key # "" => goal = key)
<1>1. H!Init => NewestUnderWay
  <2>. SUFFICES ASSUME H!Init PROVE NewestUnderWay
    OBVIOUS
  <2>1. tick = "wait" /\ data = "" /\ key = "" /\ ~goalBusy /\ topic = <<>> /\ goal = "idle"
    BY Zenon DEF H!Init
  <2>2. <<>> \in Seq(H!TeleopGoal \cup {""})
    OBVIOUS
  <2>. QED BY <2>1, <2>2 DEF NewestUnderWay
<1>2. NewestUnderWay => (~goalBusy /\ topic = <<>> /\ key # "" => goal = key)
  BY DEF NewestUnderWay
<1>. QED BY <1>1, <1>2, NewestStep, PTL DEF H!Spec
-----------------------------------------------------------------------------
(* What a handset at rest makes the node say: HandsetObeyed but for the     *)
(* scheduling.                                                             *)

\* The axes stored are those of position p, and the tick under way has read
\* no others: from its beginning or since it will read the axis that decides.
ReadsPosition(p) ==
  /\ DOMAIN joy = 4..6 /\ joy[4] = p[4] /\ joy[5] = p[5] /\ joy[6] = p[6]
  /\ tick \in {"wait", "up", "gate", "mid", "low", "jump", "compare"}
  /\ tick \in {"up", "mid", "low", "jump"} => p[4] = -1
  /\ tick = "gate" /\ p[4] = 1 => data = "transform_down"
  /\ tick = "gate" /\ p[4] = -1 => data = "transform_up"
  /\ tick \in {"mid", "low"} => data = "transform_up"
  /\ tick = "low" => p[5] # 0
  /\ tick = "jump" => p[5] # 1 /\ data = "rl_0"
  /\ tick = "compare" => data = H!Wanted(p)

\* Storing the axes of the same position again changes none.
LEMMA StoredAgain ==
  ASSUME NEW p, DOMAIN joy = 4..6, joy[4] = p[4], joy[5] = p[5], joy[6] = p[6],
         frame.pos = p, H!StoreAxis
  PROVE  DOMAIN joy' = 4..6 /\ joy'[4] = p[4] /\ joy'[5] = p[5] /\ joy'[6] = p[6]
<1>. DEFINE i == 3 + rx
            v == p[i]
<1>1. rx \in 1..3 /\ joy' = [joy EXCEPT ![i] = v]
  BY Zenon DEF H!StoreAxis
<1>2. i \in {4, 5, 6} /\ joy[i] = v
  BY <1>1
<1>3. 4..6 = {4, 5, 6}
  OBVIOUS
<1>. HIDE DEF i, v
<1>4. \A a \in 4..6 : joy'[a] = joy[a]
  BY <1>1, <1>2
<1>5. DOMAIN joy' = 4..6
  BY <1>1
<1>. QED BY <1>3, <1>4, <1>5

\* The stored axes are those of position p.
HasAxes(p) == DOMAIN joy = 4..6 /\ joy[4] = p[4] /\ joy[5] = p[5] /\ joy[6] = p[6]

\* A tick that reads one position's axes concludes with that position's goal:
\* when the axes stay the same, whatever the frames hold.
LEMMA ReadsOnStill ==
  ASSUME NEW p \in H!Axes, p[4] # 0
  PROVE  ReadsPosition(p) /\ HasAxes(p)' /\ [H!Next]_H!vars
           => ReadsPosition(p)' /\ (H!Compare => key' = H!Wanted(p)) /\ (~H!Compare => key' = key)
<1>. SUFFICES ASSUME ReadsPosition(p), HasAxes(p)', [H!Next]_H!vars
              PROVE  /\ ReadsPosition(p)'
                     /\ H!Compare => key' = H!Wanted(p)
                     /\ ~H!Compare => key' = key
  OBVIOUS
<1>. USE DEF H!vars, H!rxVars, H!tickVars
<1>1. p[4] \in {-1, 1} /\ p[5] \in {-1, 0, 1} /\ p[6] \in {-1, 0, 1}
  BY DEF H!Axes, H!Axis
<1>2. /\ DOMAIN joy = 4..6 /\ joy[4] = p[4] /\ joy[5] = p[5] /\ joy[6] = p[6]
      /\ tick \in {"up", "mid", "low", "jump"} => p[4] = -1
      /\ tick = "gate" /\ p[4] = 1 => data = "transform_down"
      /\ tick = "gate" /\ p[4] = -1 => data = "transform_up"
      /\ tick \in {"mid", "low"} => data = "transform_up"
      /\ tick = "low" => p[5] # 0
      /\ tick = "jump" => p[5] # 1 /\ data = "rl_0"
      /\ tick = "compare" => data = H!Wanted(p)
  BY DEF ReadsPosition
<1>3. /\ p[4] = 1 => H!Wanted(p) = "transform_down"
      /\ p[4] = -1 /\ p[5] = 1 => H!Wanted(p) = "transform_up"
      /\ p[4] = -1 /\ p[5] # 1 /\ p[6] = -1 => H!Wanted(p) = "jump"
      /\ p[4] = -1 /\ p[5] # 1 /\ p[6] # -1 => H!Wanted(p) = "rl_0"
  BY DEF H!Wanted
<1>. DEFINE Kept == ReadsPosition(p)' /\ (H!Compare => key' = H!Wanted(p)) /\ (~H!Compare => key' = key)
<1>4. ASSUME UNCHANGED <<tick, data, key>>, ~H!Compare PROVE Kept
  BY <1>4 DEF ReadsPosition, HasAxes
<1>5. CASE H!Receive \/ H!StoreAxis \/ H!ReadKey \/ H!SendJoy \/ H!SendGoal \/ H!FsmGoalCb
           \/ (\E g \in drill.others : H!OtherPublish(g)) \/ UNCHANGED H!vars
  <2>1. UNCHANGED <<tick, data, key>>
    BY <1>5, Zenon DEF H!Receive, H!StoreAxis, H!ReadKey, H!SendJoy, H!SendGoal, H!FsmGoalCb, H!OtherPublish
  <2>2. ~H!Compare
    BY <2>1 DEF H!Compare, H!Goes
  <2>. QED BY <1>4, <2>1, <2>2
<1>6. CASE H!AskDown
  BY <1>1, <1>2, <1>3, <1>6 DEF H!AskDown, H!Compare, H!Goes, H!SetsData, ReadsPosition
<1>7. CASE H!AskUp
  BY <1>1, <1>2, <1>3, <1>7 DEF H!AskUp, H!Compare, H!Goes, H!SetsData, ReadsPosition
<1>8. CASE H!AskArmed
  BY <1>1, <1>2, <1>3, <1>8 DEF H!AskArmed, H!Armed, H!Compare, H!Goes, H!SetsData, ReadsPosition
<1>9. CASE H!AskMid
  BY <1>1, <1>2, <1>3, <1>9 DEF H!AskMid, H!Compare, H!Goes, H!SetsData, ReadsPosition
<1>10. CASE H!AskLow
  BY <1>1, <1>2, <1>3, <1>10 DEF H!AskLow, H!Compare, H!Goes, H!SetsData, ReadsPosition
<1>11. CASE H!AskJump
  BY <1>1, <1>2, <1>3, <1>11 DEF H!AskJump, H!Compare, H!Goes, H!SetsData, ReadsPosition
<1>12. CASE H!Compare
  BY <1>1, <1>2, <1>3, <1>12 DEF H!Compare, H!Goes, ReadsPosition
<1>. QED BY <1>5, <1>6, <1>7, <1>8, <1>9, <1>10, <1>11, <1>12
     DEF H!Next, H!Receiver, H!Timer

\* A handset at rest keeps the axes that are stored, and so what a tick says.
LEMMA ReadsOn ==
  ASSUME NEW p \in H!Axes, p[4] # 0
  PROVE  ReadsPosition(p) /\ frame.pos = p /\ [H!Next]_H!vars
           => ReadsPosition(p)' /\ (H!Compare => key' = H!Wanted(p)) /\ (~H!Compare => key' = key)
<1>. SUFFICES ASSUME ReadsPosition(p), frame.pos = p, [H!Next]_H!vars
              PROVE  HasAxes(p)'
  BY ReadsOnStill
<1>. USE DEF H!vars, H!rxVars, H!tickVars
<1>1. HasAxes(p)
  BY DEF ReadsPosition, HasAxes
<1>2. CASE H!StoreAxis
  BY <1>1, <1>2, StoredAgain DEF HasAxes
<1>3. CASE ~H!StoreAxis
  <2>1. joy' = joy
    BY <1>3, Zenon DEF H!Next, H!Receiver, H!Timer, H!Receive, H!ReadKey, H!SendJoy, H!SendGoal,
      H!FsmGoalCb, H!OtherPublish, H!AskDown, H!AskUp, H!AskArmed, H!AskMid, H!AskLow, H!AskJump,
      H!Compare, H!Goes
  <2>. QED BY <1>1, <2>1 DEF HasAxes
<1>. QED BY <1>2, <1>3

\* Nothing is under way from the node to the controller.
Arrived == ~goalBusy /\ topic = <<>>

\* A node that has said what its handset wants, and been heard, is silent: its
\* ticks find nothing changed.
LEMMA SilentWhenHeard ==
  ASSUME NEW p \in H!Axes, p[4] # 0
  PROVE  ReadsPosition(p) /\ key = H!Wanted(p) /\ Arrived /\ drill.others = {} /\ [H!Next]_H!vars
           => Arrived' /\ goal' = goal
<1>. SUFFICES ASSUME ReadsPosition(p), key = H!Wanted(p), Arrived, drill.others = {},
                     [H!Next]_H!vars
              PROVE  Arrived' /\ goal' = goal
  OBVIOUS
<1>. USE DEF H!vars, H!rxVars, H!tickVars, Arrived
<1>1. tick = "compare" => data = key
  BY DEF ReadsPosition
<1>2. ~goalBusy /\ topic = <<>>
  OBVIOUS
<1>3. CASE H!Receive \/ H!ReadKey \/ H!SendJoy \/ H!StoreAxis
  <2>1. UNCHANGED <<goalBusy, topic, goal>>
    BY <1>3, Zenon DEF H!Receive, H!ReadKey, H!SendJoy, H!StoreAxis
  <2>. QED BY <1>2, <2>1
<1>4. CASE H!AskDown \/ H!AskUp \/ H!AskArmed \/ H!AskMid \/ H!AskLow \/ H!AskJump
  <2>1. UNCHANGED <<goalBusy, topic, goal>>
    BY <1>4, Zenon DEF H!AskDown, H!AskUp, H!AskArmed, H!AskMid, H!AskLow, H!AskJump, H!Goes,
                       H!SetsData
  <2>. QED BY <1>2, <2>1
<1>5. CASE H!Compare
  BY <1>1, <1>2, <1>5, Zenon DEF H!Compare, H!Changed, H!Goes
<1>6. CASE H!SendGoal \/ H!FsmGoalCb
  BY <1>2, <1>6, Zenon DEF H!SendGoal, H!FsmGoalCb
<1>7. CASE UNCHANGED H!vars
  BY <1>2, <1>7, Zenon
<1>. QED BY <1>3, <1>4, <1>5, <1>6, <1>7 DEF H!Next, H!Receiver, H!Timer

\* The safety half of HandsetObeyed and FallsSilent.  Let the axes of a
\* position be stored when no tick is under way, and the handset rest there
\* from now on.  Then whatever the node has said before, every tick concludes
\* with the position's goal, it is never taken back, and once nothing is under
\* way the controller has it for good and nothing more is sent.  Only that a tick
\* comes and messages travel is left to the scheduling.
THEOREM RestingHandsetConverges ==
  ASSUME Depth \in Nat \ {0}, NEW p \in H!Axes, p[4] # 0
  PROVE  H!Spec /\ [](drill.others = {})
           => [](joy = p /\ tick = "wait" /\ [](frame.pos = p)
                  => /\ [][H!Compare => key' = H!Wanted(p)]_H!vars
                     /\ [](key = H!Wanted(p) => [](key = H!Wanted(p)))
                     /\ [](key = H!Wanted(p) /\ Arrived => [](Arrived /\ goal = H!Wanted(p))))
<1>. DEFINE said == key = H!Wanted(p)
            rests == frame.pos = p
            heard == goal = H!Wanted(p)
<1>1. joy = p /\ tick = "wait" => ReadsPosition(p)
  BY DEF ReadsPosition, H!Axes, H!Axis
<1>2. ReadsPosition(p) /\ rests /\ [H!Next]_H!vars
        => ReadsPosition(p)' /\ (said => said') /\ (H!Compare => key' = H!Wanted(p))
  BY ReadsOn
<1>3. H!Wanted(p) # ""
  BY DEF H!Wanted
<1>4. (~goalBusy /\ topic = <<>> /\ key # "" => goal = key) /\ said /\ Arrived => heard
  BY <1>3 DEF Arrived
<1>5. ReadsPosition(p) /\ said /\ Arrived /\ drill.others = {} /\ [H!Next]_H!vars => Arrived'
  BY SilentWhenHeard
<1>6. said <=> key = H!Wanted(p)
  OBVIOUS
<1>7. rests <=> frame.pos = p
  OBVIOUS
<1>8. heard <=> goal = H!Wanted(p)
  OBVIOUS
<1>. HIDE DEF said, rests, heard
<1>. QED BY <1>1, <1>2, <1>4, <1>5, <1>6, <1>7, <1>8, LastGoalArrives, PTL DEF H!Spec
-----------------------------------------------------------------------------
(* Liveness of the node, from the fairness of its threads.  ENABLED is       *)
(* opaque to the prover: it is stated by the guards of the fair actions.     *)

\* The guards say when the fair actions are enabled.
HandsetGuards ==
  /\ rx = 0 => ENABLED <<H!Receive>>_H!vars
  /\ rx \in 1..4 => ENABLED <<H!Receiver>>_H!vars
  /\ joyBusy => ENABLED <<H!SendJoy>>_H!vars
  /\ tick # "wait" \/ ~goalBusy => ENABLED <<H!Timer>>_H!vars
  /\ goalBusy => ENABLED <<H!SendGoal>>_H!vars
  /\ topic # <<>> => ENABLED <<H!FsmGoalCb>>_H!vars

\* The axes are positions of switches; between ticks the message holds what
\* was published last, and a tick only begins once that has been sent.
Between ==
  /\ rx \in 0..4
  /\ joy \in H!Axes /\ frame.pos \in H!Axes
  /\ drill \in Drill
  /\ tick \in {"wait", "up", "gate", "mid", "low", "jump", "compare"}
  /\ tick = "wait" => data = key
  /\ tick # "wait" => ~goalBusy

PositionsTyped == \A d \in Drill : d.positions \subseteq H!Axes

\* Storing an axis of a position leaves a position.
LEMMA StoredTyped ==
  ASSUME joy \in H!Axes, frame.pos \in H!Axes, H!StoreAxis
  PROVE  joy' \in H!Axes
<1>. DEFINE i == 3 + rx
            v == frame.pos[i]
<1>1. i \in 4..6 /\ joy' = [joy EXCEPT ![i] = v]
  BY DEF H!StoreAxis
<1>2. v \in {-1, 0, 1}
  BY <1>1 DEF H!Axes, H!Axis
<1>. HIDE DEF i, v
<1>. QED BY <1>1, <1>2 DEF H!Axes, H!Axis

\* Both threads begin between two rounds.
LEMMA BetweenInit == PositionsTyped /\ H!Init => Between
<1>. SUFFICES ASSUME H!Init PROVE Between
  OBVIOUS
<1>1. joy = [a \in 4..6 |-> 0] /\ frame = [pos |-> [a \in 4..6 |-> 0], key |-> "zero"]
  BY DEF H!Init, H!Axis
<1>2. joy \in H!Axes /\ frame.pos \in H!Axes
  BY <1>1 DEF H!Axes, H!Axis
<1>3. drill \in Drill /\ tick = "wait" /\ data = key
  BY Zenon DEF H!Init
<1>4. rx = 0
  BY Zenon DEF H!Init
<1>. QED BY <1>2, <1>3, <1>4 DEF Between

\* Every step of either thread keeps it.
LEMMA BetweenStep == PositionsTyped /\ Between /\ [H!Next]_H!vars => Between'
<1>. SUFFICES ASSUME PositionsTyped, Between, [H!Next]_H!vars PROVE Between'
  OBVIOUS
<1>. USE DEF H!vars, H!rxVars, H!tickVars
<1>1. CASE H!Receive
  <2>1. PICK p \in drill.positions, k \in drill.keys : frame' = [pos |-> p, key |-> k]
    BY <1>1 DEF H!Receive
  <2>2. frame'.pos \in H!Axes
    BY <2>1 DEF PositionsTyped, Between
  <2>3. rx' \in {1, 4} /\ UNCHANGED <<drill, joy, tick, data, key, goalBusy>>
    BY <1>1 DEF H!Receive
  <2>. QED BY <2>2, <2>3 DEF Between
<1>2. CASE H!StoreAxis
  <2>1. joy' \in H!Axes
    BY <1>2, StoredTyped DEF Between
  <2>2. rx \in 1..3 /\ rx' = rx + 1 /\ UNCHANGED <<drill, frame, tick, data, key, goalBusy>>
    BY <1>2 DEF H!StoreAxis
  <2>. QED BY <2>1, <2>2 DEF Between
<1>3. CASE H!ReadKey
  <2>1. rx' = 0 /\ UNCHANGED <<drill, frame, joy, tick, data, key, goalBusy>>
    BY <1>3 DEF H!ReadKey
  <2>. QED BY <2>1 DEF Between
<1>4. CASE H!SendJoy \/ H!FsmGoalCb \/ (\E g \in drill.others : H!OtherPublish(g)) \/ UNCHANGED H!vars
  <2>1. UNCHANGED <<drill, frame, rx, joy, tick, data, key, goalBusy>>
    BY <1>4, Zenon DEF H!SendJoy, H!FsmGoalCb, H!OtherPublish
  <2>. QED BY <2>1 DEF Between
<1>5. CASE H!AskDown \/ H!AskUp \/ H!AskArmed \/ H!AskMid \/ H!AskLow \/ H!AskJump
  <2>1. UNCHANGED <<drill, frame, rx, joy, key, goalBusy>>
    BY <1>5, Zenon DEF H!AskDown, H!AskUp, H!AskArmed, H!AskMid, H!AskLow, H!AskJump, H!Goes,
                       H!SetsData
  <2>2. tick' \in {"up", "gate", "mid", "low", "jump", "compare"} /\ ~goalBusy
    BY <1>5 DEF H!AskDown, H!AskUp, H!AskArmed, H!AskMid, H!AskLow, H!AskJump, H!Goes, Between
  <2>. QED BY <2>1, <2>2 DEF Between
<1>6. CASE H!Compare
  <2>1. tick' = "wait" /\ key' = data /\ data' = data /\ UNCHANGED <<drill, frame, rx, joy>>
    BY <1>6 DEF H!Compare, H!Goes
  <2>. QED BY <2>1 DEF Between
<1>7. CASE H!SendGoal
  <2>1. goalBusy' = FALSE /\ UNCHANGED <<drill, frame, rx, joy, tick, data, key>>
    BY <1>7 DEF H!SendGoal
  <2>. QED BY <2>1 DEF Between
<1>. QED BY <1>1, <1>2, <1>3, <1>4, <1>5, <1>6, <1>7 DEF H!Next, H!Receiver, H!Timer

\* For every drill whose positions are positions of the switches.
LEMMA BetweenAlways ==
  ASSUME PositionsTyped
  PROVE  H!Spec => []Between
<1>1. (H!Init => Between) /\ (Between /\ [H!Next]_H!vars => Between')
  BY BetweenInit, BetweenStep
<1>. QED BY <1>1, PTL DEF H!Spec
-----------------------------------------------------------------------------
\* The node's threads from some moment on, without its beginning.
ThreadsRun ==
  /\ [][H!Next]_H!vars
  /\ WF_H!vars(H!Receive) /\ WF_H!vars(H!Receiver) /\ WF_H!vars(H!SendJoy)
  /\ WF_H!vars(H!Timer) /\ WF_H!vars(H!SendGoal) /\ WF_H!vars(H!FsmGoalCb)
  /\ []Between /\ []HandsetGuards

\* The places of a tick; it waits for the message to be sent, or begins.
Unsent    == tick = "wait" /\ goalBusy
Ready     == tick = "wait" /\ ~goalBusy
AtUp      == tick = "up"
AtGate    == tick = "gate"
AtMid     == tick = "mid"
AtLow     == tick = "low"
AtJump    == tick = "jump"
AtCompare == tick = "compare"

\* The timer is always at one of these places.
LEMMA TickPlaces ==
  Between => Unsent \/ Ready \/ AtUp \/ AtGate \/ AtMid \/ AtLow \/ AtJump \/ AtCompare
BY DEF Between, Unsent, Ready, AtUp, AtGate, AtMid, AtLow, AtJump, AtCompare

\* A step of anybody leaves the tick where it is or takes it on.
LEMMA TickMoves ==
  ASSUME [H!Next]_H!vars
  PROVE  /\ Unsent => Unsent' \/ Ready'
         /\ Ready => Ready' \/ AtUp' \/ AtGate'
         /\ AtUp => AtUp' \/ AtGate'
         /\ AtGate => AtGate' \/ AtMid' \/ AtCompare'
         /\ AtMid => AtMid' \/ AtLow' \/ AtJump'
         /\ AtLow => AtLow' \/ AtJump' \/ AtCompare'
         /\ AtJump => AtJump' \/ AtCompare'
         /\ AtCompare => AtCompare' \/ Unsent' \/ Ready'
<1>. USE DEF H!vars, H!rxVars, H!tickVars
<1>. USE DEF Unsent, Ready, AtUp, AtGate, AtMid, AtLow, AtJump, AtCompare
<1>1. CASE H!Receive \/ H!ReadKey \/ H!SendJoy \/ H!StoreAxis \/ H!FsmGoalCb
           \/ (\E g \in drill.others : H!OtherPublish(g)) \/ UNCHANGED H!vars
  <2>1. UNCHANGED <<tick, goalBusy>>
    BY <1>1, Zenon DEF H!Receive, H!ReadKey, H!SendJoy, H!StoreAxis, H!FsmGoalCb, H!OtherPublish
  <2>. QED BY <2>1
<1>2. CASE H!AskDown \/ H!AskUp \/ H!AskArmed \/ H!AskMid \/ H!AskLow \/ H!AskJump
  BY <1>2 DEF H!AskDown, H!AskUp, H!AskArmed, H!AskMid, H!AskLow, H!AskJump, H!Goes, H!SetsData
<1>3. CASE H!Compare
  BY <1>3 DEF H!Compare, H!Goes
<1>4. CASE H!SendGoal
  BY <1>4 DEF H!SendGoal
<1>. QED BY <1>1, <1>2, <1>3, <1>4 DEF H!Next, H!Receiver, H!Timer

\* A step of the timer takes a tick on.
LEMMA TimerMoves ==
  ASSUME <<H!Timer>>_H!vars
  PROVE  /\ Ready => AtUp' \/ AtGate'
         /\ AtUp => AtGate'
         /\ AtGate => AtMid' \/ AtCompare'
         /\ AtMid => AtLow' \/ AtJump'
         /\ AtLow => AtJump' \/ AtCompare'
         /\ AtJump => AtCompare'
         /\ AtCompare => Unsent' \/ Ready'
<1>. USE DEF Unsent, Ready, AtUp, AtGate, AtMid, AtLow, AtJump, AtCompare
<1>1. CASE H!AskDown \/ H!AskUp \/ H!AskArmed \/ H!AskMid \/ H!AskLow \/ H!AskJump
  BY <1>1 DEF H!AskDown, H!AskUp, H!AskArmed, H!AskMid, H!AskLow, H!AskJump, H!Goes, H!SetsData
<1>2. CASE H!Compare
  BY <1>2 DEF H!Compare, H!Goes
<1>. QED BY <1>1, <1>2 DEF H!Timer

\* Sending the goal is what the timer has waited for.
LEMMA GoalSent == Unsent /\ <<H!SendGoal>>_H!vars => Ready'
BY DEF Unsent, Ready, H!SendGoal

\* Every tick concludes, and another one comes: the timer compares for ever.
LEMMA TicksConclude == ThreadsRun => []<>AtCompare
<1>1. /\ HandsetGuards /\ Unsent => ENABLED <<H!SendGoal>>_H!vars
      /\ HandsetGuards /\ (Ready \/ AtUp \/ AtGate \/ AtMid \/ AtLow \/ AtJump)
           => ENABLED <<H!Timer>>_H!vars
  BY DEF HandsetGuards, Unsent, Ready, AtUp, AtGate, AtMid, AtLow, AtJump
<1>2. ThreadsRun => (Unsent ~> Ready)
  BY <1>1, TickMoves, GoalSent, PTL DEF ThreadsRun
<1>3. ThreadsRun => (Ready ~> AtUp \/ AtGate)
  BY <1>1, TickMoves, TimerMoves, PTL DEF ThreadsRun
<1>4. ThreadsRun => (AtUp ~> AtGate)
  BY <1>1, TickMoves, TimerMoves, PTL DEF ThreadsRun
<1>5. ThreadsRun => (AtGate ~> AtMid \/ AtCompare)
  BY <1>1, TickMoves, TimerMoves, PTL DEF ThreadsRun
<1>6. ThreadsRun => (AtMid ~> AtLow \/ AtJump)
  BY <1>1, TickMoves, TimerMoves, PTL DEF ThreadsRun
<1>7. ThreadsRun => (AtLow ~> AtJump \/ AtCompare)
  BY <1>1, TickMoves, TimerMoves, PTL DEF ThreadsRun
<1>8. ThreadsRun => (AtJump ~> AtCompare)
  BY <1>1, TickMoves, TimerMoves, PTL DEF ThreadsRun
<1>9. ThreadsRun => []Between
  BY PTL DEF ThreadsRun
<1>. QED BY <1>2, <1>3, <1>4, <1>5, <1>6, <1>7, <1>8, <1>9, TickPlaces, PTL
-----------------------------------------------------------------------------
(* While the stored axes stay the same, every tick concludes the same.       *)

\* The switch asks for something.
Asks == joy[4] # 0
\* What a tick has read so far are the axes that are stored.
ReadsStored ==
  IF Asks THEN ReadsPosition(joy)
  ELSE tick \in {"wait", "up", "gate", "compare"} /\ data = key
\* What the axes ask for has been published last.
Said == Asks => key = H!Wanted(joy)

\* A tick that begins has read nothing yet.
LEMMA TickBegins == Between /\ (Unsent \/ Ready) => ReadsStored
BY DEF Between, Unsent, Ready, ReadsStored, ReadsPosition, H!Axes, H!Axis

\* The middle of the left switch publishes nothing.
LEMMA MiddleSaysNothing ==
  ASSUME Between, ~Asks, ReadsStored, joy' = joy, [H!Next]_H!vars
  PROVE  ReadsStored' /\ (~goalBusy => ~goalBusy')
<1>. USE DEF H!vars, H!rxVars, H!tickVars
<1>1. joy[4] = 0 /\ joy'[4] = 0 /\ ~Asks'
  BY DEF Asks
<1>2. tick \in {"wait", "up", "gate", "compare"} /\ data = key
  BY DEF ReadsStored
<1>3. CASE H!Receive \/ H!ReadKey \/ H!SendJoy \/ H!StoreAxis \/ H!FsmGoalCb
           \/ (\E g \in drill.others : H!OtherPublish(g)) \/ UNCHANGED H!vars
  <2>1. UNCHANGED <<tick, data, key, goalBusy>>
    BY <1>3, Zenon DEF H!Receive, H!ReadKey, H!SendJoy, H!StoreAxis, H!FsmGoalCb, H!OtherPublish
  <2>. QED BY <1>1, <1>2, <2>1 DEF ReadsStored
<1>4. CASE H!AskDown \/ H!AskUp \/ H!AskArmed \/ H!AskMid \/ H!AskLow \/ H!AskJump
  <2>1. tick' \in {"up", "gate", "compare"} /\ data' = data /\ key' = key /\ goalBusy' = goalBusy
    BY <1>1, <1>2, <1>4 DEF H!AskDown, H!AskUp, H!AskArmed, H!Armed, H!AskMid, H!AskLow,
                            H!AskJump, H!Goes, H!SetsData
  <2>. QED BY <1>1, <1>2, <2>1 DEF ReadsStored
<1>5. CASE H!Compare
  <2>1. tick' = "wait" /\ data' = data /\ key' = data /\ (goalBusy' <=> key # data)
    BY <1>5 DEF H!Compare, H!Changed, H!Goes
  <2>. QED BY <1>1, <1>2, <2>1 DEF ReadsStored
<1>6. CASE H!SendGoal
  <2>1. ~goalBusy' /\ UNCHANGED <<tick, data, key>>
    BY <1>6 DEF H!SendGoal
  <2>. QED BY <1>1, <1>2, <2>1 DEF ReadsStored
<1>. QED BY <1>3, <1>4, <1>5, <1>6 DEF H!Next, H!Receiver, H!Timer

\* Only the comparison ends a tick or makes the publisher busy.
LEMMA OnlyCompare ==
  ASSUME [H!Next]_H!vars, ~H!Compare
  PROVE  (AtCompare => AtCompare') /\ (~goalBusy => ~goalBusy')
<1>. USE DEF H!vars, H!rxVars, H!tickVars
<1>1. CASE H!Receive \/ H!ReadKey \/ H!SendJoy \/ H!StoreAxis \/ H!FsmGoalCb
           \/ (\E g \in drill.others : H!OtherPublish(g)) \/ UNCHANGED H!vars
  <2>1. UNCHANGED <<tick, goalBusy>>
    BY <1>1, Zenon DEF H!Receive, H!ReadKey, H!SendJoy, H!StoreAxis, H!FsmGoalCb, H!OtherPublish
  <2>. QED BY <2>1 DEF AtCompare
<1>2. CASE H!AskDown \/ H!AskUp \/ H!AskArmed \/ H!AskMid \/ H!AskLow \/ H!AskJump
  BY <1>2 DEF H!AskDown, H!AskUp, H!AskArmed, H!AskMid, H!AskLow, H!AskJump, H!Goes, H!SetsData,
              AtCompare
<1>3. CASE H!SendGoal
  BY <1>3 DEF H!SendGoal, AtCompare
<1>. QED BY <1>1, <1>2, <1>3 DEF H!Next, H!Receiver, H!Timer

\* Any other position is read on, concluded with, not taken back and not
\* published twice.
LEMMA StoredSaid ==
  ASSUME Between, ReadsStored, joy' = joy, [H!Next]_H!vars
  PROVE  /\ ReadsStored'
         /\ Said => Said'
         /\ AtCompare => AtCompare' \/ Said'
         /\ Said /\ ~goalBusy => ~goalBusy'
<1>1. CASE ~Asks
  BY <1>1, MiddleSaysNothing DEF Asks, Said
<1>2. CASE Asks
  <2>1. ASSUME NEW p \in H!Axes, joy = p
        PROVE  /\ ReadsStored' /\ Asks'
               /\ H!Compare => key' = H!Wanted(p)
               /\ ~H!Compare => key' = key
               /\ AtCompare => data = H!Wanted(p)
    <3>1. p[4] # 0 /\ ReadsPosition(p) /\ joy' = p
      BY <1>2, <2>1 DEF Asks, ReadsStored
    <3>2. HasAxes(p)'
      BY <3>1 DEF HasAxes, H!Axes, H!Axis
    <3>3. /\ ReadsPosition(p)'
          /\ H!Compare => key' = H!Wanted(p)
          /\ ~H!Compare => key' = key
      BY <3>1, <3>2, ReadsOnStill
    <3>4. Asks' /\ ReadsStored'
      BY <3>1, <3>3 DEF Asks, ReadsStored, ReadsPosition
    <3>5. AtCompare => data = H!Wanted(p)
      BY <3>1 DEF AtCompare, ReadsPosition
    <3>. QED BY <3>3, <3>4, <3>5
  <2>2. PICK p \in H!Axes : joy = p
    BY DEF Between
  <2>3. /\ ReadsStored' /\ Asks'
        /\ H!Compare => key' = H!Wanted(p)
        /\ ~H!Compare => key' = key
        /\ AtCompare => data = H!Wanted(p)
    BY <2>1, <2>2
  <2>4. (Said <=> key = H!Wanted(p)) /\ (Said' <=> key' = H!Wanted(p))
    BY <1>2, <2>2, <2>3 DEF Said
  <2>5. AtCompare => AtCompare' \/ H!Compare
    BY OnlyCompare
  <2>6. Said /\ ~goalBusy => ~goalBusy'
    <3>. SUFFICES ASSUME key = H!Wanted(p), ~goalBusy PROVE ~goalBusy'
      BY <2>4
    <3>1. CASE H!Compare
      BY <2>3, <3>1 DEF H!Compare, H!Changed, H!Goes, AtCompare
    <3>2. CASE ~H!Compare
      BY <3>2, OnlyCompare
    <3>. QED BY <3>1, <3>2
  <2>. QED BY <2>3, <2>4, <2>5, <2>6
<1>. QED BY <1>1, <1>2

\* The publisher's thread gets to every goal.
LEMMA GoalsAreSent == ThreadsRun => (goalBusy ~> ~goalBusy)
<1>1. HandsetGuards /\ goalBusy => ENABLED <<H!SendGoal>>_H!vars
  BY DEF HandsetGuards
<1>2. <<H!SendGoal>>_H!vars => ~goalBusy'
  BY DEF H!SendGoal
<1>. QED BY <1>1, <1>2, PTL DEF ThreadsRun

\* When the stored axes no longer change, the node has said in the end what
\* they ask for, and is silent.
LEMMA StillSettles ==
  ThreadsRun /\ [][joy' = joy]_H!vars => <>[](ReadsStored /\ Said /\ ~goalBusy)
<1>1. /\ HandsetGuards /\ AtCompare => ENABLED <<H!Timer>>_H!vars
      /\ Between /\ (Unsent \/ Ready) => ReadsStored
  BY TickBegins DEF HandsetGuards, AtCompare
<1>2. ThreadsRun => (AtCompare ~> Unsent \/ Ready)
  BY <1>1, TickMoves, TimerMoves, PTL DEF ThreadsRun
<1>3. Between /\ ReadsStored /\ [H!Next]_H!vars /\ [joy' = joy]_H!vars
        => /\ ReadsStored'
           /\ Said => Said'
           /\ AtCompare => AtCompare' \/ Said'
           /\ Said /\ ~goalBusy => ~goalBusy'
  <2>1. [joy' = joy]_H!vars => joy' = joy
    BY DEF H!vars, H!rxVars
  <2>. QED BY <2>1, StoredSaid
<1>4. Unsent \/ Ready => ~AtCompare
  BY DEF Unsent, Ready, AtCompare
<1>5. ThreadsRun => []Between
  BY PTL DEF ThreadsRun
<1>6. ThreadsRun /\ [][joy' = joy]_H!vars => <>[]ReadsStored
  BY <1>1, <1>2, <1>3, <1>5, TicksConclude, PTL DEF ThreadsRun
<1>7. ThreadsRun /\ [][joy' = joy]_H!vars /\ []ReadsStored => <>[]Said
  BY <1>2, <1>3, <1>4, <1>5, TicksConclude, PTL DEF ThreadsRun
<1>8. ThreadsRun /\ [][joy' = joy]_H!vars /\ []ReadsStored /\ []Said => <>[]~goalBusy
  BY <1>3, <1>5, GoalsAreSent, PTL DEF ThreadsRun
<1>9. ThreadsRun => []ThreadsRun
  BY PTL DEF ThreadsRun
<1>. QED BY <1>6, <1>7, <1>8, <1>9, PTL
-----------------------------------------------------------------------------
(* When the stored axes stop changing. *)

\* While frames hold the same position, each axis changes at most once.
LEMMA RestStores ==
  ASSUME NEW p, Between, Between', frame.pos = p, [H!Next]_H!vars
  PROVE  /\ joy[4] = p[4] => joy'[4] = p[4]
         /\ joy[5] = p[5] => joy'[5] = p[5]
         /\ joy[6] = p[6] => joy'[6] = p[6]
         /\ joy' = joy \/ \E a \in 4..6 : joy[a] # p[a] /\ joy'[a] = p[a]
<1>. USE DEF H!vars, H!rxVars, H!tickVars
<1>1. joy \in [4..6 -> {-1, 0, 1}] /\ joy' \in [4..6 -> {-1, 0, 1}]
  BY DEF Between, H!Axes, H!Axis
<1>2. CASE ~H!StoreAxis
  <2>1. joy' = joy
    BY <1>2, Zenon DEF H!Next, H!Receiver, H!Timer, H!Receive, H!ReadKey, H!SendJoy, H!SendGoal,
      H!FsmGoalCb, H!OtherPublish, H!AskDown, H!AskUp, H!AskArmed, H!AskMid, H!AskLow, H!AskJump,
      H!Compare, H!Goes
  <2>. QED BY <2>1
<1>3. CASE H!StoreAxis
  <2>. DEFINE i == 3 + rx
              v == p[i]
  <2>1. i \in 4..6 /\ joy' = [joy EXCEPT ![i] = v]
    BY <1>3 DEF H!StoreAxis
  <2>2. v = p[i]
    OBVIOUS
  <2>. HIDE DEF i, v
  <2>3. joy'[i] = p[i] /\ \A a \in 4..6 : a # i => joy'[a] = joy[a]
    BY <1>1, <2>1, <2>2
  <2>4. joy[i] = p[i] => joy' = joy
    BY <1>1, <2>3
  <2>5. 4..6 = {4, 5, 6}
    OBVIOUS
  <2>. QED BY <2>1, <2>3, <2>4, <2>5
<1>. QED BY <1>2, <1>3

\* Frames that hold the same position for ever bring the axes to rest.
LEMMA RestIsStill ==
  ASSUME NEW p
  PROVE  [][H!Next]_H!vars /\ []Between /\ [](frame.pos = p) => <>[][joy' = joy]_H!vars
<1>. DEFINE J4 == joy[4] = p[4]
            J5 == joy[5] = p[5]
            J6 == joy[6] = p[6]
            rests == frame.pos = p
<1>1. Between /\ Between' /\ rests /\ [H!Next]_H!vars
        => /\ (J4 => J4') /\ (J5 => J5') /\ (J6 => J6')
           /\ \/ [joy' = joy]_H!vars
              \/ ~J4 /\ J4'
              \/ ~J5 /\ J5'
              \/ ~J6 /\ J6'
  <2>1. 4..6 = {4, 5, 6}
    OBVIOUS
  <2>. QED BY <2>1, RestStores
<1>2. rests <=> frame.pos = p
  OBVIOUS
<1>. HIDE DEF J4, J5, J6, rests
<1>. QED BY <1>1, <1>2, PTL

\* In SDK mode the receiver stores the rest of one frame at most.
LEMMA SdkStores ==
  ASSUME Between, useSdk, [H!Next]_H!vars
  PROVE  /\ rx \in {0, 4} => rx' \in {0, 4} /\ joy' = joy
         /\ rx = 3 => rx' \in {3, 4}
         /\ rx = 2 => rx' \in {2, 3}
         /\ rx = 1 => rx' \in {1, 2}
<1>. USE DEF H!vars, H!rxVars, H!tickVars
<1>1. CASE H!Receive
  BY <1>1 DEF H!Receive
<1>2. CASE H!StoreAxis
  BY <1>2 DEF H!StoreAxis
<1>3. CASE H!ReadKey
  BY <1>3 DEF H!ReadKey
<1>4. CASE ~(H!Receive \/ H!StoreAxis \/ H!ReadKey)
  <2>1. UNCHANGED <<rx, joy>>
    BY <1>4, Zenon DEF H!Next, H!Receiver, H!Timer, H!SendJoy, H!SendGoal,
      H!FsmGoalCb, H!OtherPublish, H!AskDown, H!AskUp, H!AskArmed, H!AskMid, H!AskLow, H!AskJump,
      H!Compare, H!Goes
  <2>. QED BY <2>1
<1>. QED BY <1>1, <1>2, <1>3, <1>4

\* A step of the receiver takes it to the next axis, the key, or back to wait.
LEMMA ReceiverMoves ==
  ASSUME <<H!Receiver>>_H!vars
  PROVE  /\ rx = 1 => rx' = 2
         /\ rx = 2 => rx' = 3
         /\ rx = 3 => rx' = 4
         /\ rx = 4 => rx' = 0
BY DEF H!Receiver, H!StoreAxis, H!ReadKey

\* The places of the receiver.
Listening == rx = 0
Store4    == rx = 1
Store5    == rx = 2
Store6    == rx = 3
Keys      == rx = 4

\* The SDK mode brings the axes to rest.
LEMMA SdkIsStill == ThreadsRun /\ []useSdk => <>[][joy' = joy]_H!vars
<1>1. Between => Listening \/ Store4 \/ Store5 \/ Store6 \/ Keys
  BY DEF Between, Listening, Store4, Store5, Store6, Keys
<1>2. HandsetGuards /\ (Store4 \/ Store5 \/ Store6) => ENABLED <<H!Receiver>>_H!vars
  BY DEF HandsetGuards, Store4, Store5, Store6
<1>3. Between /\ useSdk /\ [H!Next]_H!vars
        => /\ Listening \/ Keys => (Listening' \/ Keys') /\ [joy' = joy]_H!vars
           /\ Store6 => Store6' \/ Keys'
           /\ Store5 => Store5' \/ Store6'
           /\ Store4 => Store4' \/ Store5'
  BY SdkStores DEF Listening, Store4, Store5, Store6, Keys
<1>4. Store4 /\ <<H!Receiver>>_H!vars => Store5'
  BY ReceiverMoves DEF Store4, Store5
<1>5. Store5 /\ <<H!Receiver>>_H!vars => Store6'
  BY ReceiverMoves DEF Store6, Store5
<1>6. Store6 /\ <<H!Receiver>>_H!vars => Keys'
  BY ReceiverMoves DEF Store6, Keys
<1>7. ThreadsRun /\ []useSdk => (Store6 ~> Keys)
  BY <1>2, <1>3, <1>6, PTL DEF ThreadsRun
<1>8. ThreadsRun /\ []useSdk => (Store5 ~> Store6)
  BY <1>2, <1>3, <1>5, PTL DEF ThreadsRun
<1>9. ThreadsRun /\ []useSdk => (Store4 ~> Store5)
  BY <1>2, <1>3, <1>4, PTL DEF ThreadsRun
<1>. QED BY <1>1, <1>3, <1>7, <1>8, <1>9, PTL DEF ThreadsRun

\* A handset at rest, whatever the drill, and a node in SDK mode: after a while
\* nothing is published any more, however the two threads interleave, so that
\* the SDK's goals are not overridden.
THEOREM HandsetFallsSilent ==
  ASSUME PositionsTyped
  PROVE  H!FairSpec /\ []HandsetGuards => H!FallsSilent
<1>1. H!FairSpec /\ []HandsetGuards => ThreadsRun
  BY BetweenAlways, PTL DEF H!FairSpec, H!Spec, ThreadsRun
<1>2. ThreadsRun => []ThreadsRun
  BY PTL DEF ThreadsRun
<1>3. ThreadsRun /\ <>[]useSdk => <>[]~goalBusy
  BY <1>2, SdkIsStill, StillSettles, PTL
<1>4. ASSUME NEW p \in H!Position
      PROVE  ThreadsRun /\ <>[](frame.pos = p) => <>[]~goalBusy
  <2>. DEFINE rests == frame.pos = p
  <2>1. [][H!Next]_H!vars /\ []Between /\ []rests => <>[][joy' = joy]_H!vars
    BY RestIsStill
  <2>2. ThreadsRun => [][H!Next]_H!vars /\ []Between
    BY PTL DEF ThreadsRun
  <2>3. rests <=> frame.pos = p
    OBVIOUS
  <2>. HIDE DEF rests
  <2>. QED BY <1>2, <2>1, <2>2, <2>3, StillSettles, PTL
<1>5. ThreadsRun => H!FallsSilent
  BY <1>3, <1>4 DEF H!FallsSilent
<1>. QED BY <1>1, <1>5
-----------------------------------------------------------------------------
(* A handset at rest is obeyed. *)

\* The receiver is between two frames, its last joy message not sent, or sent.
Held == rx \in {0, 4} /\ joyBusy
Free == rx = 0 /\ ~joyBusy
Last == rx = 4 /\ ~joyBusy
\* It has stored the first axes of position p in one go.
One(p)   == rx = 2 /\ joy[4] = p[4]
Two(p)   == rx = 3 /\ joy[4] = p[4] /\ joy[5] = p[5]

\* How a frame of position p gets into the axes: a receiver in the middle of
\* one ends it, waits for the joy message and stores the next one.
LEMMA PositionMoves ==
  ASSUME NEW p, Between, Between', frame.pos = p, frame'.pos = p, ~useSdk, [H!Next]_H!vars
  PROVE  /\ Held => Held' \/ Free' \/ Last'
         /\ Last => Last' \/ Free'
         /\ Free => Free' \/ Store4'
         /\ Store4 => Store4' \/ One(p)'
         /\ One(p) => One(p)' \/ Two(p)'
         /\ Two(p) => Two(p)' \/ HasAxes(p)'
         /\ HasAxes(p) => HasAxes(p)'
         /\ Store5 => Store5' \/ Store6'
         /\ Store6 => Store6' \/ Held' \/ Last'
<1>. USE DEF H!vars, H!rxVars, H!tickVars
<1>. USE DEF Held, Free, Last, Store4, Store5, Store6, One, Two
<1>1. joy \in [4..6 -> {-1, 0, 1}] /\ joy' \in [4..6 -> {-1, 0, 1}]
  BY DEF Between, H!Axes, H!Axis
<1>2. HasAxes(p) => HasAxes(p)'
  BY <1>1, RestStores DEF HasAxes
<1>3. CASE H!Receive
  <2>1. rx = 0 /\ (rx' = 1 \/ (rx' = 4 /\ joyBusy'))
    BY <1>3 DEF H!Receive
  <2>2. Held => Held'
    BY <1>3 DEF H!Receive
  <2>3. Free => Store4'
    BY <1>3 DEF H!Receive
  <2>4. ~Last /\ ~Store4 /\ ~One(p) /\ ~Two(p) /\ ~Store5 /\ ~Store6
    BY <2>1
  <2>. HIDE DEF Held, Free, Last, Store4, Store5, Store6, One, Two
  <2>. QED BY <1>2, <2>2, <2>3, <2>4
<1>4. CASE H!StoreAxis
  <2>1. rx \in 1..3 /\ rx' = rx + 1 /\ joy' = [joy EXCEPT ![3 + rx] = frame.pos[3 + rx]]
    BY <1>4 DEF H!StoreAxis
  <2>2. rx = 1 => rx' = 2 /\ joy'[4] = p[4]
    BY <1>1, <2>1
  <2>3. rx = 2 => rx' = 3 /\ joy'[5] = p[5] /\ joy'[4] = joy[4]
    BY <1>1, <2>1
  <2>4. rx = 3 => rx' = 4 /\ joy'[6] = p[6] /\ joy'[4] = joy[4] /\ joy'[5] = joy[5]
    BY <1>1, <2>1
  <2>. QED BY <1>1, <1>2, <2>1, <2>2, <2>3, <2>4 DEF HasAxes
<1>5. CASE H!ReadKey
  <2>1. rx = 4 /\ rx' = 0 /\ UNCHANGED <<joy, joyBusy>>
    BY <1>5 DEF H!ReadKey
  <2>. QED BY <1>2, <2>1
<1>6. CASE H!SendJoy
  <2>1. ~joyBusy' /\ UNCHANGED <<rx, joy>>
    BY <1>6 DEF H!SendJoy
  <2>2. rx \in {0, 4} => rx = 0 \/ rx = 4
    OBVIOUS
  <2>. QED BY <1>2, <2>1, <2>2
<1>7. CASE ~(H!Receive \/ H!StoreAxis \/ H!ReadKey \/ H!SendJoy)
  <2>1. UNCHANGED <<rx, joy, joyBusy>>
    BY <1>7, Zenon DEF H!Next, H!Receiver, H!Timer, H!SendGoal,
      H!FsmGoalCb, H!OtherPublish, H!AskDown, H!AskUp, H!AskArmed, H!AskMid, H!AskLow, H!AskJump,
      H!Compare, H!Goes
  <2>. QED BY <1>2, <2>1
<1>. QED BY <1>3, <1>4, <1>5, <1>6, <1>7

\* What each fair step of the receiver's side contributes.
LEMMA FreeReceives == ~useSdk /\ Free /\ <<H!Receive>>_H!vars => Store4'
BY DEF Free, Store4, H!Receive
\* The joy publisher's thread frees the message.
LEMMA HeldIsSent == Held /\ <<H!SendJoy>>_H!vars => Free' \/ Last'
BY DEF Held, Free, Last, H!SendJoy
\* The receiver gets past the key of a frame it could not store.
LEMMA LastIsRead == Last /\ <<H!Receiver>>_H!vars => Free'
BY DEF Last, Free, H!Receiver, H!StoreAxis, H!ReadKey
\* A receiver that stores goes on to the last axis.
LEMMA StoreGoesOn ==
  ASSUME NEW p, Between, Between', frame.pos = p, frame'.pos = p, ~useSdk, [H!Next]_H!vars,
         <<H!Receiver>>_H!vars
  PROVE  /\ Store4 => One(p)'
         /\ One(p) => Two(p)'
         /\ Two(p) => HasAxes(p)'
         /\ Store5 => Store6'
         /\ Store6 => Held' \/ Last'
<1>1. /\ Store4 => One(p)' \/ Store4'
      /\ One(p) => One(p)' \/ Two(p)'
      /\ Two(p) => Two(p)' \/ HasAxes(p)'
      /\ Store5 => Store5' \/ Store6'
      /\ Store6 => Store6' \/ Held' \/ Last'
  BY PositionMoves
<1>2. /\ rx = 1 => rx' = 2
      /\ rx = 2 => rx' = 3
      /\ rx = 3 => rx' = 4
  BY ReceiverMoves
<1>. QED BY <1>1, <1>2 DEF Store4, Store5, Store6, One, Two

\* The axes of a position that frames hold for ever, outside SDK mode, are
\* stored in the end.
LEMMA PositionStored ==
  ASSUME NEW p
  PROVE  ThreadsRun /\ [](frame.pos = p /\ ~useSdk) => <>[]HasAxes(p)
<1>. DEFINE calm == frame.pos = p /\ ~useSdk
            one == One(p)
            two == Two(p)
            has == HasAxes(p)
<1>1. Between => Held \/ Last \/ Free \/ Store4 \/ Store5 \/ Store6
  BY DEF Between, Held, Last, Free, Store4, Store5, Store6
<1>2. HandsetGuards =>
        /\ Held => ENABLED <<H!SendJoy>>_H!vars
        /\ Free => ENABLED <<H!Receive>>_H!vars
        /\ Last \/ Store4 \/ one \/ two \/ Store5 \/ Store6 => ENABLED <<H!Receiver>>_H!vars
  BY DEF HandsetGuards, Held, Last, Free, Store4, Store5, Store6, One, Two
<1>3. Between /\ Between' /\ calm /\ calm' /\ [H!Next]_H!vars
        => /\ Held => Held' \/ Free' \/ Last'
           /\ Last => Last' \/ Free'
           /\ Free => Free' \/ Store4'
           /\ Store4 => Store4' \/ one'
           /\ one => one' \/ two'
           /\ two => two' \/ has'
           /\ has => has'
           /\ Store5 => Store5' \/ Store6'
           /\ Store6 => Store6' \/ Held' \/ Last'
  BY PositionMoves
<1>4. Held /\ <<H!SendJoy>>_H!vars => Free' \/ Last'
  BY HeldIsSent
<1>5. calm /\ Free /\ <<H!Receive>>_H!vars => Store4'
  BY FreeReceives
<1>6. Last /\ <<H!Receiver>>_H!vars => Free'
  BY LastIsRead
<1>7. Between /\ Between' /\ calm /\ calm' /\ [H!Next]_H!vars /\ Store4 /\ <<H!Receiver>>_H!vars => one'
  BY StoreGoesOn
<1>8. Between /\ Between' /\ calm /\ calm' /\ [H!Next]_H!vars /\ one /\ <<H!Receiver>>_H!vars => two'
  BY StoreGoesOn
<1>9. Between /\ Between' /\ calm /\ calm' /\ [H!Next]_H!vars /\ two /\ <<H!Receiver>>_H!vars => has'
  BY StoreGoesOn
<1>10. Between /\ Between' /\ calm /\ calm' /\ [H!Next]_H!vars /\ Store5 /\ <<H!Receiver>>_H!vars => Store6'
  BY StoreGoesOn
<1>11. Between /\ Between' /\ calm /\ calm' /\ [H!Next]_H!vars /\ Store6 /\ <<H!Receiver>>_H!vars
         => Held' \/ Last'
  BY StoreGoesOn
<1>12. (calm <=> frame.pos = p /\ ~useSdk) /\ (has <=> HasAxes(p))
  OBVIOUS
<1>. HIDE DEF calm, one, two, has
<1>13. ThreadsRun /\ []calm => (Held ~> Free \/ Last)
  BY <1>2, <1>3, <1>4, PTL DEF ThreadsRun
<1>14. ThreadsRun /\ []calm => (Last ~> Free)
  BY <1>2, <1>3, <1>6, PTL DEF ThreadsRun
<1>15. ThreadsRun /\ []calm => (Free ~> Store4)
  BY <1>2, <1>3, <1>5, PTL DEF ThreadsRun
<1>16. ThreadsRun /\ []calm => (Store4 ~> one)
  BY <1>2, <1>3, <1>7, PTL DEF ThreadsRun
<1>17. ThreadsRun /\ []calm => (one ~> two)
  BY <1>2, <1>3, <1>8, PTL DEF ThreadsRun
<1>18. ThreadsRun /\ []calm => (two ~> has)
  BY <1>2, <1>3, <1>9, PTL DEF ThreadsRun
<1>19. ThreadsRun /\ []calm => (Store5 ~> Store6)
  BY <1>2, <1>3, <1>10, PTL DEF ThreadsRun
<1>20. ThreadsRun /\ []calm => (Store6 ~> Held \/ Last)
  BY <1>2, <1>3, <1>11, PTL DEF ThreadsRun
<1>21. ThreadsRun /\ []calm => <>has
  BY <1>1, <1>13, <1>14, <1>15, <1>16, <1>17, <1>18, <1>19, <1>20, PTL DEF ThreadsRun
<1>. QED BY <1>3, <1>12, <1>21, PTL DEF ThreadsRun
-----------------------------------------------------------------------------
(* The goal's way to the controller. *)

\* What is under way fits the topic.
LEMMA TopicFits ==
  ASSUME Depth \in Nat \ {0}
  PROVE  H!Spec /\ [](drill.others = {}) => [](NewestUnderWay /\ Len(topic) <= Depth)
<1>. DEFINE fits == Len(topic) <= Depth
            alone == drill.others = {}
<1>1. H!Init => NewestUnderWay /\ fits
  <2>. SUFFICES ASSUME H!Init PROVE NewestUnderWay /\ fits
    OBVIOUS
  <2>1. tick = "wait" /\ data = "" /\ key = "" /\ ~goalBusy /\ topic = <<>> /\ goal = "idle"
    BY Zenon DEF H!Init
  <2>2. <<>> \in Seq(H!TeleopGoal \cup {""}) /\ Len(<<>>) = 0
    OBVIOUS
  <2>3. Len(topic) = 0
    BY <2>1, <2>2, Zenon
  <2>4. fits
    BY <2>3
  <2>. HIDE DEF fits
  <2>. QED BY <2>1, <2>2, <2>4 DEF NewestUnderWay
<1>2. NewestUnderWay /\ fits /\ alone /\ [H!Next]_H!vars => fits'
  <2>. SUFFICES ASSUME NewestUnderWay, fits, alone, [H!Next]_H!vars PROVE Len(topic') <= Depth
    OBVIOUS
  <2>. USE DEF H!vars, H!rxVars, H!tickVars
  <2>. DEFINE S == H!TeleopGoal \cup {""}
  <2>1. topic \in Seq(S)
    BY DEF NewestUnderWay
  <2>. HIDE DEF S
  <2>2. Len(topic) \in Nat
    BY <2>1
  <2>3. CASE H!FsmGoalCb
    <3>1. topic # <<>> /\ topic' = Tail(topic)
      BY <2>3 DEF H!FsmGoalCb
    <3>2. Len(topic') = Len(topic) - 1
      BY <2>1, <3>1
    <3>. QED BY <2>2, <3>2
  <2>4. CASE H!SendGoal
    <3>. DEFINE q == IF Len(topic) = Depth THEN Tail(topic) ELSE topic
    <3>1. topic' = Append(q, data)
      BY <2>4 DEF H!SendGoal, H!Pushed
    <3>2. q \in Seq(S) /\ Len(q) \in Nat /\ Len(q) < Depth
      <4>1. CASE Len(topic) = Depth
        BY <2>1, <4>1
      <4>2. CASE Len(topic) # Depth
        BY <2>1, <2>2, <4>2
      <4>. QED BY <4>1, <4>2
    <3>. HIDE DEF q
    <3>3. data \in S
      BY DEF NewestUnderWay, S
    <3>4. Len(topic') = Len(q) + 1
      BY <3>1, <3>2, <3>3
    <3>. QED BY <3>2, <3>4
  <2>5. CASE ~H!FsmGoalCb /\ ~H!SendGoal
    <3>1. topic' = topic
      BY <2>5, Zenon DEF H!Next, H!Receiver, H!Timer, H!Receive, H!StoreAxis, H!ReadKey, H!SendJoy,
        H!AskDown, H!AskUp, H!AskArmed, H!AskMid, H!AskLow, H!AskJump, H!Compare, H!Goes
    <3>. QED BY <3>1
  <2>. QED BY <2>3, <2>4, <2>5
<1>3. (fits <=> Len(topic) <= Depth) /\ (alone <=> drill.others = {})
  OBVIOUS
<1>4. NewestUnderWay /\ alone /\ [H!Next]_H!vars => NewestUnderWay'
  BY NewestStep
<1>. HIDE DEF fits, alone
<1>. QED BY <1>1, <1>2, <1>3, <1>4, PTL DEF H!Spec

\* With nothing more to send the topic only gets shorter.
LEMMA TopicStep ==
  ASSUME drill.others = {}, ~goalBusy, [H!Next]_H!vars
  PROVE  topic' = topic \/ (topic # <<>> /\ topic' = Tail(topic))
<1>. USE DEF H!vars, H!rxVars, H!tickVars
<1>1. CASE H!FsmGoalCb
  BY <1>1 DEF H!FsmGoalCb
<1>2. CASE ~H!FsmGoalCb
  <2>1. topic' = topic
    BY <1>2, Zenon DEF H!Next, H!Receiver, H!Timer, H!Receive, H!StoreAxis, H!ReadKey, H!SendJoy,
      H!SendGoal, H!AskDown, H!AskUp, H!AskArmed, H!AskMid, H!AskLow, H!AskJump, H!Compare, H!Goes
  <2>. QED BY <2>1
<1>. QED BY <1>1, <1>2

\* Nothing more is sent, by anybody; the controller's executor runs.
Draining == ThreadsRun /\ [](~goalBusy /\ drill.others = {} /\ NewestUnderWay)

\* A topic of at most the code's depth, 10, is empty in the end.
LEMMA TopicDrains ==
  ASSUME Depth \in 1..10
  PROVE  Draining /\ [](Len(topic) <= Depth) => <>[](topic = <<>>)
<1>. DEFINE settled == ~goalBusy /\ drill.others = {} /\ NewestUnderWay
            fits == Len(topic) <= Depth
            empty == topic = <<>>
            T1 == Len(topic) <= 1
            T2 == Len(topic) <= 2
            T3 == Len(topic) <= 3
            T4 == Len(topic) <= 4
            T5 == Len(topic) <= 5
            T6 == Len(topic) <= 6
            T7 == Len(topic) <= 7
            T8 == Len(topic) <= 8
            T9 == Len(topic) <= 9
<1>1. settled => Len(topic) \in Nat /\ (topic # <<>> => Len(Tail(topic)) = Len(topic) - 1)
                /\ (topic = <<>> <=> Len(topic) = 0)
  <2>. DEFINE S == H!TeleopGoal \cup {""}
  <2>1. settled => topic \in Seq(S)
    BY DEF NewestUnderWay
  <2>. HIDE DEF S
  <2>2. topic \in Seq(S) => Len(topic) \in Nat /\ (topic # <<>> => Len(Tail(topic)) = Len(topic) - 1)
                            /\ (topic = <<>> <=> Len(topic) = 0)
    OBVIOUS
  <2>. QED BY <2>1, <2>2
<1>2. settled /\ [H!Next]_H!vars
        => /\ (empty => empty')
           /\ (T1 => T1')
           /\ (T2 => T2')
           /\ (T3 => T3')
           /\ (T4 => T4')
           /\ (T5 => T5')
           /\ (T6 => T6')
           /\ (T7 => T7')
           /\ (T8 => T8')
           /\ (T9 => T9')
           /\ (fits => fits')
  BY <1>1, TopicStep
<1>3. settled /\ <<H!FsmGoalCb>>_H!vars
        => /\ (T1 => empty')
           /\ (T2 => T1')
           /\ (T3 => T2')
           /\ (T4 => T3')
           /\ (T5 => T4')
           /\ (T6 => T5')
           /\ (T7 => T6')
           /\ (T8 => T7')
           /\ (T9 => T8')
           /\ (fits => T9')
  BY <1>1 DEF H!FsmGoalCb
<1>4. HandsetGuards /\ ~empty => ENABLED <<H!FsmGoalCb>>_H!vars
  BY DEF HandsetGuards
<1>5. settled /\ empty => T1 /\  T2 /\  T3 /\  T4 /\  T5 /\  T6 /\  T7 /\  T8 /\  T9
  BY <1>1
<1>6. /\ settled <=> (~goalBusy /\ drill.others = {} /\ NewestUnderWay)
      /\ fits <=> Len(topic) <= Depth
      /\ empty <=> topic = <<>>
  OBVIOUS
<1>. HIDE DEF settled, fits, empty, T1, T2, T3, T4, T5, T6, T7, T8, T9
<1>7. ThreadsRun /\ []settled => (fits ~> T9)
  BY <1>2, <1>3, <1>4, <1>5, PTL DEF ThreadsRun
<1>8. ThreadsRun /\ []settled => (T9 ~> T8)
  BY <1>2, <1>3, <1>4, <1>5, PTL DEF ThreadsRun
<1>9. ThreadsRun /\ []settled => (T8 ~> T7)
  BY <1>2, <1>3, <1>4, <1>5, PTL DEF ThreadsRun
<1>10. ThreadsRun /\ []settled => (T7 ~> T6)
  BY <1>2, <1>3, <1>4, <1>5, PTL DEF ThreadsRun
<1>11. ThreadsRun /\ []settled => (T6 ~> T5)
  BY <1>2, <1>3, <1>4, <1>5, PTL DEF ThreadsRun
<1>12. ThreadsRun /\ []settled => (T5 ~> T4)
  BY <1>2, <1>3, <1>4, <1>5, PTL DEF ThreadsRun
<1>13. ThreadsRun /\ []settled => (T4 ~> T3)
  BY <1>2, <1>3, <1>4, <1>5, PTL DEF ThreadsRun
<1>14. ThreadsRun /\ []settled => (T3 ~> T2)
  BY <1>2, <1>3, <1>4, <1>5, PTL DEF ThreadsRun
<1>15. ThreadsRun /\ []settled => (T2 ~> T1)
  BY <1>2, <1>3, <1>4, <1>5, PTL DEF ThreadsRun
<1>16. ThreadsRun /\ []settled => (T1 ~> empty)
  BY <1>2, <1>3, <1>4, <1>5, PTL DEF ThreadsRun
<1>. QED BY <1>2, <1>6, <1>7, <1>8, <1>9, <1>10, <1>11, <1>12, <1>13, <1>14, <1>15, <1>16, PTL DEF Draining, ThreadsRun

\* For every set of positions, every drill and every history up to the code's
\* ten goals: a handset that comes to rest outside SDK mode, with its left
\* switch not in the middle and nobody else publishing, is obeyed for good,
\* whatever mixture of frames a tick has seen before.
THEOREM HandsetIsObeyed ==
  ASSUME PositionsTyped, Depth \in 1..10
  PROVE  H!FairSpec /\ []HandsetGuards => H!HandsetObeyed
<1>1. Depth \in Nat \ {0}
  OBVIOUS
<1>2. H!FairSpec /\ []HandsetGuards => ThreadsRun
  BY BetweenAlways, PTL DEF H!FairSpec, H!Spec, ThreadsRun
<1>3. H!FairSpec /\ [](drill.others = {}) => [](NewestUnderWay /\ Len(topic) <= Depth)
  BY <1>1, TopicFits, PTL DEF H!FairSpec
<1>4. ASSUME NEW p \in {q \in H!Position : q[4] # 0}
      PROVE  ThreadsRun /\ [](NewestUnderWay /\ Len(topic) <= Depth) /\ [](drill.others = {})
               => (<>[](frame.pos = p /\ ~useSdk) => <>[](goal = H!Wanted(p)))
  <2>. DEFINE rests == frame.pos = p
              has == HasAxes(p)
              alone == drill.others = {}
              empty == topic = <<>>
              fits == Len(topic) <= Depth
              heard == goal = H!Wanted(p)
  <2>1. p \in H!Axes /\ p[4] # 0
    BY DEF PositionsTyped, H!Position
  <2>2. Between /\ has /\ Said => key = H!Wanted(p)
    <3>. SUFFICES ASSUME joy \in H!Axes, HasAxes(p), Said PROVE key = H!Wanted(p)
      BY DEF Between
    <3>1. joy = p
      BY <2>1 DEF HasAxes, H!Axes, H!Axis
    <3>. QED BY <2>1, <3>1 DEF Said, Asks
  <2>3. H!Wanted(p) # ""
    BY DEF H!Wanted
  <2>4. Between /\ has /\ Said /\ NewestUnderWay /\ ~goalBusy /\ empty => heard
    BY <2>2, <2>3 DEF NewestUnderWay
  <2>5. ThreadsRun /\ [](rests /\ ~useSdk) => <>[]has
    BY PositionStored
  <2>6. [][H!Next]_H!vars /\ []Between /\ []rests => <>[][joy' = joy]_H!vars
    BY RestIsStill
  <2>7. Draining /\ []fits => <>[]empty
    BY TopicDrains
  <2>8. /\ rests <=> frame.pos = p
        /\ heard <=> goal = H!Wanted(p)
        /\ fits <=> Len(topic) <= Depth
        /\ alone <=> drill.others = {}
    OBVIOUS
  <2>. HIDE DEF rests, has, empty, heard, fits, alone
  <2>9. ThreadsRun => []ThreadsRun
    BY PTL DEF ThreadsRun
  <2>10. ThreadsRun => [][H!Next]_H!vars /\ []Between
    BY PTL DEF ThreadsRun
  <2>11. ThreadsRun /\ <>[](rests /\ ~useSdk) => <>[](has /\ Said /\ ~goalBusy)
    BY <2>5, <2>6, <2>9, <2>10, StillSettles, PTL
  <2>12. ThreadsRun /\ [](NewestUnderWay /\ fits) /\ []alone /\ <>[]~goalBusy => <>[]empty
    BY <2>7, <2>8, <2>9, PTL DEF Draining
  <2>. QED BY <2>4, <2>8, <2>10, <2>11, <2>12, PTL
<1>5. ASSUME NEW p \in {q \in H!Position : q[4] # 0}
      PROVE  H!FairSpec /\ []HandsetGuards /\ [](drill.others = {})
               => (<>[](frame.pos = p /\ ~useSdk) => <>[](goal = H!Wanted(p)))
  BY <1>2, <1>3, <1>4, PTL
<1>. QED BY <1>5 DEF H!HandsetObeyed
-----------------------------------------------------------------------------
(* With transform_down asked for, the machine only ever goes down: the      *)
(* safety half of DownIsReached, first alone, then behind a handset.        *)

\* A pending change is one that transform_down may have asked for.
HeadsDown ==
  mode = "CHANGE" =>
    \/ cur = "transform_down" /\ next = "idle"
    \/ cur \notin {"idle", "transform_down"} /\ next = "transform_down"

\* From where the machine is to TransformDown, from there to Passive, from
\* there nowhere; and the loop does not die.
Lowers ==
  /\ halted' = halted
  /\ cur' \in {cur, IF cur = "transform_down" THEN "idle" ELSE "transform_down"}
  /\ cur = "idle" => cur' = "idle"

\* No state asks for another way, and no number is read from this goal.
LEMMA GoesDown == TypeOK /\ HeadsDown /\ goal = "transform_down" /\ [Next]_vars
                  => HeadsDown' /\ Lowers
<1>. SUFFICES ASSUME TypeOK, HeadsDown, goal = "transform_down", [Next]_vars
              PROVE  HeadsDown' /\ Lowers
  OBVIOUS
<1>1. ASSUME NEW g \in Goal, FsmGoalCb(g) PROVE HeadsDown' /\ Lowers
  BY <1>1 DEF FsmGoalCb, HeadsDown, Lowers
<1>2. ASSUME NEW upside \in BOOLEAN, NEW t \in PolicyTorque, RunNormal(upside, t)
      PROVE  HeadsDown' /\ Lowers
  <2>. DEFINE want == CheckTransition(cur, mem', goal)
  <2>1. "transform_down" \notin RlGoal /\ cur \in State /\ goal = "transform_down"
    BY PolicyAssumption DEF Builtin, TypeOK
  <2>2. \/ want = cur
        \/ cur = "transform_down" /\ want = "idle"
        \/ cur \notin {"idle", "transform_down"} /\ want = "transform_down"
    <3>1. CASE cur = "idle"
      BY <2>1, <3>1 DEF CheckTransition, PassiveTarget
    <3>2. CASE cur = "transform_up"
      BY <2>1, <3>2 DEF CheckTransition, UpTarget
    <3>3. CASE cur = "joint_pd"
      BY <2>1, <3>3 DEF CheckTransition, JointPDTarget
    <3>4. CASE cur = "transform_down"
      BY <2>1, <3>4 DEF CheckTransition, DownTarget
    <3>5. CASE cur \notin Builtin
      BY <2>1, <3>5 DEF CheckTransition, PolicyTarget, Builtin
    <3>. QED BY <3>1, <3>2, <3>3, <3>4, <3>5 DEF Builtin
  <2>3. want # Overflow
    BY <2>1, <2>2, PolicyAssumption DEF State, Builtin, Overflow
  <2>4. want \in State /\ GetNextState(want) = want
    BY <2>1, <2>2 DEF State, Builtin, GetNextState
  <2>. HIDE DEF want
  <2>5. /\ cur' = cur /\ halted' = halted
        /\ want = cur => mode' = mode
        /\ want # cur => next' = want
    BY <1>2, <2>3, <2>4, Zenon DEF RunNormal, want
  <2>6. mode = "NORMAL"
    BY <1>2 DEF RunNormal
  <2>. QED BY <2>2, <2>5, <2>6 DEF HeadsDown, Lowers
<1>3. ASSUME NEW ramp \in 0..MaxFoldRamp, NEW upside \in BOOLEAN,
             NEW t \in PolicyTorque, RunChange(ramp, upside, t)
      PROVE  HeadsDown' /\ Lowers
  <2>1. mode = "CHANGE" /\ mode' = "NORMAL" /\ cur' = next /\ halted' = halted
    BY <1>3 DEF RunChange
  <2>. QED BY <2>1 DEF HeadsDown, Lowers
<1>4. CASE UNCHANGED vars
  BY <1>4 DEF vars, HeadsDown, Lowers
<1>. QED BY <1>1, <1>2, <1>3, <1>4 DEF Next, Run

\* The safety half of DownIsReached, for every policy set and all ramps: while
\* transform_down stays the goal, and no older change is pending, the machine
\* takes no way but the one down, and the control loop survives.  How
\* long TransformDown may take is in TransformsTakeBoundedTime.
THEOREM DownIsOneWay ==
  Spec => [](HeadsDown /\ [](goal = "transform_down") => []HeadsDown /\ [][Lowers]_vars)
<1>1. TypeOK /\ HeadsDown /\ goal = "transform_down" /\ [Next]_vars => HeadsDown' /\ Lowers
  BY GoesDown
<1>. DEFINE asked == goal = "transform_down"
<1>2. asked <=> goal = "transform_down"
  OBVIOUS
<1>. HIDE DEF asked
<1>3. TypeOK /\ HeadsDown /\ asked /\ [Next]_vars => HeadsDown' /\ Lowers
  BY <1>1, <1>2
<1>. QED BY <1>2, <1>3, TypeCorrect, PTL DEF Spec

\* Node and controller together: a handset that rests with its left switch
\* down, once heard, only ever lowers the robot, and whatever had been asked
\* for before is not asked for again.
THEOREM HandsetDownLowers ==
  ASSUME Depth \in Nat \ {0}, NEW p \in H!Axes, p[4] = 1
  PROVE  Spec /\ H!Spec /\ [](drill.others = {})
           => [](joy = p /\ tick = "wait" /\ [](frame.pos = p)
                  => [](key = "transform_down" /\ Arrived /\ HeadsDown
                         => [](goal = "transform_down") /\ [][Lowers]_vars))
<1>1. H!Wanted(p) = "transform_down" /\ p[4] # 0
  BY DEF H!Wanted
<1>2. H!Spec /\ [](drill.others = {})
        => [](joy = p /\ tick = "wait" /\ [](frame.pos = p)
               => [](key = "transform_down" /\ Arrived => [](Arrived /\ goal = "transform_down")))
  <2>. DEFINE said == key = H!Wanted(p)
              heard == goal = H!Wanted(p)
              told == key = "transform_down"
              asked == goal = "transform_down"
  <2>1. (said <=> told) /\ (heard <=> asked)
    BY <1>1
  <2>2. (said <=> key = H!Wanted(p)) /\ (heard <=> goal = H!Wanted(p))
    OBVIOUS
  <2>3. (told <=> key = "transform_down") /\ (asked <=> goal = "transform_down")
    OBVIOUS
  <2>4. H!Spec /\ [](drill.others = {})
          => [](joy = p /\ tick = "wait" /\ [](frame.pos = p)
                 => /\ [][H!Compare => key' = H!Wanted(p)]_H!vars
                    /\ [](key = H!Wanted(p) => [](key = H!Wanted(p)))
                    /\ [](key = H!Wanted(p) /\ Arrived => [](Arrived /\ goal = H!Wanted(p))))
    BY <1>1, RestingHandsetConverges
  <2>. HIDE DEF said, heard, told, asked
  <2>. QED BY <2>1, <2>2, <2>3, <2>4, PTL
<1>. QED BY <1>2, DownIsOneWay, PTL

\* The only way to lose the control loop is an index that stoi rejects.
LEMMA LoopGoesOn ==
  ASSUME \A g \in RlGoal : PolicyOf[g] # Overflow
  PROVE  Spec => []~halted
<1>1. Init => ~halted
  BY Zenon DEF Init
<1>2. TypeOK /\ TypeOK' /\ ~halted /\ [Next]_vars => ~halted'
  <2>. SUFFICES ASSUME TypeOK, TypeOK', ~halted, [Next]_vars PROVE ~halted'
    OBVIOUS
  <2>1. ASSUME NEW upside \in BOOLEAN, NEW t \in PolicyTorque, RunNormal(upside, t)
        PROVE ~halted'
    <3>1. CheckTransition(cur, mem', goal) # Overflow
      BY TargetAllowed DEF TypeOK
    <3>. QED BY <2>1, <3>1 DEF RunNormal
  <2>. QED BY <2>1 DEF Next, FsmGoalCb, Run, RunChange, vars
<1>. QED BY <1>1, <1>2, TypeCorrect, PTL DEF Spec

\* From the switch to the legs: a handset that comes to rest with its left
\* switch down, outside SDK mode and next to no other publisher, brings the
\* robot down and limp for good, whatever it was doing and whatever the handset
\* had asked for before.  No frame makes the node publish a number that stoi
\* rejects; its goal "jump" is one of RlGoal, to which no policy belongs.
THEOREM SwitchBringsDown ==
  ASSUME PositionsTyped, Depth \in 1..10, RampsConfigured,
         \A g \in RlGoal : PolicyOf[g] # Overflow,
         NEW p \in {q \in H!Position : q[4] = 1}
  PROVE  FairSpec /\ []GuardEnables /\ H!FairSpec /\ []HandsetGuards /\ [](drill.others = {})
           => (<>[](frame.pos = p /\ ~useSdk) => <>[](cur = "idle"))
<1>1. H!FairSpec /\ []HandsetGuards => H!HandsetObeyed
  BY HandsetIsObeyed
<1>2. FairSpec /\ []GuardEnables => DownIsReached
  BY DownIsReachedAlways
<1>3. Spec => []~halted
  BY LoopGoesOn
<1>4. p \in {q \in H!Position : q[4] # 0} /\ H!Wanted(p) = "transform_down"
  BY DEF H!Wanted
<1>5. H!HandsetObeyed /\ [](drill.others = {})
        => (<>[](frame.pos = p /\ ~useSdk) => <>[](goal = H!Wanted(p)))
  BY <1>4 DEF H!HandsetObeyed
<1>. DEFINE heard == goal = H!Wanted(p)
            asked == goal = "transform_down"
            rest == cur = "idle"
            stopped == cur = "idle" \/ halted
<1>6. (heard <=> asked) /\ (stopped <=> rest \/ halted)
  BY <1>4
<1>7. /\ (heard <=> goal = H!Wanted(p)) /\ (asked <=> goal = "transform_down")
      /\ (rest <=> cur = "idle") /\ (stopped <=> cur = "idle" \/ halted)
  OBVIOUS
<1>8. DownIsReached => (<>[](goal = "transform_down") => <>[](cur = "idle" \/ halted))
  BY DEF DownIsReached
<1>. HIDE DEF heard, asked, rest, stopped
<1>. QED BY <1>1, <1>2, <1>3, <1>5, <1>6, <1>7, <1>8, PTL DEF FairSpec
=============================================================================

------------------------ MODULE Np3oTraining_proofs ------------------------
(* Proofs about Np3oTraining, for every value of its constants: what a       *)
(* policy learns from is an unbroken trajectory of its own, its returns stay *)
(* in their episodes, its costs are reported with theirs though each         *)
(* statistic has one of the next episode, a process that dies loses at most  *)
(* SaveInterval updates, and one that nobody kills completes its training.   *)
EXTENDS Np3oTraining, WellFoundedInduction, TLAPS

\* What a row of the storage is made of.
StoredRow == [at : Place, reward : Place, cost : Place, timeOut : BOOLEAN, done : BOOLEAN,
              policy : Nat]

\* Rows 1..step are the latest transitions of the robot under the policy.
Trajectory ==
  \A k \in 1..step :
    /\ rows[k].policy = updates
    /\ rows[k].reward = After(rows[k].at)
    /\ (IF k = step THEN obs ELSE rows[k + 1].at) =
         IF rows[k].done THEN Restart(rows[k].at) ELSE rows[k].reward

\* The storage and the collection loop keep in step, and the runner's
\* observation is the robot's.
TrajectoryInv ==
  /\ TypeOK
  /\ obs = robot
  /\ proc = "collect" => step + left = NumSteps /\ Trajectory
  /\ proc = "update" => step = NumSteps /\ Trajectory
  /\ proc \in {"learnt", "saving"} => step = 0

\* The initial states satisfy the invariant of the trajectory.
LEMMA TrajectoryInit == Init => TrajectoryInv
<1>. SUFFICES ASSUME Init PROVE TrajectoryInv
  OBVIOUS
<1>1. TypeOK
  BY DEF Init, TypeOK, Stage, Place, Origin, Blank
<1>2. obs = robot /\ proc = "down"
  BY DEF Init
<1>. QED BY <1>1, <1>2 DEF TrajectoryInv

\* Starting a process resets the storage.
LEMMA TrajectoryStarted ==
  ASSUME TrajectoryInv, NEW n \in Nat, Started(n)
  PROVE  TrajectoryInv'
<1>1. TypeOK'
  BY StepsAssumption DEF TrajectoryInv, TypeOK, Started, Stage, Place, Origin, Blank
<1>2. obs' = robot' /\ step' = 0 /\ left' = NumSteps /\ proc' \in {"collect", "finish"}
  BY DEF Started
<1>3. Trajectory'
  BY <1>2 DEF Trajectory
<1>. QED BY <1>1, <1>2, <1>3, StepsAssumption DEF TrajectoryInv

\* A step of the environment extends the trajectory by one row.
LEMMA TrajectoryStepEnv ==
  ASSUME TrajectoryInv, proc = "collect", left > 0, step < NumSteps, StepEnv
  PROVE  TrajectoryInv'
<1>. DEFINE i == step + 1
<1>. PICK done \in BOOLEAN, timeOut \in BOOLEAN, others \in BOOLEAN :
       LET reached == After(robot)
           now     == IF done THEN Restart(robot) ELSE reached
       IN  /\ timeOut => done
           /\ robot' = now /\ obs' = ObsOf(now)
           /\ sums' = SumsAfter(done, now) /\ log' = LogAfter(done, others, now)
           /\ rows' = [rows EXCEPT ![step + 1] =
                [at |-> obs, reward |-> reached, cost |-> CostState(now),
                 timeOut |-> timeOut, done |-> done, policy |-> updates]]
  BY Zenon DEF StepEnv
<1>. DEFINE now == IF done THEN Restart(robot) ELSE After(robot)
            row == [at |-> obs, reward |-> After(robot), cost |-> now, timeOut |-> timeOut,
                    done |-> done, policy |-> updates]
<1>1. robot' = now /\ obs' = now /\ rows' = [rows EXCEPT ![i] = row]
  BY DEF ObsOf, CostState
<1>2. /\ step' = step + 1 /\ left' = left - 1
      /\ proc' = proc /\ launches' = launches /\ it' = it /\ updates' = updates /\ files' = files
  BY DEF StepEnv
<1>3. TypeOK /\ obs = robot /\ step + left = NumSteps /\ Trajectory
  BY DEF TrajectoryInv
<1>4. i \in Row /\ step \in Nat /\ left \in Nat
  BY <1>3, StepsAssumption DEF Row, TypeOK
<1>5. After(robot) \in Place /\ Restart(robot) \in Place
  BY <1>3 DEF After, Restart, TypeOK, Place
<1>6. TypeOK'
  <2>1. row \in StoredRow
    BY <1>3, <1>5 DEF TypeOK, StoredRow
  <2>2. rows' \in [Row -> StoredRow]
    BY <1>1, <1>3, <2>1 DEF TypeOK, StoredRow
  <2>. HIDE DEF row
  <2>. QED BY <1>1, <1>2, <1>3, <1>4, <1>5, <2>2 DEF TypeOK, StoredRow
<1>7. Trajectory'
  <2>. SUFFICES ASSUME NEW k \in 1..(step + 1)
       PROVE  /\ rows'[k].policy = updates
              /\ rows'[k].reward = After(rows'[k].at)
              /\ (IF k = step + 1 THEN obs' ELSE rows'[k + 1].at) =
                   IF rows'[k].done THEN Restart(rows'[k].at) ELSE rows'[k].reward
    BY <1>2 DEF Trajectory, After, Restart
  <2>0. /\ rows \in [Row -> StoredRow]
        /\ rows'[i] = row
        /\ \A j \in Row : j # i => rows'[j] = rows[j]
    BY <1>1, <1>3, <1>4 DEF TypeOK, StoredRow
  <2>1. CASE k = i
    BY <2>0, <2>1, <1>1, <1>3
  <2>2. CASE k # i
    <3>1. k \in 1..step /\ k \in Row /\ k # step + 1
      BY <2>2, <1>4, StepsAssumption DEF Row
    <3>2. rows'[k] = rows[k]
      BY <3>1, <2>0, <2>2
    <3>3. rows'[k + 1].at = IF k = step THEN obs ELSE rows[k + 1].at
      <4>1. CASE k = step
        BY <4>1, <2>0
      <4>2. CASE k # step
        <5>1. k + 1 \in Row /\ k + 1 # i
          BY <4>2, <3>1, <1>4, StepsAssumption DEF Row
        <5>. QED BY <4>2, <5>1, <2>0
      <4>. QED BY <4>1, <4>2
    <3>4. /\ rows[k].policy = updates
          /\ rows[k].reward = After(rows[k].at)
          /\ (IF k = step THEN obs ELSE rows[k + 1].at) =
               IF rows[k].done THEN Restart(rows[k].at) ELSE rows[k].reward
      BY <1>3, <3>1 DEF Trajectory
    <3>. QED BY <3>1, <3>2, <3>3, <3>4
  <2>. QED BY <2>1, <2>2
<1>8. step' + left' = NumSteps
  BY <1>2, <1>3, <1>4, StepsAssumption
<1>9. obs' = robot'
  BY <1>1
<1>. QED BY <1>2, <1>6, <1>7, <1>8, <1>9 DEF TrajectoryInv

\* A file written is a file of the right kind.
LEMMA WriteTypes ==
  ASSUME TypeOK, NEW n \in Nat, NEW w \in BOOLEAN, Write(n, w)
  PROVE  (\A f \in DOMAIN files : f \in Nat \X Nat /\ files[f] \in [updates : Nat, whole : BOOLEAN])'
BY DEF TypeOK, Write

\* The unchanged storage still holds the same trajectory.
LEMMA TrajectoryKept ==
  ASSUME Trajectory, UNCHANGED <<obs, rows, step, updates>>
  PROVE  Trajectory'
BY DEF Trajectory, After, Restart

\* Every step preserves the invariant of the trajectory.
LEMMA TrajectoryStep == TrajectoryInv /\ [Next]_vars => TrajectoryInv'
<1>. SUFFICES ASSUME TrajectoryInv, [Next]_vars PROVE TrajectoryInv'
  OBVIOUS
<1>. USE DEF counts, world
<1>1. /\ TypeOK
      /\ obs = robot
      /\ proc = "collect" => step + left = NumSteps /\ Trajectory
      /\ proc = "update" => step = NumSteps /\ Trajectory
      /\ proc \in {"learnt", "saving"} => step = 0
  BY DEF TrajectoryInv
<1>2. NumSteps \in Nat \ {0} /\ left \in Nat /\ step \in Nat /\ it \in Nat
  BY <1>1, StepsAssumption DEF TypeOK
<1>3. CASE LaunchFresh
  BY <1>3, TrajectoryStarted DEF LaunchFresh
<1>4. CASE LaunchResumed
  <2>. PICK f \in DOMAIN files : Started(files[f].updates)
    BY <1>4 DEF LaunchResumed
  <2>1. files[f].updates \in Nat
    BY <1>1 DEF TypeOK
  <2>. QED BY <2>1, TrajectoryStarted
<1>5. CASE LaunchFails
  BY <1>1, <1>2, <1>5 DEF LaunchFails, TrajectoryInv, TypeOK, Stage
<1>6. CASE Kill
  BY <1>1, <1>2, <1>6 DEF Kill, TrajectoryInv, TypeOK, Stage
<1>7. CASE Collect
  <2>1. CASE step < NumSteps
    <3>1. proc = "collect" /\ left > 0 /\ StepEnv
      BY <1>7, <2>1 DEF Collect
    <3>. QED BY <2>1, <3>1, TrajectoryStepEnv
  <2>2. CASE ~(step < NumSteps)
    BY <1>1, <1>2, <1>7, <2>2 DEF Collect, TrajectoryInv, TypeOK, Stage
  <2>. QED BY <2>1, <2>2
<1>8. CASE ComputeReturns
  <2>1. /\ proc = "collect" /\ left = 0 /\ proc' = "update"
        /\ UNCHANGED <<launches, it, left, updates, robot, obs, rows, step, files>>
    BY <1>8 DEF ComputeReturns
  <2>2. TypeOK'
    BY <1>1, <2>1 DEF TypeOK, Stage
  <2>3. Trajectory'
    BY <1>1, <2>1, TrajectoryKept
  <2>. QED BY <1>1, <1>2, <2>1, <2>2, <2>3 DEF TrajectoryInv
<1>9. CASE Update
  <2>1. /\ proc = "update" /\ proc' = "learnt" /\ step' = 0 /\ updates' = updates + 1
        /\ UNCHANGED <<launches, it, left, robot, obs, rows, files>>
    BY <1>9 DEF Update, Cleared
  <2>2. TypeOK'
    BY <1>1, <2>1 DEF TypeOK, Stage
  <2>. QED BY <1>1, <2>1, <2>2 DEF TrajectoryInv
<1>10. ASSUME NextIteration, step = 0,
              (\A f \in DOMAIN files : f \in Nat \X Nat /\ files[f] \in [updates : Nat, whole : BOOLEAN])'
       PROVE  TrajectoryInv'
  <2>1. /\ proc' \in {"finish", "collect"} /\ left' = NumSteps /\ it' = it + 1
        /\ UNCHANGED <<launches, updates, robot, obs, rows, step>>
    BY <1>10 DEF NextIteration
  <2>2. TypeOK'
    BY <1>1, <1>2, <1>10, <2>1 DEF TypeOK, Stage
  <2>3. Trajectory'
    BY <1>10, <2>1 DEF Trajectory
  <2>. QED BY <1>1, <1>2, <1>10, <2>1, <2>2, <2>3 DEF TrajectoryInv
<1>11. CASE SkipSave
  <2>1. NextIteration /\ step = 0 /\ files' = files
    BY <1>1, <1>11 DEF SkipSave
  <2>. QED BY <1>1, <1>10, <2>1 DEF TypeOK
<1>12. CASE BeginSave
  <2>1. /\ proc = "learnt" /\ proc' = "saving" /\ Write(it, FALSE)
        /\ UNCHANGED <<launches, it, left, updates, robot, obs, rows, step>>
    BY <1>12 DEF BeginSave
  <2>2. TypeOK'
    BY <1>1, <1>2, <2>1, WriteTypes DEF TypeOK, Stage
  <2>. QED BY <1>1, <2>1, <2>2 DEF TrajectoryInv
<1>13. CASE EndSave
  <2>1. NextIteration /\ step = 0 /\ Write(it, TRUE)
    BY <1>1, <1>13 DEF EndSave
  <2>. QED BY <1>1, <1>2, <1>10, <2>1, WriteTypes
<1>14. CASE BeginFinal
  <2>1. /\ proc' = "finishing" /\ Write(NumIterations, FALSE)
        /\ UNCHANGED <<launches, it, left, updates, robot, obs, rows, step>>
    BY <1>14 DEF BeginFinal
  <2>2. TypeOK'
    BY <1>1, <2>1, WriteTypes, IterationsAssumption DEF TypeOK, Stage
  <2>. QED BY <1>1, <2>1, <2>2 DEF TrajectoryInv
<1>15. CASE EndFinal
  <2>1. /\ proc' = "done" /\ Write(NumIterations, TRUE)
        /\ UNCHANGED <<launches, it, left, updates, robot, obs, rows, step>>
    BY <1>15 DEF EndFinal
  <2>2. TypeOK'
    BY <1>1, <2>1, WriteTypes, IterationsAssumption DEF TypeOK, Stage
  <2>. QED BY <1>1, <2>1, <2>2 DEF TrajectoryInv
<1>16. CASE UNCHANGED vars
  <2>1. UNCHANGED <<proc, launches, it, left, updates, robot, obs, rows, step, files>>
    BY <1>16 DEF vars
  <2>2. TypeOK'
    BY <1>1, <2>1 DEF TypeOK
  <2>3. Trajectory => Trajectory'
    BY <2>1, TrajectoryKept
  <2>. QED BY <1>1, <2>1, <2>2, <2>3 DEF TrajectoryInv
<1>. QED
  BY <1>3, <1>4, <1>5, <1>6, <1>7, <1>8, <1>9, <1>11, <1>12, <1>13, <1>14, <1>15, <1>16
  DEF Next, Train

\* In every reachable state the storage holds what TrajectoryInv says.
THEOREM TrajectoryInvariance == Spec => []TrajectoryInv
<1>. QED BY TrajectoryInit, TrajectoryStep, PTL DEF Spec

\* No schedule of kills and resumptions takes a variable out of its type.
THEOREM TypeCorrect == Spec => []TypeOK
<1>1. TrajectoryInv => TypeOK
  BY DEF TrajectoryInv
<1>. QED BY <1>1, TrajectoryInvariance, PTL

\* For every rollout length, number of iterations and schedule of kills: a
\* policy is only ever updated on an unbroken trajectory of its own.
THEOREM LearnsFromTrajectory == Spec => []RolloutIsTrajectory
<1>1. TrajectoryInv => RolloutIsTrajectory
  <2>. SUFFICES ASSUME TrajectoryInv, proc = "update" PROVE RolloutIsTrajectory
    BY DEF RolloutIsTrajectory
  <2>1. step = NumSteps /\ Trajectory
    BY DEF TrajectoryInv
  <2>. QED BY <2>1 DEF RolloutIsTrajectory, Trajectory, Row
<1>. QED BY <1>1, TrajectoryInvariance, PTL
-----------------------------------------------------------------------------
(* Checkpoints.                                                            *)

\* A whole checkpoint that lacks at most gap of the updates made so far.
Backup(gap) == \E f \in DOMAIN files : files[f].whole /\ updates <= files[f].updates + gap

\* Before the first save of this process: it has made n updates.
FreshOrLoaded(n) ==
  \/ updates = n
  \/ \E f \in DOMAIN files : files[f].whole /\ updates = files[f].updates + n

\* The last save of this process was at the end of an iteration at most
\* SaveInterval before this one; n updates more have been made by now.
SavedAtInterval(n) ==
  \E j \in Nat :
    /\ j % SaveInterval = 0 /\ j < it /\ it <= j + SaveInterval
    /\ <<launches, j>> \in DOMAIN files
    /\ files[<<launches, j>>].whole
    /\ updates + j + 1 = files[<<launches, j>>].updates + it + n

Before == {"collect", "update", "finish"}  \* before this iteration's update
Since  == {"learnt", "saving"}             \* after it

Covered == updates <= SaveInterval \/ Backup(SaveInterval)

CheckpointInv ==
  /\ TypeOK
  /\ proc = "finish" => it = NumIterations
  /\ \A f \in DOMAIN files :
       /\ f[1] <= launches
       /\ f[1] = launches /\ proc \in Before \cup {"learnt"} => f[2] < it
       /\ f[1] = launches /\ proc = "saving" => f[2] <= it
  /\ proc = "saving" => it % SaveInterval = 0
  /\ proc \in Before => IF it = 0 THEN FreshOrLoaded(0) ELSE SavedAtInterval(0)
  /\ proc \in Since => IF it = 0 THEN FreshOrLoaded(1) ELSE SavedAtInterval(1)
  /\ proc \notin Before \cup Since => Covered

\* Multiples of the interval are an interval apart.
LEMMA NextMultiple ==
  ASSUME NEW j \in Nat, j % SaveInterval = 0
  PROVE  (j + SaveInterval) % SaveInterval = 0
<1>. SaveInterval \in Nat \ {0}
  BY SaveAssumption
<1>. DEFINE q == (j \div SaveInterval) + 1
<1>1. j = SaveInterval * (j \div SaveInterval) + (j % SaveInterval) /\ j \div SaveInterval \in Nat
  OBVIOUS
<1>2. j + SaveInterval = SaveInterval * q
  BY <1>1
<1>3. (SaveInterval * q) % SaveInterval = 0
  BY <1>1
<1>. QED BY <1>2, <1>3

\* The first iteration is one that saves.
LEMMA ZeroIsMultiple == 0 % SaveInterval = 0
BY SaveAssumption

\* What the invariant knows of the saves covers the updates in every state.
LEMMA CheckpointCovers == CheckpointInv => Covered
<1>. SUFFICES ASSUME CheckpointInv PROVE Covered
  OBVIOUS
<1>1. /\ SaveInterval \in Nat \ {0} /\ it \in Nat /\ updates \in Nat
      /\ \A f \in DOMAIN files : files[f].updates \in Nat
  BY SaveAssumption DEF CheckpointInv, TypeOK
<1>2. CASE proc \notin Before \cup Since
  BY <1>2 DEF CheckpointInv
<1>3. ASSUME NEW n \in {0, 1}, FreshOrLoaded(n) PROVE Covered
  BY <1>1, <1>3 DEF FreshOrLoaded, Covered, Backup
<1>4. ASSUME NEW n \in {0, 1}, SavedAtInterval(n) PROVE Covered
  BY <1>1, <1>4 DEF SavedAtInterval, Covered, Backup
<1>5. CASE proc \in Before \cup Since
  BY <1>3, <1>4, <1>5 DEF CheckpointInv
<1>. QED BY <1>2, <1>5

\* Nothing has been updated before the first launch.
LEMMA CheckpointInit == Init => CheckpointInv
<1>. SUFFICES ASSUME Init PROVE CheckpointInv
  OBVIOUS
<1>1. TypeOK
  BY TrajectoryInit DEF TrajectoryInv
<1>2. proc = "down" /\ updates = 0 /\ DOMAIN files = {}
  BY DEF Init
<1>. QED BY <1>1, <1>2, SaveAssumption DEF CheckpointInv, Covered, Before, Since

\* A checkpoint under a new name leaves every earlier one as it was.
LEMMA WriteKeeps ==
  ASSUME NEW n, NEW w, Write(n, w), <<launches, n>> \notin DOMAIN files
  PROVE  /\ DOMAIN files' = DOMAIN files \cup {<<launches, n>>}
         /\ \A f \in DOMAIN files : files'[f] = files[f]
BY DEF Write

\* A process that ends leaves its updates covered.
LEMMA CheckpointEnded ==
  ASSUME CheckpointInv, TypeOK', proc' \in {"down", "raised"},
         launches' >= launches, UNCHANGED <<updates, files>>
  PROVE  CheckpointInv'
<1>1. Covered'
  BY CheckpointCovers DEF Covered, Backup
<1>2. \A f \in DOMAIN files : f[1] <= launches /\ f[1] \in Nat
  BY DEF CheckpointInv, TypeOK
<1>3. \A f \in DOMAIN files' : f[1] <= launches'
  BY <1>2 DEF CheckpointInv, TypeOK
<1>. QED BY <1>1, <1>3 DEF CheckpointInv, Before, Since

\* A process that starts, with the updates of a whole checkpoint or none.
LEMMA CheckpointStarted ==
  ASSUME CheckpointInv, TypeOK', NEW n \in Nat, Started(n),
         n = 0 \/ \E f \in DOMAIN files : files[f].whole /\ files[f].updates = n
  PROVE  CheckpointInv'
<1>1. /\ launches' = launches + 1 /\ it' = 0 /\ updates' = n /\ files' = files
      /\ proc' = IF NumIterations = 0 THEN "finish" ELSE "collect"
  BY DEF Started
<1>2. \A f \in DOMAIN files : f[1] <= launches /\ f[1] \in Nat /\ files[f].updates \in Nat
  BY DEF CheckpointInv, TypeOK
<1>3. \A f \in DOMAIN files' : f[1] <= launches' /\ f[1] # launches'
  BY <1>1, <1>2 DEF CheckpointInv, TypeOK
<1>4. FreshOrLoaded(0)'
  BY <1>1, <1>2 DEF FreshOrLoaded
<1>. QED BY <1>1, <1>3, <1>4 DEF CheckpointInv, Before, Since

\* The steps that change neither the counts nor the files.
LEMMA CheckpointKept ==
  ASSUME CheckpointInv, TypeOK', UNCHANGED <<launches, it, updates, files>>,
         proc' = proc \/ (proc = "collect" /\ proc' = "update")
  PROVE  CheckpointInv'
<1>1. /\ FreshOrLoaded(0) => FreshOrLoaded(0)'
      /\ FreshOrLoaded(1) => FreshOrLoaded(1)'
      /\ Covered => Covered'
  BY DEF FreshOrLoaded, Covered, Backup
<1>2. /\ SavedAtInterval(0) => SavedAtInterval(0)'
      /\ SavedAtInterval(1) => SavedAtInterval(1)'
  BY DEF SavedAtInterval
<1>. QED BY <1>1, <1>2, Zenon DEF CheckpointInv, Before, Since

\* The end of an iteration, with or without a save.
LEMMA CheckpointNext ==
  ASSUME CheckpointInv, TypeOK', NextIteration, proc \in Since, SavedAtInterval(0)',
         \A f \in DOMAIN files' : f[1] <= launches /\ (f[1] = launches => f[2] <= it)
  PROVE  CheckpointInv'
<1>1. /\ it' = it + 1 /\ it \in Nat /\ launches' = launches
      /\ proc' = IF it + 1 = NumIterations THEN "finish" ELSE "collect"
      /\ \A f \in DOMAIN files' : f[2] \in Nat
  BY DEF NextIteration, LastIteration, CheckpointInv, TypeOK
<1>2. \A f \in DOMAIN files' : f[1] <= launches' /\ (f[1] = launches' => f[2] < it')
  BY <1>1
<1>. QED BY <1>1, <1>2 DEF CheckpointInv, Before, Since

\* Every step preserves the invariant of the checkpoints.
LEMMA CheckpointStep == CheckpointInv /\ TypeOK' /\ [Next]_vars => CheckpointInv'
<1>. SUFFICES ASSUME CheckpointInv, TypeOK', [Next]_vars PROVE CheckpointInv'
  OBVIOUS
<1>. USE DEF counts, world
<1>1. /\ TypeOK
      /\ SaveInterval \in Nat \ {0} /\ it \in Nat /\ updates \in Nat /\ launches \in Nat
      /\ \A f \in DOMAIN files : f[1] \in Nat /\ f[2] \in Nat /\ files[f].updates \in Nat
      /\ NumIterations \in Nat
  BY SaveAssumption, IterationsAssumption DEF CheckpointInv, TypeOK
<1>2. /\ proc = "finish" => it = NumIterations
      /\ \A f \in DOMAIN files :
           /\ f[1] <= launches
           /\ f[1] = launches /\ proc \in Before \cup {"learnt"} => f[2] < it
           /\ f[1] = launches /\ proc = "saving" => f[2] <= it
      /\ proc = "saving" => it % SaveInterval = 0
      /\ proc \in Before => IF it = 0 THEN FreshOrLoaded(0) ELSE SavedAtInterval(0)
      /\ proc \in Since => IF it = 0 THEN FreshOrLoaded(1) ELSE SavedAtInterval(1)
  BY DEF CheckpointInv
<1>3. CASE LaunchFresh
  BY <1>3, CheckpointStarted DEF LaunchFresh
<1>4. CASE LaunchResumed
  <2>. PICK f \in DOMAIN files : files[f].whole /\ Started(files[f].updates)
    BY <1>4 DEF LaunchResumed
  <2>. QED BY <1>1, CheckpointStarted
<1>5. CASE LaunchFails \/ Kill
  BY <1>1, <1>5, CheckpointEnded DEF LaunchFails, Kill
<1>6. CASE Collect
  <2>1. CASE step < NumSteps
    BY <1>6, <2>1, CheckpointKept DEF Collect, StepEnv
  <2>2. CASE ~(step < NumSteps)
    BY <1>1, <1>6, <2>2, CheckpointEnded DEF Collect
  <2>. QED BY <2>1, <2>2
<1>7. CASE ComputeReturns
  BY <1>7, CheckpointKept DEF ComputeReturns
<1>8. CASE Update
  <2>1. /\ proc = "update" /\ proc' = "learnt" /\ updates' = updates + 1
        /\ UNCHANGED <<launches, it, files>>
    BY <1>8 DEF Update
  <2>2. FreshOrLoaded(0) => FreshOrLoaded(1)'
    BY <1>1, <2>1 DEF FreshOrLoaded
  <2>3. SavedAtInterval(0) => SavedAtInterval(1)'
    <3>. SUFFICES ASSUME SavedAtInterval(0) PROVE SavedAtInterval(1)'
      OBVIOUS
    <3>. PICK j \in Nat :
           /\ j % SaveInterval = 0 /\ j < it /\ it <= j + SaveInterval
           /\ <<launches, j>> \in DOMAIN files
           /\ files[<<launches, j>>].whole
           /\ updates + j + 1 = files[<<launches, j>>].updates + it + 0
      BY DEF SavedAtInterval
    <3>1. updates' + j + 1 = files'[<<launches', j>>].updates + it' + 1
      BY <1>1, <2>1
    <3>. QED BY <2>1, <3>1 DEF SavedAtInterval
  <2>. QED BY <1>2, <2>1, <2>2, <2>3 DEF CheckpointInv, Before, Since
<1>9. CASE SkipSave
  <2>1. proc = "learnt" /\ ~(it % SaveInterval = 0) /\ NextIteration /\ files' = files
    BY <1>9 DEF SkipSave, Due
  <2>2. it # 0 /\ SavedAtInterval(1)
    BY <1>2, <2>1, ZeroIsMultiple DEF Since
  <2>3. SavedAtInterval(0)'
    <3>. PICK j \in Nat :
           /\ j % SaveInterval = 0 /\ j < it /\ it <= j + SaveInterval
           /\ <<launches, j>> \in DOMAIN files
           /\ files[<<launches, j>>].whole
           /\ updates + j + 1 = files[<<launches, j>>].updates + it + 1
      BY <2>2 DEF SavedAtInterval
    <3>1. it # j + SaveInterval
      BY <2>1, NextMultiple
    <3>2. it' = it + 1 /\ updates' = updates /\ launches' = launches
      BY <2>1 DEF NextIteration
    <3>3. j < it' /\ it' <= j + SaveInterval
      BY <1>1, <3>1, <3>2
    <3>4. updates' + j + 1 = files'[<<launches', j>>].updates + it' + 0
      BY <1>1, <2>1, <3>2
    <3>. QED BY <2>1, <3>2, <3>3, <3>4 DEF SavedAtInterval
  <2>4. \A f \in DOMAIN files' : f[1] <= launches /\ (f[1] = launches => f[2] <= it)
    BY <1>1, <1>2, <2>1
  <2>. QED BY <2>1, <2>3, <2>4, CheckpointNext DEF Since
<1>10. CASE BeginSave
  <2>1. /\ proc = "learnt" /\ it % SaveInterval = 0 /\ proc' = "saving" /\ Write(it, FALSE)
        /\ UNCHANGED <<launches, it, updates>>
    BY <1>10 DEF BeginSave, Due
  <2>2. <<launches, it>> \notin DOMAIN files
    BY <1>1, <1>2, <2>1
  <2>3. /\ DOMAIN files' = DOMAIN files \cup {<<launches, it>>}
        /\ \A f \in DOMAIN files : files'[f] = files[f]
    BY <2>1, <2>2, WriteKeeps
  <2>4. FreshOrLoaded(1) => FreshOrLoaded(1)'
    BY <2>1, <2>3 DEF FreshOrLoaded
  <2>5. SavedAtInterval(1) => SavedAtInterval(1)'
    BY <2>1, <2>3 DEF SavedAtInterval
  <2>6. \A f \in DOMAIN files' : f[1] <= launches' /\ (f[1] = launches' => f[2] <= it')
    BY <1>1, <1>2, <2>1, <2>3
  <2>. QED BY <1>2, <2>1, <2>4, <2>5, <2>6 DEF CheckpointInv, Before, Since
<1>11. CASE EndSave
  <2>1. /\ proc = "saving" /\ it % SaveInterval = 0 /\ Write(it, TRUE) /\ NextIteration
        /\ it' = it + 1 /\ launches' = launches /\ updates' = updates
    BY <1>2, <1>11 DEF EndSave, NextIteration
  <2>2. /\ DOMAIN files' = DOMAIN files \cup {<<launches, it>>}
        /\ files'[<<launches, it>>] = [updates |-> updates, whole |-> TRUE]
    BY <2>1 DEF Write
  <2>3. SavedAtInterval(0)'
    BY <1>1, <2>1, <2>2 DEF SavedAtInterval
  <2>4. \A f \in DOMAIN files' : f[1] <= launches /\ (f[1] = launches => f[2] <= it)
    BY <1>1, <1>2, <2>1, <2>2
  <2>. QED BY <2>1, <2>3, <2>4, CheckpointNext DEF Since
<1>12. CASE BeginFinal
  <2>1. /\ proc = "finish" /\ it = NumIterations /\ proc' = "finishing" /\ Write(it, FALSE)
        /\ UNCHANGED <<launches, it, updates>>
    BY <1>2, <1>12 DEF BeginFinal
  <2>2. <<launches, it>> \notin DOMAIN files
    BY <1>1, <1>2, <2>1 DEF Before
  <2>3. /\ DOMAIN files' = DOMAIN files \cup {<<launches, it>>}
        /\ \A f \in DOMAIN files : files'[f] = files[f]
    BY <2>1, <2>2, WriteKeeps
  <2>4. Covered'
    BY <2>1, <2>3, CheckpointCovers DEF Covered, Backup
  <2>5. \A f \in DOMAIN files' : f[1] <= launches'
    BY <1>1, <1>2, <2>1, <2>3
  <2>. QED BY <2>1, <2>4, <2>5 DEF CheckpointInv, Before, Since
<1>13. CASE EndFinal
  <2>1. /\ proc' = "done" /\ Write(NumIterations, TRUE) /\ UNCHANGED <<launches, it, updates>>
    BY <1>13 DEF EndFinal
  <2>2. /\ DOMAIN files' = DOMAIN files \cup {<<launches, NumIterations>>}
        /\ files'[<<launches, NumIterations>>] = [updates |-> updates, whole |-> TRUE]
    BY <2>1 DEF Write
  <2>3. Covered'
    BY <1>1, <2>1, <2>2 DEF Covered, Backup
  <2>4. \A f \in DOMAIN files' : f[1] <= launches'
    BY <1>1, <1>2, <2>1, <2>2
  <2>. QED BY <2>1, <2>3, <2>4 DEF CheckpointInv, Before, Since
<1>14. CASE UNCHANGED vars
  BY <1>14, CheckpointKept DEF vars
<1>. QED
  BY <1>3, <1>4, <1>5, <1>6, <1>7, <1>8, <1>9, <1>10, <1>11, <1>12, <1>13, <1>14
  DEF Next, Train

\* For every save_interval, number of iterations and schedule of kills and
\* resumptions: a crash loses at most SaveInterval updates.
THEOREM CrashLosesLittle == Spec => []BoundedLoss
<1>1. CheckpointInv => BoundedLoss
  <2>. SUFFICES ASSUME CheckpointInv PROVE BoundedLoss
    OBVIOUS
  <2>1. Covered /\ updates \in Nat /\ SaveInterval \in Nat
        /\ \A f \in DOMAIN files : files[f].updates \in Nat
    BY CheckpointCovers, SaveAssumption DEF CheckpointInv, TypeOK
  <2>. QED BY <2>1 DEF Covered, Backup, BoundedLoss
<1>2. TrajectoryInv => TypeOK
  BY DEF TrajectoryInv
<1>. QED BY <1>1, <1>2, TrajectoryInvariance, CheckpointInit, CheckpointStep, PTL DEF Spec
-----------------------------------------------------------------------------
(* Returns.  Gae is a recursive function: what it computes is shown by the *)
(* least and the greatest counterexample, for every length of the rollout. *)

Below == {ss \in Nat \X Nat : ss[1] < ss[2]}

\* Every set of naturals has a least element, every set of rows a last one.
LEMMA Least ==
  ASSUME NEW S \in SUBSET Nat, S # {}
  PROVE  \E x \in S : \A y \in S : x <= y
<1>1. IsWellFoundedOn(Below, Nat)
  BY NatLessThanWellFounded, Zenon DEF OpToRel, Below
<1>2. PICK x \in S : \A y \in S : ~(<<y, x>> \in Below)
  BY <1>1, WFMin
<1>3. ASSUME NEW y \in S PROVE x <= y
  <2>1. <<y, x>> \in Nat \X Nat /\ <<y, x>>[1] = y /\ <<y, x>>[2] = x
    OBVIOUS
  <2>2. ~(y < x)
    BY <1>2, <2>1 DEF Below
  <2>. QED BY <2>2
<1>. QED BY <1>3

\* A bounded nonempty set of naturals has a greatest element.
LEMMA Greatest ==
  ASSUME NEW S \in SUBSET Row, S # {}
  PROVE  \E x \in S : \A y \in S : y <= x
<1>. DEFINE T == {NumSteps - y : y \in S}
<1>1. T \in SUBSET Nat /\ T # {}
  <2>1. \A y \in Row : NumSteps - y \in Nat
    BY StepsAssumption DEF Row
  <2>. QED BY <2>1
<1>2. PICK t \in T : \A u \in T : t <= u
  BY <1>1, Least
<1>3. PICK x \in S : t = NumSteps - x
  BY <1>2
<1>4. ASSUME NEW y \in S PROVE y <= x
  <2>1. NumSteps - y \in T
    OBVIOUS
  <2>. QED BY <1>2, <1>3, <2>1, StepsAssumption DEF Row
<1>. QED BY <1>3, <1>4

\* Where row k starts; the runner's observation is the start of the next one.
Start(k) == IF k = NumSteps + 1 THEN obs ELSE rows[k].at

\* A full storage that holds a trajectory.
Full == step = NumSteps /\ Trajectory /\ TypeOK /\ obs = robot

\* From a row to the next one the episode stays, or it is the next episode.
LEMMA EpisodeMoves ==
  ASSUME Full, NEW k \in Row
  PROVE  /\ Start(k).ep \in Nat /\ Start(k + 1).ep \in Nat
         /\ Start(k + 1).ep = IF rows[k].done THEN Start(k).ep + 1 ELSE Start(k).ep
<1>. k \in 1..NumSteps /\ NumSteps \in Nat \ {0}
  BY StepsAssumption DEF Row
<1>1. /\ rows[k] \in StoredRow
      /\ rows[k].at \in Place /\ obs \in Place /\ rows[k].done \in BOOLEAN
  BY DEF Full, TypeOK, StoredRow
<1>2. /\ rows[k].reward = After(rows[k].at)
      /\ (IF k = NumSteps THEN obs ELSE rows[k + 1].at) =
           IF rows[k].done THEN Restart(rows[k].at) ELSE rows[k].reward
  BY DEF Full, Trajectory
<1>3. Start(k) = rows[k].at /\ Start(k + 1) = IF k = NumSteps THEN obs ELSE rows[k + 1].at
  BY DEF Start
<1>4. After(rows[k].at).ep = rows[k].at.ep /\ Restart(rows[k].at).ep = rows[k].at.ep + 1
  BY <1>1 DEF After, Restart, Place
<1>5. rows[k].at.ep \in Nat
  BY <1>1 DEF Place
<1>. QED BY <1>1, <1>2, <1>3, <1>4, <1>5

\* So a later row is never of an earlier episode.
LEMMA EpisodesAscend ==
  ASSUME Full, NEW k \in Row, NEW j \in k..(NumSteps + 1)
  PROVE  Start(k).ep <= Start(j).ep
<1>. k \in 1..NumSteps /\ NumSteps \in Nat \ {0}
  BY StepsAssumption DEF Row
<1>. DEFINE S == {i \in k..(NumSteps + 1) : ~(Start(k).ep <= Start(i).ep)}
<1>1. ASSUME j \in S PROVE FALSE
  <2>1. S \in SUBSET Nat /\ S # {}
    BY <1>1
  <2>2. PICK i \in S : \A y \in S : i <= y
    BY <2>1, Least
  <2>3. i # k /\ i \in k..(NumSteps + 1)
    BY EpisodeMoves
  <2>4. i - 1 \in k..(NumSteps + 1) /\ i - 1 \in Row /\ (i - 1) + 1 = i
    BY <2>3 DEF Row
  <2>5. i - 1 \notin S
    BY <2>2, <2>4
  <2>6. Start(k).ep <= Start(i - 1).ep
    BY <2>4, <2>5
  <2>7. Start(i - 1).ep <= Start(i).ep
    BY <2>4, EpisodeMoves
  <2>8. Start(k).ep \in Nat /\ Start(i - 1).ep \in Nat /\ Start(i).ep \in Nat
    BY <2>4, EpisodeMoves
  <2>. QED BY <2>2, <2>6, <2>7, <2>8
<1>. QED BY <1>1

\* The rows of row k's episode from k on, and what the return should gather.
Ahead(k) == {j \in k..NumSteps : rows[j].at.ep = rows[k].at.ep}
Gathers(k) ==
  {Reward(rows[j].reward) : j \in Ahead(k)} \cup {Value(rows[j].at) : j \in Ahead(k)}
    \cup {Value(m) : m \in {x \in {obs} : x.ep = rows[k].at.ep}}

\* At the end of an episode, or of the rollout, nothing lies ahead; the
\* runner's observation belongs to the row's episode unless that ended.
LEMMA AheadEnds ==
  ASSUME Full, NEW k \in Row, rows[k].done \/ k = NumSteps
  PROVE  /\ Ahead(k) = {k}
         /\ obs.ep = rows[k].at.ep <=> ~rows[k].done
<1>. k \in 1..NumSteps /\ NumSteps \in Nat \ {0}
  BY StepsAssumption DEF Row
<1>1. Start(k) = rows[k].at /\ Start(NumSteps + 1) = obs
  BY DEF Start
<1>2. CASE rows[k].done
  <2>1. ASSUME NEW j \in (k + 1)..(NumSteps + 1) PROVE Start(j).ep # Start(k).ep
    <3>1. Start(k + 1).ep = Start(k).ep + 1 /\ Start(k).ep \in Nat
      BY <1>2, EpisodeMoves
    <3>2. CASE k = NumSteps
      <4>1. j = k + 1
        BY <3>2
      <4>. QED BY <3>1, <4>1
    <3>3. CASE k # NumSteps
      <4>1. k + 1 \in Row
        BY <3>3 DEF Row
      <4>2. Start(k + 1).ep <= Start(j).ep
        BY <4>1, EpisodesAscend
      <4>3. Start(j).ep \in Nat
        <5>1. CASE j \in Row
          BY <5>1, EpisodeMoves
        <5>2. CASE j \notin Row
          <6>1. j = NumSteps + 1 /\ NumSteps \in Row /\ NumSteps + 1 = j
            BY <5>2 DEF Row
          <6>. QED BY <6>1, EpisodeMoves
        <5>. QED BY <5>1, <5>2
      <4>. QED BY <3>1, <4>2, <4>3
    <3>. QED BY <3>2, <3>3
  <2>2. ASSUME NEW j \in (k + 1)..NumSteps PROVE rows[j].at.ep # rows[k].at.ep
    <3>1. Start(j) = rows[j].at /\ j \in (k + 1)..(NumSteps + 1)
      BY DEF Start
    <3>. QED BY <1>1, <2>1, <3>1
  <2>3. obs.ep # rows[k].at.ep
    <3>1. NumSteps + 1 \in (k + 1)..(NumSteps + 1)
      OBVIOUS
    <3>. QED BY <1>1, <2>1, <3>1
  <2>. QED BY <1>2, <2>2, <2>3 DEF Ahead
<1>3. CASE k = NumSteps
  <2>1. Ahead(k) = {k}
    BY <1>3 DEF Ahead
  <2>2. rows[k].done \in BOOLEAN /\ Start(k).ep \in Nat
        /\ Start(k + 1).ep = IF rows[k].done THEN Start(k).ep + 1 ELSE Start(k).ep
    BY EpisodeMoves DEF Full, TypeOK
  <2>. QED BY <1>1, <1>3, <2>1, <2>2
<1>. QED BY <1>2, <1>3

\* What is gathered, row by row from the last one back: the loop's equation.
LEMMA GathersBack ==
  ASSUME Full, NEW k \in Row
  PROVE  Gathers(k) =
           Delta(k) \cup IF k = NumSteps \/ rows[k].done THEN {} ELSE Gathers(k + 1)
<1>. k \in 1..NumSteps /\ NumSteps \in Nat \ {0}
  BY StepsAssumption DEF Row
<1>0. rows[k].done \in BOOLEAN
  BY DEF Full, TypeOK
<1>1. CASE rows[k].done \/ k = NumSteps
  <2>1. /\ Ahead(k) = {k}
        /\ obs.ep = rows[k].at.ep <=> ~rows[k].done
    BY <1>1, AheadEnds
  <2>2. {Value(m) : m \in {x \in {obs} : x.ep = rows[k].at.ep}}
          = IF rows[k].done THEN {} ELSE {Value(obs)}
    BY <1>0, <2>1
  <2>3. Gathers(k) = {Reward(rows[k].reward), Value(rows[k].at)}
                       \cup (IF rows[k].done THEN {} ELSE {Value(obs)})
    BY <2>1, <2>2 DEF Gathers
  <2>. QED BY <1>1, <2>3 DEF Delta, NextValue
<1>2. CASE ~rows[k].done /\ k # NumSteps
  <2>1. k + 1 \in Row /\ k + 1 # NumSteps + 1 /\ k # NumSteps + 1
    BY <1>2 DEF Row
  <2>2. rows[k + 1].at.ep = rows[k].at.ep
    BY <1>2, <2>1, EpisodeMoves DEF Start
  <2>3. Ahead(k) = {k} \cup Ahead(k + 1)
    BY <1>2, <2>2 DEF Ahead
  <2>4. k + 1 \in Ahead(k + 1)
    BY <2>1 DEF Ahead, Row
  <2>5. Value(rows[k + 1].at) \in Gathers(k + 1)
    BY <2>4 DEF Gathers
  <2>6. Gathers(k) = {Reward(rows[k].reward), Value(rows[k].at)} \cup Gathers(k + 1)
    BY <2>2, <2>3 DEF Gathers
  <2>. QED BY <1>2, <2>5, <2>6 DEF Delta, NextValue
<1>. QED BY <1>0, <1>1, <1>2

\* Gae is the only function on the rows that obeys that equation.
LEMMA GaeGathers ==
  ASSUME Full
  PROVE  Gae = [k \in Row |-> Gathers(k)]
<1>. DEFINE Back(g) == [k \in Row |->
              Delta(k) \cup IF k = NumSteps \/ rows[k].done THEN {} ELSE g[k + 1]]
            E == [k \in Row |-> Gathers(k)]
            Solves(g) == g = Back(g)
<1>1. Solves(E)
  <2>1. ASSUME NEW k \in Row, k # NumSteps PROVE E[k + 1] = Gathers(k + 1)
    <3>1. k + 1 \in Row
      BY <2>1, StepsAssumption DEF Row
    <3>. QED BY <3>1
  <2>2. ASSUME NEW k \in Row PROVE Gathers(k) = Back(E)[k]
    BY <2>1, GathersBack
  <2>. QED BY <2>2, Zenon
<1>2. Gae = CHOOSE g : Solves(g)
  BY Zenon DEF Gae
<1>3. Solves(Gae)
  <2>. HIDE DEF Solves
  <2>. QED BY <1>1, <1>2, Zenon
<1>4. ASSUME NEW j \in Row, Gae[j] # E[j] PROVE FALSE
  <2>. DEFINE S == {k \in Row : Gae[k] # E[k]}
  <2>1. S \in SUBSET Row /\ S # {}
    BY <1>4
  <2>2. PICK k \in S : \A y \in S : y <= k
    BY <2>1, Greatest
  <2>3. Gae[k] = Delta(k) \cup IF k = NumSteps \/ rows[k].done THEN {} ELSE Gae[k + 1]
    BY <1>3, Zenon
  <2>4. E[k] = Delta(k) \cup IF k = NumSteps \/ rows[k].done THEN {} ELSE E[k + 1]
    BY <1>1, Zenon
  <2>5. k # NumSteps => Gae[k + 1] = E[k + 1]
    <3>. SUFFICES ASSUME k # NumSteps PROVE k + 1 \in Row /\ k + 1 \notin S
      BY Zenon
    <3>1. k \in Row /\ k \in Nat
      BY DEF Row
    <3>2. k + 1 \in Row /\ ~(k + 1 <= k)
      BY <3>1, StepsAssumption DEF Row
    <3>. QED BY <2>2, <3>2
  <2>. QED BY <2>3, <2>4, <2>5, Zenon
<1>5. Gae = [k \in Row |-> Gae[k]]
  BY <1>3, Zenon
<1>. QED BY <1>4, <1>5, Zenon

\* Only ComputeReturns leads to the update.
LEMMA UpdateFollowsReturns ==
  ASSUME [Next]_vars, proc' = "update"
  PROVE  UNCHANGED vars \/ (ComputeReturns /\ proc = "collect" /\ left = 0)
<1>1. CASE Train
  BY <1>1 DEF Train, Collect, StepEnv, ComputeReturns, Update, SkipSave, BeginSave,
              EndSave, BeginFinal, EndFinal, NextIteration, LastIteration
<1>. QED BY <1>1 DEF Next, LaunchFresh, LaunchResumed, LaunchFails, Kill, Started

\* A collected row gathers as Gae does it; no other step touches what is
\* gathered.
LEMMA ReturnsStep ==
  TrajectoryInv /\ ReturnsOfEpisode /\ [Next]_vars => ReturnsOfEpisode'
<1>. SUFFICES ASSUME TrajectoryInv, ReturnsOfEpisode, [Next]_vars, proc' = "update"
              PROVE  ReturnsOfEpisode'
  BY DEF ReturnsOfEpisode
<1>1. CASE UNCHANGED vars
  BY <1>1 DEF vars, world, counts, ReturnsOfEpisode, Reward, Value
<1>2. CASE ComputeReturns /\ proc = "collect" /\ left = 0
  <2>1. Full
    BY <1>2, StepsAssumption DEF TrajectoryInv, TypeOK, Full
  <2>2. gathered' = [k \in Row |-> Gathers(k)]
    BY <1>2, <2>1, GaeGathers DEF ComputeReturns
  <2>3. rows' = rows /\ obs' = obs
    BY <1>2 DEF ComputeReturns, world
  <2>4. \A k \in Row : gathered'[k] = Gathers(k)'
    BY <2>2, <2>3 DEF Gathers, Ahead, Reward, Value
  <2>. QED BY <2>4 DEF ReturnsOfEpisode, Gathers, Ahead
<1>. QED BY <1>1, <1>2, UpdateFollowsReturns

\* For every length of the rollout and wherever episodes end in it: a row's
\* return gathers its own episode from the row on, all of it and nothing else.
THEOREM ReturnsStayInEpisode == Spec => []ReturnsOfEpisode
<1>1. Init => ReturnsOfEpisode
  BY DEF Init, ReturnsOfEpisode
<1>. QED BY <1>1, ReturnsStep, TrajectoryInvariance, PTL DEF Spec
-----------------------------------------------------------------------------
(* Costs and their statistics.                                             *)

\* An entry of ep_infos.
Statistic == [ep : Nat, samples : SUBSET Place]

\* A row's cost is in the sums as long as its episode lasts.
Counted(k) ==
  /\ Owner(rows[k].cost) \in -1..robot.ep
  /\ rows[k].cost \in sums <=> Owner(rows[k].cost) = robot.ep
  /\ rows[k].done => rows[k].at.ep < robot.ep

\* The entry of step j has the cost of row k if that step ended its episode,
\* and only while the next one lasts.
Reported(k, j) ==
  /\ rows[j].done /\ rows[j].at.ep = Owner(rows[k].cost) => rows[k].cost \in epInfos[j].samples
  /\ rows[k].cost \in epInfos[j].samples => rows[j].cost.ep = Owner(rows[k].cost) + 1

\* The sums hold costs of the present episode, the last reset's statistics of
\* the one before, the entries of this iteration of earlier ones.
CostInv ==
  /\ sums \subseteq Place /\ log \in Statistic /\ epInfos \in Seq(Statistic)
  /\ \A c \in sums : Owner(c) = robot.ep
  /\ \A c \in log.samples : Owner(c) = robot.ep - 1
  /\ proc = "collect" =>
       /\ Len(epInfos) = step
       /\ \A j \in 1..step : \A c \in epInfos[j].samples : Owner(c) \in -1..(robot.ep - 1)
       /\ \A k \in 1..step : Counted(k)
       /\ \A k, j \in 1..step : Reported(k, j)

\* Nothing is counted or reported before the first step.
LEMMA CostInit == Init => CostInv
BY DEF Init, CostInv, NoLog, Statistic, Place

\* A new process counts from nothing.
LEMMA CostStarted ==
  ASSUME NEW n, Started(n)
  PROVE  CostInv'
<1>1. sums' = {} /\ log' = NoLog /\ epInfos' = <<>> /\ step' = 0
  BY DEF Started
<1>. QED BY <1>1 DEF CostInv, NoLog, Statistic, Place

\* One step: the new cost joins the sums, which an ended episode hands over
\* to the entry of this step.
LEMMA CostStepEnv ==
  ASSUME TypeOK, CostInv, obs = robot, proc = "collect", step < NumSteps, StepEnv
  PROVE  CostInv'
<1>. PICK done \in BOOLEAN, timeOut \in BOOLEAN, others \in BOOLEAN :
       LET reached == After(robot)
           now     == IF done THEN Restart(robot) ELSE reached
       IN  /\ timeOut => done
           /\ robot' = now /\ obs' = ObsOf(now)
           /\ sums' = SumsAfter(done, now) /\ log' = LogAfter(done, others, now)
           /\ rows' = [rows EXCEPT ![step + 1] =
                [at |-> obs, reward |-> reached, cost |-> CostState(now),
                 timeOut |-> timeOut, done |-> done, policy |-> updates]]
  BY Zenon DEF StepEnv
<1>. DEFINE i == step + 1
            all == sums \cup {robot'}
            ended == [ep |-> robot.ep, samples |-> all]
<1>1. /\ robot' = IF done THEN Restart(robot) ELSE After(robot)
      /\ sums' = IF done THEN {} ELSE all
      /\ log' = IF done THEN ended ELSE IF others THEN NoLog ELSE log
      /\ rows' = [rows EXCEPT ![i] =
           [at |-> robot, reward |-> After(robot), cost |-> robot',
            timeOut |-> timeOut, done |-> done, policy |-> updates]]
      /\ epInfos' = Append(epInfos, log') /\ step' = i /\ proc' = "collect"
  BY DEF SumsAfter, LogAfter, CostState, StepEnv
<1>2. /\ step \in Nat /\ i \in Row /\ DOMAIN rows = Row
      /\ \A k \in 1..i : k = i \/ (k \in 1..step /\ k \in Row /\ k # i)
  BY StepsAssumption DEF TypeOK, Row
<1>3. /\ robot.ep \in Nat /\ robot.age \in Nat /\ robot' \in Place
      /\ robot'.ep = IF done THEN robot.ep + 1 ELSE robot.ep
      /\ robot'.age = IF done THEN 0 ELSE robot.age + 1
  <2>1. robot \in Place
    BY DEF TypeOK
  <2>2. robot' = [ep |-> IF done THEN robot.ep + 1 ELSE robot.ep,
                  age |-> IF done THEN 0 ELSE robot.age + 1]
    BY <1>1, <2>1 DEF Restart, After, Place
  <2>. QED BY ONLY <2>1, <2>2 DEF Place
<1>4. Owner(robot') = robot.ep
  BY <1>3 DEF Owner
<1>5. /\ sums \subseteq Place /\ log \in Statistic /\ epInfos \in Seq(Statistic)
      /\ \A c \in sums : Owner(c) = robot.ep
      /\ \A c \in log.samples : Owner(c) = robot.ep - 1
      /\ Len(epInfos) = step
      /\ \A j \in 1..step : \A c \in epInfos[j].samples : Owner(c) \in -1..(robot.ep - 1)
      /\ \A k \in 1..step : Counted(k)
      /\ \A k, j \in 1..step : Reported(k, j)
  BY DEF CostInv
<1>6. all \subseteq Place /\ ended \in Statistic /\ ended.samples = all
      /\ \A c \in all : Owner(c) = robot.ep
  BY <1>3, <1>4, <1>5 DEF Statistic
<1>7. NoLog \in Statistic /\ NoLog.samples = {}
  BY DEF NoLog, Statistic
<1>. HIDE DEF all, ended
<1>8. /\ sums' \subseteq Place /\ log' \in Statistic
      /\ \A c \in sums' : Owner(c) = robot'.ep
      /\ \A c \in log'.samples : Owner(c) = robot'.ep - 1
      /\ done => log'.samples = all
  BY <1>1, <1>3, <1>5, <1>6, <1>7
<1>9. /\ epInfos' \in Seq(Statistic) /\ Len(epInfos') = i /\ epInfos'[i] = log'
      /\ \A j \in 1..step : epInfos'[j] = epInfos[j]
  BY <1>1, <1>5, <1>8
<1>10. /\ \A k \in 1..step : rows'[k] = rows[k]
       /\ rows'[i].at = robot /\ rows'[i].cost = robot' /\ rows'[i].done = done
  BY <1>1, <1>2
<1>11. ASSUME NEW j \in 1..i, NEW c \in epInfos'[j].samples
       PROVE  Owner(c) \in -1..(robot'.ep - 1)
  BY <1>2, <1>3, <1>5, <1>8, <1>9, <1>11
<1>. DEFINE CountedNow(k) ==
              /\ Owner(rows'[k].cost) \in -1..robot'.ep
              /\ rows'[k].cost \in sums' <=> Owner(rows'[k].cost) = robot'.ep
              /\ rows'[k].done => rows'[k].at.ep < robot'.ep
            ReportedNow(k, j) ==
              /\ rows'[j].done /\ rows'[j].at.ep = Owner(rows'[k].cost)
                   => rows'[k].cost \in epInfos'[j].samples
              /\ rows'[k].cost \in epInfos'[j].samples
                   => rows'[j].cost.ep = Owner(rows'[k].cost) + 1
<1>12. ASSUME NEW k \in 1..i
       PROVE  CountedNow(k)
  <2>1. CASE k = i
    BY <2>1, <1>1, <1>3, <1>4, <1>10 DEF all
  <2>2. CASE k \in 1..step
    <3>1. Counted(k) /\ rows'[k] = rows[k]
      BY <2>2, <1>5, <1>10
    <3>2. CASE done
      <4>1. rows[k].at.ep \in Nat
        BY <2>2, <1>2 DEF TypeOK, StoredRow, Place
      <4>2. /\ Owner(rows[k].cost) \in -1..robot.ep
            /\ rows[k].done => rows[k].at.ep < robot.ep
        BY <3>1 DEF Counted
      <4>3. sums' = {} /\ robot'.ep = robot.ep + 1
        BY <3>2, <1>1, <1>3
      <4>4. Owner(rows[k].cost) \in -1..robot'.ep /\ Owner(rows[k].cost) # robot'.ep
        BY <4>2, <4>3, <1>3
      <4>5. rows[k].done => rows[k].at.ep < robot'.ep
        BY <4>1, <4>2, <4>3, <1>3
      <4>. QED BY <3>1, <4>3, <4>4, <4>5
    <3>3. CASE ~done
      <4>1. rows[k].cost \in all <=> rows[k].cost \in sums \/ rows[k].cost = robot'
        BY DEF all
      <4>. QED BY <3>1, <3>3, <4>1, <1>1, <1>3, <1>4 DEF Counted
    <3>. QED BY <3>2, <3>3
  <2>. QED BY <2>1, <2>2, <1>2
<1>13. ASSUME NEW k \in 1..i, NEW j \in 1..i
       PROVE  ReportedNow(k, j)
  <2>. DEFINE c == rows'[k].cost
  <2>1. Owner(c) \in -1..robot.ep /\ (Owner(c) = robot.ep => c \in all)
    <3>1. CASE k = i
      BY <3>1, <1>3, <1>4, <1>10 DEF all
    <3>2. CASE k \in 1..step
      BY <3>2, <1>5, <1>10 DEF Counted, all
    <3>. QED BY <3>1, <3>2, <1>2
  <2>2. CASE j = i
    <3>1. c \in log'.samples => Owner(c) = robot'.ep - 1
      BY <1>8
    <3>2. done /\ robot.ep = Owner(c) => c \in log'.samples
      BY <2>1, <1>8
    <3>. QED BY <2>1, <2>2, <3>1, <3>2, <1>3, <1>9, <1>10
  <2>3. CASE j \in 1..step /\ k \in 1..step
    <3>1. Reported(k, j) /\ rows'[k] = rows[k] /\ rows'[j] = rows[j] /\ epInfos'[j] = epInfos[j]
      BY <2>3, <1>5, <1>9, <1>10
    <3>. QED BY <3>1 DEF Reported
  <2>4. CASE j \in 1..step /\ k = i
    <3>1. c = robot' /\ Owner(c) = robot.ep
      BY <2>4, <1>4, <1>10
    <3>2. c \notin epInfos'[j].samples
      BY <2>4, <3>1, <1>3, <1>5, <1>9
    <3>3. rows'[j].done => rows'[j].at.ep < robot.ep
      BY <2>4, <1>5, <1>10 DEF Counted
    <3>. QED BY <3>1, <3>2, <3>3, <1>3
  <2>. QED BY <2>2, <2>3, <2>4, <1>2
<1>14. /\ \A k \in 1..i : Counted(k)'
       /\ \A k, j \in 1..i : Reported(k, j)'
  BY <1>12, <1>13, Zenon DEF Counted, Reported, Owner
<1>15. /\ (\A c \in sums : Owner(c) = robot.ep)'
       /\ (\A c \in log.samples : Owner(c) = robot.ep - 1)'
       /\ (\A j \in 1..step : \A c \in epInfos[j].samples : Owner(c) \in -1..(robot.ep - 1))'
  BY <1>1, <1>8, <1>11, Zenon DEF Owner
<1>. HIDE DEF CountedNow, ReportedNow
<1>. QED BY <1>1, <1>8, <1>9, <1>14, <1>15, Zenon DEF CostInv

\* The steps that add no cost: the storage is cleared, and the entries with it
\* when the next iteration begins.
LEMMA CostKept ==
  ASSUME CostInv, UNCHANGED <<robot, rows, sums, log>>,
         epInfos' = epInfos \/ epInfos' = <<>>,
         proc' = "collect" => (proc = "collect" /\ UNCHANGED <<step, epInfos>>)
                                \/ (step' = 0 /\ epInfos' = <<>>)
  PROVE  CostInv'
<1>1. /\ sums' \subseteq Place /\ log' \in Statistic /\ epInfos' \in Seq(Statistic)
      /\ (\A c \in sums : Owner(c) = robot.ep)'
      /\ (\A c \in log.samples : Owner(c) = robot.ep - 1)'
  <2>1. sums' \subseteq Place /\ log' \in Statistic /\ epInfos' \in Seq(Statistic)
    <3>1. sums \subseteq Place /\ log \in Statistic /\ epInfos \in Seq(Statistic)
      BY Zenon DEF CostInv
    <3>2. sums' \subseteq Place /\ log' \in Statistic
      BY <3>1, Zenon
    <3>3. <<>> \in Seq(Statistic)
      OBVIOUS
    <3>4. epInfos' \in Seq(Statistic)
      BY <3>1, <3>3, Zenon
    <3>. QED BY <3>2, <3>4, Zenon
  <2>2. /\ (\A c \in sums : Owner(c) = robot.ep)'
        /\ (\A c \in log.samples : Owner(c) = robot.ep - 1)'
    BY Zenon DEF CostInv, Owner
  <2>. QED BY <2>1, <2>2
<1>2. CASE proc' # "collect"
  BY <1>1, <1>2 DEF CostInv
<1>3. CASE step' = 0 /\ epInfos' = <<>>
  BY <1>1, <1>3 DEF CostInv
<1>4. CASE proc = "collect" /\ UNCHANGED <<step, epInfos>>
  BY <1>1, <1>4 DEF CostInv, Counted, Reported, Owner
<1>. QED BY <1>2, <1>3, <1>4

\* Only a step of the environment adds costs.
LEMMA CostStep == TrajectoryInv /\ CostInv /\ [Next]_vars => CostInv'
<1>. SUFFICES ASSUME TrajectoryInv, CostInv, [Next]_vars PROVE CostInv'
  OBVIOUS
<1>. USE DEF counts, world
<1>1. TypeOK /\ obs = robot /\ (proc \in {"learnt", "saving"} => step = 0)
  BY DEF TrajectoryInv
<1>2. CASE LaunchFresh \/ LaunchResumed
  BY <1>2, CostStarted DEF LaunchFresh, LaunchResumed
<1>3. CASE LaunchFails \/ Kill
  BY <1>3, CostKept DEF LaunchFails, Kill
<1>4. CASE Collect
  BY <1>1, <1>4, CostStepEnv, CostKept DEF Collect
<1>5. CASE ComputeReturns \/ Update
  BY <1>5, CostKept DEF ComputeReturns, Update, Cleared
<1>6. CASE SkipSave \/ EndSave
  BY <1>1, <1>6, CostKept DEF SkipSave, EndSave, NextIteration
<1>7. CASE BeginSave \/ BeginFinal \/ EndFinal
  BY <1>7, CostKept DEF BeginSave, BeginFinal, EndFinal
<1>8. CASE UNCHANGED vars
  BY <1>8, CostKept DEF vars
<1>. QED BY <1>2, <1>3, <1>4, <1>5, <1>6, <1>7, <1>8 DEF Next, Train

\* So they are in every reachable state.
LEMMA CostInvariance == Spec => []CostInv
BY CostInit, CostStep, TrajectoryInvariance, PTL DEF Spec

\* For every length of the rollout and number of iterations, and wherever
\* episodes end: no cost is lost between the running sums and ep_infos, and
\* none is reported with an episode that is not its own, though an entry is
\* repeated until the next reset.
THEOREM CostsReportedWithEpisode == Spec => []CostsReported
<1>1. CostInv => CostsReported
  BY Zenon DEF CostInv, Counted, Reported, CostsReported
<1>. QED BY <1>1, CostInvariance, PTL
-----------------------------------------------------------------------------
(* What a statistic holds instead of the costs of its episode.             *)

Logs == {epInfos[j] : j \in 1..Len(epInfos)} \cup {log}

\* The states of episode e from its first step to its n-th.
Walked(e, n) == {[ep |-> e, age |-> a] : a \in 1..n}

\* A statistic lacks the state that ended its episode; it has the first state
\* of the next one.
Borrows(l) == \E n \in Nat : l.samples = Walked(l.ep, n) \cup {[ep |-> l.ep + 1, age |-> 0]}

StatisticsInv ==
  /\ sums = Walked(robot.ep, robot.age)
  /\ \A l \in Logs : l # NoLog => Borrows(l)

\* An episode grows by its next state.
LEMMA WalkedOn ==
  ASSUME NEW e \in Nat, NEW n \in Nat
  PROVE  /\ Walked(e, 0) = {}
         /\ Walked(e, n + 1) = Walked(e, n) \cup {[ep |-> e, age |-> n + 1]}
<1>1. 1..0 = {} /\ 1..(n + 1) = (1..n) \cup {n + 1}
  OBVIOUS
<1>. QED BY <1>1, Zenon DEF Walked

\* The state that ends the episode is missing in its statistic: the one
\* counted in its place is that after the reset.
LEMMA StatisticsStepEnv ==
  ASSUME TypeOK, CostInv, CostInv', StatisticsInv, StepEnv
  PROVE  StatisticsInv'
<1>. PICK done \in BOOLEAN, timeOut \in BOOLEAN, others \in BOOLEAN :
       LET reached == After(robot)
           now     == IF done THEN Restart(robot) ELSE reached
       IN  /\ timeOut => done
           /\ robot' = now /\ obs' = ObsOf(now)
           /\ sums' = SumsAfter(done, now) /\ log' = LogAfter(done, others, now)
           /\ rows' = [rows EXCEPT ![step + 1] =
                [at |-> obs, reward |-> reached, cost |-> CostState(now),
                 timeOut |-> timeOut, done |-> done, policy |-> updates]]
  BY Zenon DEF StepEnv
<1>1. /\ robot' = IF done THEN Restart(robot) ELSE After(robot)
      /\ sums' = IF done THEN {} ELSE sums \cup {robot'}
      /\ log' = IF done THEN [ep |-> robot.ep, samples |-> sums \cup {robot'}]
                ELSE IF others THEN NoLog ELSE log
      /\ epInfos' = Append(epInfos, log')
  BY DEF SumsAfter, LogAfter, CostState, StepEnv
<1>2. /\ robot.ep \in Nat /\ robot.age \in Nat
      /\ Restart(robot) = [ep |-> robot.ep + 1, age |-> 0]
      /\ After(robot) = [ep |-> robot.ep, age |-> robot.age + 1]
  BY DEF TypeOK, Place, Restart, After
<1>3. /\ sums = Walked(robot.ep, robot.age)
      /\ \A l \in Logs : l # NoLog => Borrows(l)
  BY DEF StatisticsInv
<1>4. Logs' \subseteq Logs \cup {log'}
  <2>1. epInfos \in Seq(Statistic) /\ log' \in Statistic
    BY DEF CostInv
  <2>2. \A j \in 1..Len(epInfos') : epInfos'[j] = log' \/ j \in 1..Len(epInfos)
    BY <1>1, <2>1
  <2>3. \A j \in 1..Len(epInfos) : epInfos'[j] = epInfos[j]
    BY <1>1, <2>1
  <2>. QED BY <2>2, <2>3 DEF Logs
<1>5. CASE done
  <2>1. robot' = [ep |-> robot.ep + 1, age |-> 0]
    BY <1>1, <1>2, <1>5, Zenon
  <2>2. robot'.ep = robot.ep + 1 /\ robot'.age = 0
    BY ONLY <2>1
  <2>3. Walked(robot.ep + 1, 0) = {}
    BY <1>2, WalkedOn
  <2>4. sums' = {}
    BY <1>1, <1>5, Zenon
  <2>5. sums' = Walked(robot'.ep, robot'.age)
    BY <2>2, <2>3, <2>4, Zenon
  <2>6. log' = [ep |-> robot.ep,
                samples |-> Walked(robot.ep, robot.age) \cup {[ep |-> robot.ep + 1, age |-> 0]}]
    BY <1>1, <1>3, <1>5, <2>1, Zenon
  <2>7. /\ log'.ep = robot.ep
        /\ log'.samples = Walked(robot.ep, robot.age) \cup {[ep |-> robot.ep + 1, age |-> 0]}
    BY ONLY <2>6
  <2>8. Borrows(log')
    BY <1>2, <2>7, Zenon DEF Borrows
  <2>. QED BY <1>3, <1>4, <2>5, <2>8 DEF StatisticsInv
<1>6. CASE ~done
  <2>1. robot' = [ep |-> robot.ep, age |-> robot.age + 1]
    BY <1>1, <1>2, <1>6, Zenon
  <2>2. robot'.ep = robot.ep /\ robot'.age = robot.age + 1
    BY ONLY <2>1
  <2>3. sums' = Walked(robot.ep, robot.age) \cup {[ep |-> robot.ep, age |-> robot.age + 1]}
    BY <1>1, <1>3, <1>6, <2>1, Zenon
  <2>4. Walked(robot.ep, robot.age + 1)
          = Walked(robot.ep, robot.age) \cup {[ep |-> robot.ep, age |-> robot.age + 1]}
    BY <1>2, WalkedOn
  <2>5. sums' = Walked(robot'.ep, robot'.age)
    BY <2>2, <2>3, <2>4, Zenon
  <2>6. log' = NoLog \/ log' \in Logs
    BY <1>1, <1>6 DEF Logs
  <2>. QED BY <1>3, <1>4, <2>5, <2>6, Zenon DEF StatisticsInv, Borrows, Walked
<1>. QED BY <1>5, <1>6

\* Forgetting the statistics of an iteration keeps the others as they are.
LEMMA StatisticsKept ==
  ASSUME StatisticsInv, UNCHANGED <<robot, sums, log>>, epInfos' = epInfos \/ epInfos' = <<>>
  PROVE  StatisticsInv'
<1>1. Logs' \subseteq Logs
  BY DEF Logs
<1>. QED BY <1>1, Zenon DEF StatisticsInv, Borrows, Walked, NoLog

\* Only a step of the environment changes what a statistic holds.
LEMMA StatisticsStep ==
  TypeOK /\ CostInv /\ CostInv' /\ StatisticsInv /\ [Next]_vars => StatisticsInv'
<1>. SUFFICES ASSUME TypeOK, CostInv, CostInv', StatisticsInv, [Next]_vars PROVE StatisticsInv'
  OBVIOUS
<1>. USE DEF counts, world
<1>1. ASSUME NEW n, Started(n) PROVE StatisticsInv'
  <2>1. sums' = {} /\ log' = NoLog /\ epInfos' = <<>> /\ robot' = Origin
    BY <1>1 DEF Started
  <2>2. Walked(robot'.ep, robot'.age) = {}
    BY <2>1, WalkedOn DEF Origin
  <2>. QED BY <2>1, <2>2 DEF StatisticsInv, Logs
<1>2. CASE LaunchFresh \/ LaunchResumed
  BY <1>1, <1>2 DEF LaunchFresh, LaunchResumed
<1>3. CASE LaunchFails \/ Kill \/ ComputeReturns \/ Update
  BY <1>3, StatisticsKept DEF LaunchFails, Kill, ComputeReturns, Update
<1>4. CASE Collect
  BY <1>4, StatisticsStepEnv, StatisticsKept DEF Collect
<1>5. CASE SkipSave \/ BeginSave \/ EndSave \/ BeginFinal \/ EndFinal
  BY <1>5, StatisticsKept DEF SkipSave, BeginSave, EndSave, BeginFinal, EndFinal, NextIteration
<1>6. CASE UNCHANGED vars
  BY <1>6, StatisticsKept DEF vars
<1>. QED BY <1>2, <1>3, <1>4, <1>5, <1>6 DEF Next, Train

\* The exact form of what np3o_costs finds: in every run, each statistic of
\* extras["log"] holds all costs of its episode but the one of the state that
\* ended it, and in its place the first one of the next episode
\* (cost_manager.compute() after env.step() has reset the robot).
THEOREM StatisticsBorrowOneCost == Spec => [](\A l \in Logs : l # NoLog => Borrows(l))
<1>1. Init => StatisticsInv
  <2>. SUFFICES ASSUME Init PROVE StatisticsInv
    OBVIOUS
  <2>1. Walked(robot.ep, robot.age) = {}
    BY WalkedOn DEF Init, Origin
  <2>. QED BY <2>1 DEF Init, StatisticsInv, Logs
<1>2. TrajectoryInv => TypeOK
  BY DEF TrajectoryInv
<1>3. StatisticsInv => (\A l \in Logs : l # NoLog => Borrows(l))
  BY DEF StatisticsInv
<1>. QED BY <1>1, <1>2, <1>3, StatisticsStep, TrajectoryInvariance, CostInvariance, PTL DEF Spec
-----------------------------------------------------------------------------
(* Training ends.  What ENABLED says of a step of the process is opaque to  *)
(* the prover, so it is a hypothesis.                                       *)

\* The process is at work.
Alive == proc \notin {"down", "raised", "done"}
\* It can take its next step.
GuardEnables == Alive => ENABLED <<Train>>_vars

\* In the loop of learn(); in its collection loop; past it.
InLoop     == proc \in {"collect", "update", "learnt", "saving"}
Collecting == proc = "collect"
Updating   == proc = "update"
Learnt     == proc = "learnt"
Saving     == proc = "saving"
Finish     == proc = "finish"
Finishing  == proc = "finishing"
Done       == proc = "done"
Closing    == Finish \/ Finishing \/ Done

\* The storage never overflows, and the loop ends with its last iteration.
LoopInv == proc # "raised" /\ (InLoop => it < NumIterations)

\* The assertion of add_transitions is never reached.
LEMMA LoopStep == TrajectoryInv /\ LoopInv /\ [Next]_vars => LoopInv'
<1>. SUFFICES ASSUME TrajectoryInv, LoopInv, [Next]_vars PROVE LoopInv'
  OBVIOUS
<1>. USE DEF LoopInv, InLoop, counts, world
<1>1. /\ it \in Nat /\ left \in Nat /\ step \in Nat /\ NumSteps \in Nat /\ NumIterations \in Nat
      /\ proc = "collect" => step + left = NumSteps
  BY StepsAssumption, IterationsAssumption DEF TrajectoryInv, TypeOK
<1>2. ASSUME NEW n, Started(n) PROVE LoopInv'
  BY <1>1, <1>2 DEF Started
<1>3. CASE LaunchFresh \/ LaunchResumed
  BY <1>2, <1>3 DEF LaunchFresh, LaunchResumed
<1>4. CASE LaunchFails \/ Kill
  BY <1>4 DEF LaunchFails, Kill
<1>5. CASE Collect
  BY <1>1, <1>5 DEF Collect, StepEnv
<1>6. CASE ComputeReturns \/ Update \/ BeginSave \/ BeginFinal \/ EndFinal
  BY <1>6 DEF ComputeReturns, Update, BeginSave, BeginFinal, EndFinal
<1>7. CASE SkipSave \/ EndSave
  <2>1. InLoop /\ it' = it + 1
        /\ proc' = IF it + 1 = NumIterations THEN "finish" ELSE "collect"
    BY <1>7, Zenon DEF SkipSave, EndSave, NextIteration, LastIteration
  <2>. QED BY <1>1, <2>1
<1>8. CASE UNCHANGED vars
  BY <1>8 DEF vars
<1>. HIDE DEF LoopInv, InLoop, counts, world
<1>. QED BY <1>3, <1>4, <1>5, <1>6, <1>7, <1>8 DEF Next, Train

\* So it is in every reachable state.
LEMMA LoopInvariance == Spec => []LoopInv
<1>1. Init => LoopInv
  BY DEF Init, LoopInv, InLoop
<1>. QED BY <1>1, LoopStep, TrajectoryInvariance, PTL DEF Spec

Good == TrajectoryInv /\ LoopInv
\* Nobody kills it.
Lives == proc # "down"

\* n steps have been collected at least; i iterations have been completed.
Collected(n) == Collecting /\ step >= n
Completed(i) == InLoop /\ it >= i

\* What any step leaves or moves on, while nobody kills the process.
LEMMA TrainingSteps ==
  ASSUME Good, Good', Lives', [Next]_vars, NEW n \in Nat
  PROVE  /\ Collected(n) => Collected(n)' \/ Updating'
         /\ Collecting => Collecting' \/ Updating'
         /\ Updating => Updating' \/ Learnt'
         /\ Learnt => Learnt' \/ Saving' \/ Collecting' \/ Finish'
         /\ Saving => Saving' \/ Collecting' \/ Finish'
         /\ Finish => Finish' \/ Finishing'
         /\ Finishing => Finishing' \/ Done'
         /\ Completed(n) => Completed(n)' \/ Finish'
<1>. USE DEF Collected, Completed, Collecting, Updating, Learnt, Saving, Finish, Finishing, Done,
             InLoop, Lives, counts, world
<1>1. /\ it \in Nat /\ step \in Nat /\ proc # "raised" /\ proc' # "raised"
      /\ NumSteps \in Nat /\ NumIterations \in Nat
  BY StepsAssumption, IterationsAssumption DEF Good, TrajectoryInv, TypeOK, LoopInv
<1>2. CASE LaunchFresh \/ LaunchResumed
  BY <1>1, <1>2 DEF LaunchFresh, LaunchResumed, CanLaunch
<1>3. CASE LaunchFails \/ Kill
  BY <1>3 DEF LaunchFails, Kill
<1>4. CASE Collect
  BY <1>1, <1>4 DEF Collect, StepEnv
<1>5. CASE ComputeReturns
  BY <1>1, <1>5 DEF ComputeReturns
<1>6. CASE Update
  BY <1>1, <1>6 DEF Update
<1>7. CASE BeginSave \/ BeginFinal \/ EndFinal
  BY <1>1, <1>7 DEF BeginSave, BeginFinal, EndFinal
<1>8. CASE SkipSave \/ EndSave
  <2>1. /\ proc \in {"learnt", "saving"} /\ proc' \in {"finish", "collect"}
        /\ it' = it + 1
    BY <1>8, Zenon DEF SkipSave, EndSave, NextIteration
  <2>. QED BY <1>1, <2>1
<1>9. CASE UNCHANGED vars
  BY <1>9 DEF vars
<1>. HIDE DEF Collected, Completed, Collecting, Updating, Learnt, Saving, Finish, Finishing, Done,
             InLoop, Lives, counts, world
<1>. QED BY <1>2, <1>3, <1>4, <1>5, <1>6, <1>7, <1>8, <1>9 DEF Next, Train

\* What a step of the process does.
LEMMA TrainingMoves ==
  ASSUME Good, Good', <<Train>>_vars, NEW n \in Nat, NEW m \in Nat, m = n + 1
  PROVE  /\ Collected(n) => Collected(m)' \/ Updating'
         /\ Updating => Learnt'
         /\ Learnt /\ Completed(n) => Saving' \/ Completed(m)' \/ Finish'
         /\ Saving /\ Completed(n) => Completed(m)' \/ Finish'
         /\ Finish => Finishing'
         /\ Finishing => Done'
<1>. USE DEF Collected, Completed, Collecting, Updating, Learnt, Saving, Finish, Finishing, Done,
             InLoop, counts, world
<1>1. /\ it \in Nat /\ step \in Nat /\ proc # "raised" /\ proc' # "raised"
      /\ NumSteps \in Nat /\ NumIterations \in Nat
  BY StepsAssumption, IterationsAssumption DEF Good, TrajectoryInv, TypeOK, LoopInv
<1>2. CASE Collect
  BY <1>1, <1>2 DEF Collect, StepEnv
<1>3. CASE ComputeReturns
  BY <1>1, <1>3 DEF ComputeReturns
<1>4. CASE Update
  BY <1>1, <1>4 DEF Update
<1>5. CASE BeginSave \/ BeginFinal \/ EndFinal
  BY <1>1, <1>5 DEF BeginSave, BeginFinal, EndFinal
<1>6. CASE SkipSave \/ EndSave
  <2>1. /\ proc \in {"learnt", "saving"} /\ proc' \in {"finish", "collect"}
        /\ it' = it + 1
    BY <1>6, Zenon DEF SkipSave, EndSave, NextIteration
  <2>. QED BY <1>1, <2>1
<1>. HIDE DEF Collected, Completed, Collecting, Updating, Learnt, Saving, Finish, Finishing, Done,
             InLoop, counts, world
<1>. QED BY <1>2, <1>3, <1>4, <1>5, <1>6 DEF Train

\* A process that lives executes.
Working == [][Next]_vars /\ WF_vars(Train) /\ []Good /\ []GuardEnables /\ []Lives

\* From n collected steps on it gets to m, unless the rollout ends before.
Reaches(n, m) == Working => (Collected(n) ~> Collected(m) \/ Updating)

\* It collects one more.
LEMMA CollectsOne ==
  ASSUME NEW n \in Nat, NEW m \in Nat, m = n + 1
  PROVE  Reaches(n, m)
<1>1. Collected(n) /\ GuardEnables => ENABLED <<Train>>_vars
  BY DEF GuardEnables, Alive, Collected, Collecting
<1>2. Good /\ Good' /\ Lives' /\ [Next]_vars => (Collected(n) => Collected(n)' \/ Updating')
  BY TrainingSteps
<1>3. Good /\ Good' /\ <<Train>>_vars => (Collected(n) => Collected(m)' \/ Updating')
  BY TrainingMoves
<1>. QED BY <1>1, <1>2, <1>3, PTL DEF Working, Reaches

\* It collects n more, wherever it stands.
Collects(n) == \A i, j \in Nat : j = i + n => Reaches(i, j)

\* Collecting m and then n is collecting m + n.
LEMMA CollectsAdd ==
  ASSUME NEW m \in Nat, NEW n \in Nat, NEW k \in Nat, k = m + n
  PROVE  Collects(m) /\ Collects(n) => Collects(k)
<1>1. ASSUME NEW i \in Nat, NEW a \in Nat, NEW j \in Nat
      PROVE  Reaches(i, a) /\ Reaches(a, j) => Reaches(i, j)
  BY PTL DEF Reaches
<1>2. ASSUME NEW i \in Nat, NEW j \in Nat, j = i + k
      PROVE  i + m \in Nat /\ j = (i + m) + n
  BY <1>2
<1>. QED BY <1>1, <1>2 DEF Collects

\* A thousand steps, by doubling (induction over a temporal formula is not to
\* be had).
LEMMA CollectsFar == Collects(1024)
<1>1. Collects(1)
  BY CollectsOne DEF Collects
<1>2. Collects(2)
  BY <1>1, CollectsAdd, 1 + 1 = 2
<1>3. Collects(4)
  BY <1>2, CollectsAdd, 2 + 2 = 4
<1>4. Collects(8)
  BY <1>3, CollectsAdd, 4 + 4 = 8
<1>5. Collects(16)
  BY <1>4, CollectsAdd, 8 + 8 = 16
<1>6. Collects(32)
  BY <1>5, CollectsAdd, 16 + 16 = 32
<1>7. Collects(64)
  BY <1>6, CollectsAdd, 32 + 32 = 64
<1>8. Collects(128)
  BY <1>7, CollectsAdd, 64 + 64 = 128
<1>9. Collects(256)
  BY <1>8, CollectsAdd, 128 + 128 = 256
<1>10. Collects(512)
  BY <1>9, CollectsAdd, 256 + 256 = 512
<1>. QED BY <1>10, CollectsAdd, 512 + 512 = 1024

\* The configurations have rollouts of 25 steps and 30000 iterations at most.
LengthsConfigured == NumSteps < 1024 /\ NumIterations <= 65536

\* So the rollout ends, and the update begins.
LEMMA RolloutsEnd ==
  ASSUME LengthsConfigured
  PROVE  Working => (Collecting ~> Updating)
<1>1. PICK z \in Nat, last \in Nat : z = 0 /\ last = z + 1024
  OBVIOUS
<1>2. Reaches(z, last)
  BY <1>1, CollectsFar, 1024 \in Nat DEF Collects
<1>3. Good /\ Collecting => Collected(z)
  BY <1>1 DEF Good, TrajectoryInv, TypeOK, Collected
<1>4. Good => ~Collected(last)
  BY <1>1, StepsAssumption
  DEF Good, TrajectoryInv, TypeOK, Collected, Collecting, LengthsConfigured
<1>. QED BY <1>2, <1>3, <1>4, PTL DEF Reaches, Working

\* From i completed iterations on the loop gets to j, or it ends.
Advances(i, j) == Working => (Completed(i) ~> Completed(j) \/ Finish)

\* It completes one more: collects, updates, and saves where a save is due.
LEMMA CompletesOne ==
  ASSUME LengthsConfigured, NEW i \in Nat, NEW j \in Nat, j = i + 1
  PROVE  Advances(i, j)
<1>1. /\ Updating /\ GuardEnables => ENABLED <<Train>>_vars
      /\ Learnt /\ GuardEnables => ENABLED <<Train>>_vars
      /\ Saving /\ GuardEnables => ENABLED <<Train>>_vars
  BY DEF GuardEnables, Alive, Updating, Learnt, Saving
<1>2. Good /\ Good' /\ Lives' /\ [Next]_vars =>
        /\ Collecting => Collecting' \/ Updating'
        /\ Updating => Updating' \/ Learnt'
        /\ Learnt => Learnt' \/ Saving' \/ Collecting' \/ Finish'
        /\ Saving => Saving' \/ Collecting' \/ Finish'
        /\ Completed(i) => Completed(i)' \/ Finish'
  BY TrainingSteps
<1>3. Good /\ Good' /\ <<Train>>_vars =>
        /\ Updating => Learnt'
        /\ Learnt /\ Completed(i) => Saving' \/ Completed(j)' \/ Finish'
        /\ Saving /\ Completed(i) => Completed(j)' \/ Finish'
  BY TrainingMoves
<1>4. /\ Completed(i) => Collecting \/ Updating \/ Learnt \/ Saving
      /\ Completed(i) => ~Finish
      /\ Collecting => ~Updating /\ ~Learnt /\ ~Saving /\ ~Finish
      /\ Updating => ~Learnt /\ ~Saving /\ ~Finish
      /\ Learnt => ~Saving /\ ~Finish
      /\ Saving => ~Finish
  BY DEF Completed, InLoop, Collecting, Updating, Learnt, Saving, Finish
<1>5. Good /\ Good' /\ Lives' /\ [Next]_vars =>
        /\ Learnt /\ Completed(i) =>
             (Learnt /\ Completed(i))' \/ (Saving /\ Completed(i))' \/ Completed(j)' \/ Finish'
        /\ Saving /\ Completed(i) => (Saving /\ Completed(i))' \/ Completed(j)' \/ Finish'
  <2>. SUFFICES ASSUME Good, Good', Lives', [Next]_vars
                PROVE  /\ Learnt /\ Completed(i) =>
                            \/ (Learnt /\ Completed(i))' \/ (Saving /\ Completed(i))'
                            \/ Completed(j)' \/ Finish'
                       /\ Saving /\ Completed(i) =>
                            \/ (Saving /\ Completed(i))' \/ Completed(j)' \/ Finish'
    OBVIOUS
  <2>1. CASE <<Train>>_vars
    BY <1>2, <1>3, <2>1
  <2>2. CASE UNCHANGED vars
    BY <2>2 DEF vars, counts, Learnt, Saving, Completed, InLoop
  <2>3. CASE LaunchFresh \/ LaunchResumed \/ LaunchFails \/ Kill
    BY <2>3 DEF LaunchFresh, LaunchResumed, LaunchFails, Kill, CanLaunch, Lives, Learnt, Saving
  <2>. QED BY <2>1, <2>2, <2>3 DEF Next
<1>6. Working => (Collecting ~> Updating)
  BY RolloutsEnd
<1>7. Working => (Collecting /\ Completed(i) ~> Updating /\ Completed(i))
  BY <1>2, <1>4, <1>6, PTL DEF Working
<1>8. Working => (Updating /\ Completed(i) ~> Learnt /\ Completed(i))
  BY <1>1, <1>2, <1>3, <1>4, PTL DEF Working
<1>9. Working => (Saving /\ Completed(i) ~> Completed(j) \/ Finish)
  BY <1>1, <1>3, <1>5, PTL DEF Working
<1>10. Working => (Learnt /\ Completed(i) ~> (Saving /\ Completed(i)) \/ Completed(j) \/ Finish)
  BY <1>1, <1>2, <1>3, <1>5, PTL DEF Working
<1>. QED BY <1>4, <1>7, <1>8, <1>9, <1>10, PTL DEF Advances

\* It completes n more, wherever it stands.
Completes(n) == \A i, j \in Nat : j = i + n => Advances(i, j)

\* Completing m and then n is completing m + n.
LEMMA CompletesAdd ==
  ASSUME NEW m \in Nat, NEW n \in Nat, NEW k \in Nat, k = m + n
  PROVE  Completes(m) /\ Completes(n) => Completes(k)
<1>1. ASSUME NEW i \in Nat, NEW a \in Nat, NEW j \in Nat
      PROVE  Advances(i, a) /\ Advances(a, j) => Advances(i, j)
  BY PTL DEF Advances
<1>2. ASSUME NEW i \in Nat, NEW j \in Nat, j = i + k
      PROVE  i + m \in Nat /\ j = (i + m) + n
  BY <1>2
<1>. QED BY <1>1, <1>2 DEF Completes

\* Sixty-five thousand iterations.
LEMMA CompletesFar ==
  ASSUME LengthsConfigured
  PROVE  Completes(65536)
<1>1. Completes(1)
  BY CompletesOne DEF Completes
<1>2. Completes(2)
  BY <1>1, CompletesAdd, 1 + 1 = 2
<1>3. Completes(4)
  BY <1>2, CompletesAdd, 2 + 2 = 4
<1>4. Completes(8)
  BY <1>3, CompletesAdd, 4 + 4 = 8
<1>5. Completes(16)
  BY <1>4, CompletesAdd, 8 + 8 = 16
<1>6. Completes(32)
  BY <1>5, CompletesAdd, 16 + 16 = 32
<1>7. Completes(64)
  BY <1>6, CompletesAdd, 32 + 32 = 64
<1>8. Completes(128)
  BY <1>7, CompletesAdd, 64 + 64 = 128
<1>9. Completes(256)
  BY <1>8, CompletesAdd, 128 + 128 = 256
<1>10. Completes(512)
  BY <1>9, CompletesAdd, 256 + 256 = 512
<1>11. Completes(1024)
  BY <1>10, CompletesAdd, 512 + 512 = 1024
<1>12. Completes(2048)
  BY <1>11, CompletesAdd, 1024 + 1024 = 2048
<1>13. Completes(4096)
  BY <1>12, CompletesAdd, 2048 + 2048 = 4096
<1>14. Completes(8192)
  BY <1>13, CompletesAdd, 4096 + 4096 = 8192
<1>15. Completes(16384)
  BY <1>14, CompletesAdd, 8192 + 8192 = 16384
<1>16. Completes(32768)
  BY <1>15, CompletesAdd, 16384 + 16384 = 32768
<1>. QED BY <1>16, CompletesAdd, 32768 + 32768 = 65536

\* A process that nobody kills from some time on gets through all iterations
\* and writes the last checkpoint, for all rollouts, save intervals and
\* numbers of iterations of that range, whatever kills and resumptions came
\* before: the storage never overflows and no step of the loop is left out.
THEOREM TrainingIsCompleted ==
  ASSUME LengthsConfigured
  PROVE  FairSpec /\ []GuardEnables => TrainingEnds
<1>1. PICK z \in Nat, last \in Nat : z = 0 /\ last = z + 65536
  OBVIOUS
<1>2. Advances(z, last)
  BY <1>1, CompletesFar, 65536 \in Nat DEF Completes
<1>3. Good /\ InLoop => Completed(z)
  BY <1>1 DEF Good, TrajectoryInv, TypeOK, Completed
<1>4. Good => ~Completed(last)
  BY <1>1, IterationsAssumption DEF Good, TrajectoryInv, TypeOK, LoopInv, Completed, LengthsConfigured
<1>5. /\ Finish /\ GuardEnables => ENABLED <<Train>>_vars
      /\ Finishing /\ GuardEnables => ENABLED <<Train>>_vars
  BY DEF GuardEnables, Alive, Finish, Finishing
<1>6. Good /\ Good' /\ Lives' /\ [Next]_vars =>
        /\ Finish => Finish' \/ Finishing'
        /\ Finishing => Finishing' \/ Done'
  BY TrainingSteps, 0 \in Nat
<1>7. Good /\ Good' /\ <<Train>>_vars => /\ Finish => Finishing'
                                         /\ Finishing => Done'
  BY <1>1, TrainingMoves, 0 + 1 = 1, 0 \in Nat, 1 \in Nat
<1>8. Good /\ Lives => InLoop \/ Finish \/ Finishing \/ Done
  BY DEF Good, TrajectoryInv, TypeOK, Stage, LoopInv, Lives, InLoop, Finish, Finishing, Done
<1>9. /\ Lives <=> proc # "down"
      /\ Done <=> proc = "done"
  BY DEF Lives, Done
<1>10. TrajectoryInv /\ LoopInv => Good
  BY DEF Good
<1>11. Working => <>Done
  <2>1. Working => (InLoop ~> Finish)
    BY <1>2, <1>3, <1>4, PTL DEF Advances, Working
  <2>2. Working => (Finish ~> Finishing)
    BY <1>5, <1>6, <1>7, PTL DEF Working
  <2>3. Working => (Finishing ~> Done)
    BY <1>5, <1>6, <1>7, PTL DEF Working
  <2>. QED BY <1>8, <2>1, <2>2, <2>3, PTL DEF Working
<1>12. FairSpec /\ []GuardEnables /\ <>[]Lives => <>Working
  BY <1>10, TrajectoryInvariance, LoopInvariance, PTL DEF FairSpec, Spec, Working
<1>. QED BY <1>9, <1>11, <1>12, PTL DEF TrainingEnds
=============================================================================

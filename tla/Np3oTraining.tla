---------------------------- MODULE Np3oTraining ----------------------------
(***************************************************************************)
(* NP3O training (train.py, OnConstraintPolicyRunner.learn): the rollout   *)
(* through the environment wrapper and its cost manager, the storage, the  *)
(* generalised advantages, the update of the policy and the checkpoints of *)
(* a process that may be killed at any moment and launched again.          *)
(*                                                                         *)
(* One environment is one column of every tensor; the columns only meet in *)
(* means that are abstracted.  A number is abstracted to where it comes    *)
(* from: an observation, reward, cost or value to the state of the robot   *)
(* it is about (episode and age), a return to the set of the rewards and   *)
(* values summed in it, a policy to the number of updates it has had.      *)
(* Whether a time-out has bootstrapped the reward and cost of a row is     *)
(* kept with the row.                                                      *)
(* The environment resets a finished episode inside step(), as Isaac Lab's *)
(* manager-based environments do (not part of this repository).            *)
(***************************************************************************)
EXTENDS Integers, Sequences

CONSTANTS
  NumSteps,       \* num_steps_per_env
  NumIterations,  \* max_iterations
  SaveInterval,   \* save_interval
  MaxLaunches     \* bound on the processes started one after the other

ASSUME StepsAssumption == NumSteps \in Nat \ {0}
ASSUME IterationsAssumption == NumIterations \in Nat
ASSUME SaveAssumption == SaveInterval \in Nat \ {0}
ASSUME LaunchesAssumption == MaxLaunches \in Nat

VARIABLES
  proc,     \* what the process is doing; "down": there is none, "raised": it
            \* ended with an exception
  launches, \* processes started so far; each has its own log_dir
  it,       \* the iteration of learn()
  left,     \* steps left in this iteration's collection loop
  updates,  \* updates the policy has had, those before a checkpoint included
  robot,    \* state of the robot
  obs,      \* state of the robot the runner's obs and critic_obs show
  rows,     \* the storage's tensors
  step,     \* storage.step
  gathered, \* what storage.returns sums, per row
  sums,     \* states whose cost is in _episode_sums
  log,      \* extras["log"]: the cost statistics of the last reset
  epInfos,  \* ep_infos, whose entries log() averages at the end of the iteration
  files     \* checkpoints on disk

world   == <<robot, obs, rows, step, sums, log, epInfos>>
counts  == <<it, left, updates>>
vars    == <<proc, launches, counts, world, gathered, files>>

Row     == 1..NumSteps
\* A state of the robot: the episode it belongs to and its step in it.
Place   == [ep : Nat, age : Nat]
Origin  == [ep |-> 0, age |-> 0]
Blank   == [at |-> Origin, reward |-> Origin, cost |-> Origin, timeOut |-> FALSE,
            done |-> FALSE, policy |-> 0]
\* Statistics that hold nothing of this robot.
NoLog   == [ep |-> 0, samples |-> {}]
-----------------------------------------------------------------------------
(* Processes. *)

Init ==
  /\ proc = "down" /\ launches = 0
  /\ it = 0 /\ left = 0 /\ updates = 0
  /\ robot = Origin /\ obs = Origin
  /\ rows = [k \in Row |-> Blank] /\ step = 0
  /\ gathered = [k \in Row |-> {}]
  /\ sums = {} /\ log = NoLog /\ epInfos = <<>>
  /\ files = <<>>

\* A new process: new environment, wrapper, storage and log_dir, the loop of
\* learn() from iteration 0 whatever was loaded.
Started(alreadyHad) ==
  /\ launches' = launches + 1
  /\ it' = 0 /\ updates' = alreadyHad
  /\ left' = NumSteps
  /\ proc' = IF NumIterations = 0 THEN "finish" ELSE "collect"
  /\ robot' = Origin /\ obs' = Origin
  /\ rows' = [k \in Row |-> Blank] /\ step' = 0
  /\ gathered' = [k \in Row |-> {}]
  /\ sums' = {} /\ log' = NoLog /\ epInfos' = <<>>
  /\ UNCHANGED files

CanLaunch == proc \in {"down", "raised", "done"} /\ launches < MaxLaunches

LaunchFresh == CanLaunch /\ Started(0)

\* --resume with a checkpoint of any earlier run.
LaunchResumed ==
  /\ CanLaunch
  /\ \E f \in DOMAIN files : files[f].whole /\ Started(files[f].updates)

\* torch.load fails on a file whose writer was killed.
LaunchFails ==
  /\ CanLaunch
  /\ \E f \in DOMAIN files : ~files[f].whole
  /\ launches' = launches + 1 /\ proc' = "down"
  /\ UNCHANGED <<counts, world, gathered, files>>

Kill ==
  /\ proc \notin {"down", "raised", "done"}
  /\ proc' = "down"
  /\ UNCHANGED <<launches, counts, world, gathered, files>>
-----------------------------------------------------------------------------
(* Collection. *)

After(m)    == [m EXCEPT !.age = @ + 1]
Restart(m)  == [ep |-> m.ep + 1, age |-> 0]

\* Mutant: the runner acts on the observation of the step before.
ObsLate(m) == robot
ObsOf(m) == m

\* cost_manager.compute() runs after env.step(), on whatever state is there:
\* after a reset that is the first state of the next episode.
CostState(m) == m

\* Mutant: log_episode forgets to zero the sums.
SumsKept(done, m) == sums \cup {CostState(m)}
SumsAfter(done, m) == IF done THEN {} ELSE sums \cup {CostState(m)}
\* Every reset makes extras["log"] anew, with the statistics of the robots that
\* are reset then; others: robots of other columns are.  Between resets it
\* stays, over the ends of iterations too.
LogAfter(done, others, m) ==
  IF done THEN [ep |-> robot.ep, samples |-> sums \cup {CostState(m)}]
  ELSE IF others THEN NoLog ELSE log

\* act() on obs, env.step(), the wrapper, process_env_step() up to the storage,
\* and the entry of learn() for ep_infos, one in every step.  A time-out adds
\* gamma times the value of the row's state to its stored reward, which is a
\* source every return of the row has anyway, and gamma times the cost to the
\* stored cost; the sums have the cost itself.
StepEnv ==
  /\ \E done, timeOut, others \in BOOLEAN :
       LET reached == After(robot)
           now     == IF done THEN Restart(robot) ELSE reached
       IN  /\ timeOut => done
           /\ robot' = now /\ obs' = ObsOf(now)
           /\ sums' = SumsAfter(done, now) /\ log' = LogAfter(done, others, now)
           /\ rows' = [rows EXCEPT ![step + 1] =
                [at |-> obs, reward |-> reached, cost |-> CostState(now),
                 timeOut |-> timeOut, done |-> done, policy |-> updates]]
  /\ epInfos' = Append(epInfos, log')
  /\ step' = step + 1 /\ left' = left - 1
  /\ UNCHANGED <<proc, launches, it, updates, gathered, files>>

\* add_transitions raises AssertionError("Rollout buffer overflow") when the
\* storage is full, and the process ends.
Collect ==
  /\ proc = "collect" /\ left > 0
  /\ IF step < NumSteps
     THEN StepEnv
     ELSE proc' = "raised" /\ UNCHANGED <<launches, counts, world, gathered, files>>
-----------------------------------------------------------------------------
(* Learning. *)

Reward(m) == <<"reward", m>>
Value(m)  == <<"value", m>>

NextValue(k) == IF k = NumSteps THEN Value(obs) ELSE Value(rows[k + 1].at)
Delta(k) ==
  {Reward(rows[k].reward), Value(rows[k].at)}
    \cup (IF rows[k].done THEN {} ELSE {NextValue(k)})

\* Mutant: the sum runs on into the next episode.
GaeUnmasked ==
  LET g[k \in Row] == Delta(k) \cup IF k = NumSteps THEN {} ELSE g[k + 1]
  IN  g
\* The loop over the rows from the last one back, with next_is_not_terminal.
Gae ==
  LET g[k \in Row] ==
        Delta(k) \cup IF k = NumSteps \/ rows[k].done THEN {} ELSE g[k + 1]
  IN  g

ComputeReturns ==
  /\ proc = "collect" /\ left = 0
  /\ gathered' = Gae
  /\ proc' = "update"
  /\ UNCHANGED <<launches, counts, world, files>>

\* Mutant: storage.clear() is forgotten.
Uncleared == step
Cleared == 0

\* alg.update(), which ends in storage.clear().
Update ==
  /\ proc = "update"
  /\ updates' = updates + 1 /\ step' = Cleared
  /\ proc' = "learnt"
  /\ UNCHANGED <<launches, it, left, robot, obs, rows, sums, log, epInfos, gathered, files>>
-----------------------------------------------------------------------------
(* Checkpoints. *)

\* Mutant: nothing is saved in iteration 0.
DueLater == it > 0 /\ it % SaveInterval = 0
Due == it % SaveInterval = 0

\* torch.save writes in place: until it ends the file is incomplete.
Write(name, whole) ==
  files' = [f \in DOMAIN files \cup {<<launches, name>>} |->
    IF f = <<launches, name>> THEN [updates |-> updates, whole |-> whole] ELSE files[f]]

LastIteration == it + 1 = NumIterations

\* The end of the loop body.
NextIteration ==
  /\ it' = it + 1 /\ epInfos' = <<>>
  /\ proc' = IF LastIteration THEN "finish" ELSE "collect"
  /\ left' = NumSteps
  /\ UNCHANGED <<launches, updates, robot, obs, rows, step, sums, log, gathered>>

SkipSave == proc = "learnt" /\ ~Due /\ NextIteration /\ UNCHANGED files

BeginSave ==
  /\ proc = "learnt" /\ Due
  /\ Write(it, FALSE) /\ proc' = "saving"
  /\ UNCHANGED <<launches, counts, world, gathered>>

EndSave == proc = "saving" /\ Write(it, TRUE) /\ NextIteration

BeginFinal ==
  /\ proc = "finish"
  /\ Write(NumIterations, FALSE) /\ proc' = "finishing"
  /\ UNCHANGED <<launches, counts, world, gathered>>

EndFinal ==
  /\ proc = "finishing"
  /\ Write(NumIterations, TRUE) /\ proc' = "done"
  /\ UNCHANGED <<launches, counts, world, gathered>>
-----------------------------------------------------------------------------
Train ==
  Collect \/ ComputeReturns \/ Update
    \/ SkipSave \/ BeginSave \/ EndSave \/ BeginFinal \/ EndFinal

Next == LaunchFresh \/ LaunchResumed \/ LaunchFails \/ Kill \/ Train

Spec == Init /\ [][Next]_vars

\* A process that lives executes; nobody has to launch or to kill one.
FairSpec == Spec /\ WF_vars(Train)
-----------------------------------------------------------------------------
(* Properties. *)

\* Types of the variables, the bounds left aside; a file is named by its
\* process and iteration.
Stage == {"down", "collect", "update", "learnt", "saving", "finish", "finishing", "done", "raised"}
TypeOK ==
  /\ proc \in Stage
  /\ launches \in Nat /\ it \in Nat /\ left \in Nat /\ updates \in Nat /\ step \in Nat
  /\ robot \in Place
  /\ rows \in [Row -> [at : Place, reward : Place, cost : Place, timeOut : BOOLEAN,
                   done : BOOLEAN, policy : Nat]]
  /\ \A f \in DOMAIN files : f \in Nat \X Nat /\ files[f] \in [updates : Nat, whole : BOOLEAN]

\* When the policy is updated the storage holds one unbroken trajectory of
\* the robot under the very policy that is updated: every reward follows the
\* row's observation and every row starts where the one before ended.
RolloutIsTrajectory ==
  proc = "update" =>
    /\ step = NumSteps
    /\ \A k \in Row :
         /\ rows[k].policy = updates
         /\ rows[k].reward = After(rows[k].at)
         /\ (IF k = NumSteps THEN obs ELSE rows[k + 1].at) =
              IF rows[k].done THEN Restart(rows[k].at) ELSE rows[k].reward

\* A row's return gathers the rewards and values of its own episode from the
\* row on, all of them, and nothing of another episode, wherever episodes
\* end inside the rollout or at its edge.
ReturnsOfEpisode ==
  proc = "update" =>
    \A k \in Row :
      LET ahead == {j \in k..NumSteps : rows[j].at.ep = rows[k].at.ep}
      IN  gathered[k] =
            {Reward(rows[j].reward) : j \in ahead} \cup {Value(rows[j].at) : j \in ahead}
              \cup {Value(m) : m \in {x \in {obs} : x.ep = rows[k].at.ep}}

\* The episode whose running sums a cost entered: the cost of a first state was
\* computed before log_episode had popped the sums of the episode before.
Owner(c) == IF c.age = 0 THEN c.ep - 1 ELSE c.ep

\* No cost of the rollout is lost or reported with two episodes: it is in the
\* running sums as long as its episode lasts, then in the entry of ep_infos of
\* the step that ended it, and besides only in those of later steps of the very
\* next episode, which repeat that entry until some robot is reset.
CostsReported ==
  proc = "collect" =>
    \A k \in 1..step :
      LET c == rows[k].cost
      IN  /\ c \in sums <=> Owner(c) = robot.ep
          /\ \A j \in 1..step :
               /\ rows[j].done /\ rows[j].at.ep = Owner(c) => c \in epInfos[j].samples
               /\ c \in epInfos[j].samples => rows[j].cost.ep = Owner(c) + 1

\* Whenever the process dies, in the middle of writing a file included, at
\* most SaveInterval updates are lost: a whole checkpoint has the others.
BoundedLoss ==
  \/ updates <= SaveInterval
  \/ \E f \in DOMAIN files : files[f].whole /\ updates - files[f].updates <= SaveInterval

\* A process nobody kills gets through all iterations and writes the last
\* checkpoint: the storage never overflows.
TrainingEnds == <>[](proc # "down") => <>(proc = "done")

\* cost_manager.py:155 "mean cost over the episodes that just ended": the
\* popped statistics of an episode hold costs of that episode only.
LogOfEndedEpisode == \A m \in log.samples : m.ep = log.ep
=============================================================================

# DDT_Lab: TLA+ models, checks and proofs

DDT_Lab trains policies for wheeled-legged robots (Isaac Lab, NP3O) and runs
them on the robots (ros2_control). This directory holds TLA+ modules of the
parts of it that have control worth checking, the TLC configurations that check
them on small instances, and TLAPS proofs of the results that hold for every
value of the constants. Paths below are relative to the repository; `ros2` stands
for `ddt_ros2_control` and `ddt_lab` for `source/ddt_lab/ddt_lab`.

To run: `tlc -config fsm.cfg MCRlFsm` (the table of runs names module and
cfg), `tlapm RlFsm_proofs.tla`.

## 1. The system

```
 robot                                               training
 handset --CRSF--> teleop_command --goal topic--+    train.py -> OnConstraintPolicyRunner
 keyboard_controller, SDK client ---------------+      | step          | checkpoints
                                                v      v               v
  controller manager: read -> rl_controller -> write  wrapper -> Isaac Lab env   model_<n>.pt
                       |      |  FSM + states   |      | costs       | commands     |
                       |      +- forward threads|      v             v              v
                       +---- hardware bridge ---+    CostManager  JumpCommand,   export, play
                                  |                    storage    TerrainJump    (policy file)
                             tita_robot / CanRxDev   -> NP3O.update
                                  | CAN
                                motors
```

### 1.1 Components

**Mode machine of rl_controller** (`ros2/controller/rl_controller/src/fsm`).
State: the goal string, the mode (NORMAL or CHANGE), the current and the next
state, the counters of TransformUp and TransformDown, the last low_cmd.
Operations: the goal callback; `FSM::run`, once per control cycle, which runs
the current state and asks it where to go, or leaves it and enters the next.
Hard: goals arrive between any two cycles, the gates are on elapsed time while
the promise is about postures, ramps of length zero, goals that are not numbers.
Correct if: no policy drives a robot that has not stood up, the legs go limp only
from rest, lowering cannot be prevented, the loop survives its goals.

**Policy forward threads** (FSMState_RL, FSMState_RLPPO). State: observation,
history, last action and action vectors shared without a lock; stop and first
flags; one thread per policy, never joined. Operations: enter, run, exit
of the control loop; observe, infer, shift, push of the thread. Hard: exit does
not wait for the thread, enter refills the buffers a late cycle is using.
Correct if: stale data disappear from history and command in bounded time.

**teleop_command** (`ros2/interaction/teleop_command`). State: joy_msg_, the
SDK mode, the key published last, two RealtimePublishers. Operations: the
receiver's callback per frame, the timer's publication. Hard: the two share
joy_msg_ without a lock; trylock may fail; publication on change only. Correct
if: the goal of a resting switch arrives and stays, no race arms the robot.

**CAN receive device** (`ros2/hardware/tita_robot/.../can_utils.hpp`,
`socket_can_receiver.hpp`). State: the socket, the flags ready_,
isthreadrunning_, is_timeout_, the receive thread. Operations: the thread's
cycle, the destructor. Hard: destruction in any phase of the thread, errors of
the socket that are not timeouts. Correct if: nothing runs after the
destructor, silence is reported, frames stay in order.

**Jump commands** (`ddt_lab/tasks/manager_based/locomotion/mdp/commands.py`).
JumpCommand (automatic in training and play, manual with the operator's key) and
TerrainJumpCommand (started by an obstacle in the height scan). State per robot:
stage, command, was_in_flight, has_jumped, last contacts, four timers, trigger
step. Operations: `_resample_command` and `_update_command` in each env.step.
Hard: resets in the middle of an episode, the global end of the warm-up, the key
released in flight, two transitions in one update, the random lengths with which
`learn(init_at_random_ep_len=True)` lets the first episodes begin, drawn after the
reset that drew the trigger steps. Correct if: stages come in
order and the flags, which rewards and critic read, follow them.

**NP3O training** (`scripts/np3o/train.py`, `ddt_lab/algorithms/np3o`,
`ddt_lab/managers/cost_manager.py`). State: storage, iteration, policy,
cost sums, checkpoints. Operations: launch or resume, collect, compute returns,
update, save. Hard: episodes that end anywhere in a rollout, costs computed
after a reset, a kill at any moment, resuming. Correct if: the policy learns
from its own unbroken trajectory, returns stop at episode ends, costs are neither
lost nor reported with another episode, a crash loses at most save_interval updates.

**Stage-gated jump rewards** (`mdp/rewards.py`). Stateless, but what they pay
in a jump depends on the term's stage. Hard: the stage is the last step's, FLIGHT
has no time-out, resets fall anywhere. Correct if: no stage of a jump can be
drawn out for its bonus.

**Export and deployment** (`scripts/np3o/play.py`, `algorithms/np3o/runner.py`
and `actor_critic.py`, `prepare_policy` of
`scripts/sim2sim/andy_height_mujoco_rl_sar.py`). State: checkpoints, the
exported ONNX and its manifest, the deployed ONNX and its provenance, all files.
Operations: save, export, write the manifest, select, fingerprint, launch an
export, verify, copy, write the provenance. Hard: three programs that share only
files, each killed between any two of them; files that are read again after they were
checked. Correct if: what is deployed is a whole network, and that of the
checkpoint that was selected.

**Observation history of an NP3O policy** (`algorithms/np3o/actor_critic.py`,
`FSMState_RL`, the sim2sim programs). State: a window of frames per program, the
current observation. Operations: fill, observe, append, infer. Hard: whether the current
frame is in the window when the policy is called is a convention between the exporter
and seven callers; shapes fit either way. Correct if: the encoder reads the frames it was
trained on.

**Environment configurations** (`robots/*`, five robots). State: the terms of
a configclass while the `__post_init__` methods of its chain of bases change it.
Operations: one per kind of statement. Hard: a statement on a term that a base
class, in another file, has removed; terms that look up sensors and links of another
robot, or a link that the import has merged into another; checkpoints of one class replayed under another. Correct if: every
registered task constructs, its terms resolve (those of three D1H tasks do not,
section 5), its runner accepts it and its checkpoints fit.

**Not modelled** (reasons in section 8): rl_controller's lifecycle and parameter
reload, the hardware bridge, the CAN sender, tita_robot (binary), the ELRS
receiver, the keyboard front end, inference engines, simulation bridges,
the arithmetic of networks, curricula and events, the formulas of rewards and
observations, the simulators' part of the play and sim2sim scripts.

### 1.2 Interactions

* Goals: teleop_command, the keyboard and SDK clients publish on one topic; the
  controller's callback overwrites `fsm_name_`. `FsmGoalCb` occurs in both
  `Teleop` (as the end of the path) and `RlFsm` (as its input).
* Control cycle: ros2_control calls read, update, write in one thread;
  `RlFsm!Run` is the part of update that runs the mode machine.
* The mode machine's policy states own the forward threads; `RlFsm` sees a policy
  as one state whose wheel torque may be anything of `PolicyTorque`,
  `PolicyThread` opens one of them up.
* Training: the runner steps the wrapper, the wrapper the environment; the
  environment resets finished episodes inside step and calls the jump commands;
  rewards read the stage before the reset and the command's update.
* Files: train.py, play.py and the deployment meet only in the training and the
  deployment directory (`PolicyExport`). The checkpoint's networks have the
  widths of the observation groups that the task's configuration has built
  (`TaskConfig`, `PlayTask`).

## 2. Modules

| module | models | extends / instantiates |
|---|---|---|
| `RlFsm` | FSM, Passive, TransformUp, JointPD, TransformDown, the transitions of the policy states, the goal callback | `Posture` (refined) |
| `Posture` | abstract: how the body may pass between postures | |
| `RlFsm_proofs` | theorems about `RlFsm`, about `Teleop`, and about both together | `RlFsm`, `Teleop` (as `H`), TLAPS |
| `PolicyThread` | one policy: control loop against forward thread | |
| `PolicyWindow` | the history that training and each program give an NP3O policy | |
| `Policy_proofs` | theorems about `PolicyThread` and `PolicyWindow` | `PolicyThread`, `PolicyWindow` (as `W`), TLAPS |
| `Teleop` | receiver thread, timer, SDK button, goal topic, controller callback | |
| `JumpTerm` | what the two jump commands share: reset, contacts, timers | |
| `JumpFsm` | JumpCommand in one environment: training, play and manual mode | `JumpRewards`, `JumpStages` (refined) |
| `TerrainJump` | TerrainJumpCommand in one environment | `JumpRewards`, `JumpStages` (refined) |
| `JumpStages` | abstract: order of the stages, meaning of the flags | |
| `JumpRewards` | the rewards gated by the stage, and the account of what they pay | `JumpTerm` |
| `JumpTerm_proofs` | lemmas about `JumpTerm` and `JumpRewards` | TLAPS |
| `JumpFsm_proofs`, `TerrainJump_proofs` | theorems about the two jump commands | `JumpTerm_proofs` |
| `CanRx` | CanRxDev with SocketCanReceiver | |
| `CanRx_proofs` | theorems about `CanRx` | `CanRx`, TLAPS |
| `Np3oTraining` | train.py, runner, wrapper, cost manager, storage, checkpoints | |
| `Np3oTraining_proofs` | theorems about `Np3oTraining` | `Np3oTraining`, TLAPS |
| `PolicyExport` | save, export, manifest, deployment, kills | |
| `PolicyExport_proofs` | theorems about `PolicyExport` | `PolicyExport`, TLAPS |
| `EnvCfg` | terms, statements and classes of the configurations | |
| `TasksD1`, `TasksMini`, `TasksTita`, `TasksAndy` | the configclasses of the robots and their registered tasks (D1H is in TasksD1, whose classes it derives from, Pace in TasksAndy) | `EnvCfg` |
| `PlayTask` | how play.py picks the task that replays a checkpoint | `EnvCfg` |
| `TaskConfig` | builds one registered task, statement by statement | the four, `PlayTask` |
| `MCRlFsm`, `MCTeleop` | values of the constants for TLC | |

`map` in PROJECT.json names the source lines of every definition. A definition
whose comment says "Mutant" is a plausible bug, which no action uses; the
`mutants` of PROJECT.json put it in the place of the real one and expect the
property to fail.

### 2.1 RlFsm

| variable | code |
|---|---|
| `goal` | `fsm_name_` / `fsm_goal_`, as the callback leaves it |
| `mode`, `cur`, `next` | `_mode`, `_currentState`, `_nextStateName` |
| `mem` | members of TransformUp and TransformDown: iteration counters, ramp lengths, phase flag, finish flag |
| `setpoint` | which posture the last low_cmd asks for |
| `tau` | the largest feed-forward torque in it |
| `halted` | an exception has left update() |

`RunNormal` is a run in mode NORMAL (run of the state, checkTransition and the
choice of the next state), `RunChange` one in mode CHANGE (exit, enter, run).
Joint vectors are abstracted to postures: what the properties distinguish is
whether the interpolation has reached its end, which is decided by counters kept
exactly (with the off-by-ones of `_SetJPosInterPts` and 0/0 = NaN at a ramp of
length zero). The ramp length depends on the distance to the fold pose, so
enter draws it from `0..MaxFoldRamp`; upside-down or not is an input of each
cycle; a goal that is torn or unknown is "other".

### 2.2 PolicyThread

A vector is abstracted to its age: in which activation (call of enter) the robot
was in the state it describes. `Loop` is the control loop (enter in the order of
its writes, run, exit), `Thread` the forward thread, one access of a shared
member per step. `policyType` is chosen at the start because NP3O infers before
it pushes the observation and PPO after; `Cycle` is the sequence of a
thread's period for each. There are never two threads: `thread_first_` guards
the creation, and `AlwaysSpawn` shows what happens without it.

obs_.ang_vel is the one value of an observation that is carried from cycle to cycle: a
low-pass filter, 0.97 of the gyro and 0.03 of its own last value, that reset() zeroes. It never
quite loses a reading, so an age would not do: `AngVel` is the number of its latest
readings that are all of one activation, and whatever is older has a share of at most
0.03 to the power of that number. update_observations reads the filter, assigns it
(`Filter`, `EnterFilter`) and reads it again for obs_vec_ (`Observe`, `EnterObserve`); a stale
cycle may assign it after reset(). So HistoryHeals has two parts: from the third push of
an activation on an observation holds nothing older but in its angular velocity; and there
the push number k has at least k - 1 readings of this activation before any older one.
After History + 2 pushes no older reading has more than 0.03^2 of any slot.

`PolicyWindow` asks another question of the same cycle: not how old a frame is but which
frames the encoder reads. A frame is the number of the observation. `TrainedInput` is
`_split_policy_obs` and the shift in the backbone, `ExportedInput` the same two steps in
`_InferenceWrapper`, which takes the current frame as an input of its own. `client` is
the program, chosen at the start: training (Isaac Lab's buffer, external),
rl_controller, and five scripts of sim2sim; it decides whether the current frame is
appended before the inference (`AppendFirst`) or after (`InferFirst`), whether the first
inference is with the frame that filled the window, and whether the window is filled again
later. The races of enter with the thread are left to `PolicyThread`.

### 2.3 Teleop

`Receive` is a frame from the driver (external: any frame, any time), `StoreAxis`
and `ReadKey` are `crsf_dataread_cb` axis by axis, `Ask...` and `Compare` are
`fsm_goal_cb` in the order in which it reads the axes, `SendJoy` and `SendGoal`
are the RealtimePublisher's own thread (external), `topic` the goal topic with
keep-last depth. Only the axes 4 to 6 decide goals. What happens around the node is a
`Drill`, chosen at the start: the switch positions that are sent, the values of the SDK
button, the goals that another publisher sends.

### 2.4 JumpTerm, JumpRewards, JumpFsm, TerrainJump

`Step` is one env.step for one robot; the rows of the tensors do not interact.
The order inside is Isaac Lab's (external): physics, counters, reset of an
ended episode, `_update_command`, whose parts are `Contact`, `Trigger` or
`Manual` (`Noticed`, `Prepared` for the terrain term), `Counted`, `Expired`
and `Reset`. Contacts are one Boolean (any wheel touches), whether the pose
fits a landing is another. `age`, in `JumpFsm`, is a history variable:
updates since the last reset, which TakesOffOnTime needs to speak about a delay.
`play` and `manual` are the two flags of the term's configuration, chosen at the
start. `paid`, another history variable, is the account of JumpRewards: how often
the stage's bonus has been paid. The rewards see `st` as the last step left it,
as RewardManager runs before resets and commands. `Init` is the state in which the
loop begins: the environment has been reset, which drew a trigger step of 0 plus the
delay, and then `train.py:120` (`scripts/dreamwaq/train.py:108`) has had `learn` draw
`episode_length_buf` anew (`runner.py:133`), so that this first trigger may lie behind;
play.py, where `play` and `manual` are set, leaves the buffer at 0.

### 2.5 CanRx

The receive thread as a cycle check, wait, read, callback; the destructor as its
two assignments and the join; frames are numbered in order of arrival, negative
when they are not of type DATA; the socket (external) is a bounded queue with at
most one pending error. A select() that is interrupted (-1, `socket_can_receiver.hpp:119`)
only repeats the cycle and is left out.

### 2.6 Np3oTraining

A number is abstracted to where it comes from: `[ep, age]` of the robot it
describes; a return to the set of rewards and values summed in it; a policy to
its number of updates. `proc` is where the process is; `Kill` may happen in any
of its phases, a save is two steps (`BeginSave`, `EndSave`) because torch.save
writes in place; `LaunchResumed` loads a whole file of an earlier run (the command
line says which), `LaunchFails` one that is not whole. One
environment stands for all: columns of tensors meet only in abstracted means and in
`extras["log"]`, which Isaac Lab makes anew whenever some robots are reset (`others` in
`StepEnv`). learn() appends that log to `ep_infos` in every step, so an entry is
repeated until the next reset, and the mean that log() prints weighs an episode by the
steps until then: `epInfos` is that sequence. A step ends no episode, or by a
termination, or by a time-out; the time-out adds gamma times the cost to the stored cost
(`np3o.py:136`), so the cost of such a row in the storage is 1 + gamma times the one in the
statistics (the row's `timeOut`; sources and not factors are what the model counts).

### 2.7 PolicyExport

| variable | code |
|---|---|
| `file`, `trainer` | `model_N.pt`, train.py |
| `play` | the play.py that exports: where it is in main, checkpoint, task, started by whom |
| `onnx`, `manifest` | `exported/policy.onnx`, `export_manifest.json` |
| `dep` | prepare_policy: where it is, checkpoint, its fingerprint, the payload read |
| `dest`, `source` | the deployed `policy.onnx`, `policy_source.json` |
| `meddled` | history: an export of the operator's has run during this deployment |

A checkpoint is its number, a network the number of the checkpoint it was exported
from, a SHA256 the content it was taken of. Files that the code replaces with
`os.replace` change in one step; the checkpoint and the ONNX, which are written in
place, pass through "part" and `Torn`. One play.py exports in a directory at a time
(two exporting at once would interleave inside the exporter's own writes, which
nothing in the repository guards), but the operator's may begin at any moment of
a deployment.

`valid_export` compares the manifest, and then `Read` compares the payload with
a manifest that is *read again*: if the operator exports another checkpoint
between the two, the deployment installs that one, and its provenance is written
from a third reading. DeploysSelected is therefore a promise
about deployments that no other export runs into, while DestWhole holds for all.

### 2.8 EnvCfg, the Tasks modules, TaskConfig, PlayTask

A term is a pair <<group, name>>; a configuration the set of its terms, those
set to None, those of weight zero, the pairs <<term, what it looks up>>,
and the length of the policy's history. A configclass is the groups it declares and
the statements of its `__post_init__`, translated one by one: `Use` (an attribute of a
term is read or set), `Drop` (term = None), `Add`, `Weigh` and `Silence` (weight),
`Point`, `Swap` and `Retarget` (selectors), `Stack` (history), `Prune`
(disable_zero_weight_rewards). `TaskConfig` executes the chain of one registered
task: `Declared` is what the dataclass machinery does before any statement,
`PostInit` one statement. A statement on a term that is not there raises. Values,
ranges and noise are left out.

What a term looks up is a term too. The sensors (height scanners, depth camera), the
terrain generator and the links of the robot that any term selects are terms of the scene:
`base_link` and `foot` on D1 and D1H, `base_link` and `leg_2` to `leg_4` on Mini and Tita,
`base_link`, `leg_2`, `leg_3` and `wheel_1` on Andy, left and right as one. Which links there
are is read from the model files under `urdfs/`, after fixed joints are merged where
`ddt_robot.py` sets `merge_fixed_joints` (Andy's model file is not in the repository; its
links are those that its configuration names). That the importer merges a link into its
parent, and that a selector has to match the whole name of a link, is Isaac Sim's and Isaac
Lab's doing and taken as external. Selectors that match on every robot (`.*`, all links but
the feet) and those of joints, but for the wheels of the robots built on Mini's classes, are
left out, and so is `contact_forces`, which every scene has and no statement removes.

`PlayTask` is `_KNOWN_MINI_TASK_OBS_DIMS` and the functions that compare it with a
checkpoint. The table's entry for Stairs-Jump, (38, 32), is not what that task's
networks have (38, 233: the height scan's 187 rays among others): play.py never
switches to Stairs-Jump, and keeps a request of another task for such a checkpoint, which
`_validate_checkpoint_dims` then refuses. CheckpointsFit asks for the switch only
between the three flat tasks, whose entries are right.

## 3. Runs

| run | module | states | what it asks |
|---|---|---|---|
| `fsm` | MCRlFsm | 20 187 | hand-over gate, limp legs, NaN, survival, refinement of Posture, standing up and lowering complete, transform_down wins |
| `policy` | PolicyThread | 417 758 | history and command heal after a switch; a lasting policy acts on current data; no second forward thread (its type invariant) |
| `teleop` | MCTeleop | 509 800 | the resting position's goal arrives and stays; no race arms; silence at rest and in SDK mode; the button acts on its edge |
| `jump` | JumpFsm | 19 094 | take-off time, bounded bonuses, real flights, refinement of JumpStages, a held key keeps producing jumps |
| `jump_terrain` | TerrainJump | 3 708 | take-off only before an obstacle, bounded bonuses, refinement of JumpStages |
| `can_rx` | CanRx | 12 048 | order, silence reported, destructor returns, quiet afterwards |
| `np3o_training` | Np3oTraining | 431 401 | trajectory, returns, costs, bounded loss, termination |
| `task_config` | TaskConfig | 1 191 | every task constructs, resolves (but for the randomisations of D1H's base) and loads its checkpoints, and its runner accepts it (the platform tasks' does not) |
| `export` | PolicyExport | 98 262 | the deployed policy is whole, is the selected one, and in the end the newest |
| `fsm_torque`, `np3o_costs`, `policy_window` | | | violated: see findings |

Type invariants are proved for all constants where a module has proofs (section 6);
that of PolicyThread, which says that there is never a second thread, is checked in its
run as well.

### 3.1 Bounds, and why they are enough

* `fsm`: fold ramps 0..3, stand ramp 2, Settle 3 (100 in the code). Ramps of
  0, 1 and more cycles are the cases the code tells apart. 3 is the smallest
  margin for which the gate is right whatever the ramps are (2 is enough unless
  the stand ramp is empty): the proof covers all larger margins and all ramps,
  the empty stand ramp, which no run has, included. Two policies show changes between policies; a third adds nothing, since
  states differ only in being the goal's or not. The goals include a policy number
  that is not configured and one that does not fit an int.
* `policy`: history 3 (first, middle, last slot), three activations: one whose
  leftovers are seen, one that sees them, one that sees leftovers of both. The
  bounds of HistoryHeals and CommandHeals are tight: each fails when lowered by
  one push.
* `teleop`: five positions (down, middle, stand, drive, jump) contain every pair
  whose tearing yields a third: the first drill moves between four of them with the
  button at rest, the second between down and drive with both values of the
  button and one goal of an SDK client. Depth 2 instead of 10 loses messages earlier.
* `jump`, `jump_terrain`: timeouts of 2 and 3 steps (one more than the smallest),
  delays 2..3, a reward window of 2 that ends within a flight, a warm-up that ends in the
  middle of a segment, episodes that hold two whole jumps, first episodes of any
  remaining length; larger values repeat. The warm-up is no shorter than the smallest delay, as
  in the training tasks (1200 or 12000 steps to 125). TakesOffOnTime rests on that: with a
  warm-up of one step TLC finds the jump of a first episode whose random length is past the
  trigger, and which takes off at once. The proofs cover every value.
* `can_rx`: four frames overflow a queue of two, with two types and two errors.
* `np3o_training`: rollouts of three rows hold an episode end at the first, middle
  and last row and two in one rollout; three iterations with saves every two
  contain an unsaved update at every distance; two processes: fresh or resumed.
* `task_config` has no bound: it builds every registered task.
* `policy_window`: a history of 4 and a window of 2 frames, up to 8 observations
  (10 and 5 in the code): the smallest window with a frame before the current one, and a
  history longer than `Window + 1`. The theorems cover all sizes.
* `export`: two checkpoints (one to be superseded by the other), two exports of the
  operator's (`MaxPlays`: one that meddles, one more that meddles with the repair) and
  two kills (`MaxFaults`) of play.py or the deployment, at any step; training may be
  killed once more on top.

`CHECK_DEADLOCK FALSE` is used where the program really stops: the device
is destroyed (`can_rx`), training is done (`np3o_training`, `np3o_costs`), the
task is built (`task_config`), where the bound on the frames is reached (`policy_window`), and where nobody has to start another
program (`export`, once training is over).

### 3.2 Fairness, and why the code justifies it

* `RlFsm`: WF of `Run`. The controller manager calls update in every cycle. No
  fairness for goals: the operator may be mute or change his mind for ever.
* `PolicyThread`: WF of the rest of enter (the loop does not stop inside a
  call), of run, and of the thread (a periodic thread of the OS). Not of switching.
* `Teleop`: WF of receiver, timer, publishers and executor, and of `Receive`:
  with a dead link nothing is promised, and the code has no link timeout (a
  hazard listed as such).
* `JumpFsm`: WF of `Step`'s disjunction: the training or play loop goes on.
* `CanRx`: WF of the thread and of a destructor that has been called. Frames need
  not come.
* `Np3oTraining`: WF of the living process. Launches and kills are not fair.
* `PolicyExport`: WF of training's saves and of the steps of a program that has been
  started, SF of the operator's deployment of the training directory (he tries again
  when a deployment has failed). Not of exports by hand, nor of kills. A training that is
  killed in the middle of a save leaves a partial file that the selection of the
  newest keeps choosing, and the deployment keeps refusing: NewestDeployed promises
  nothing then.

## 4. Abstract specifications and composition

`Posture` has no cycles, counters, goals or pending changes: limp, rising,
stood, stranded, held, driven, lowering, folded, and the passages between them.
`RlFsm` implements it under `PostureOf` (the run `fsm` and the theorem
RefinesPosture): it is what an operator may rely on with any goals in any order.

`JumpStages` says what rewards and critic assume of a jump term. The commanded
(automatic) and the terrain-triggered jump both implement it; a robot in manual mode
maps to one that stands. JumpRewards adds what the stages are for: BonusBounded bounds
what each can pay, whatever the resets, time-outs and contacts do.

Teleop and the mode machine are composed by assume and guarantee rather than as
one state graph (their product is out of TLC's reach, several 10^9 states at worst, and
the goal is the only variable they share). `Teleop` shows HandsetObeyed: a switch resting at "down" outside SDK
mode gives `<>[](goal = "transform_down")`. That is the premise of
`RlFsm`'s DownIsReached, which allows any goal in any state before. Together: a
handset resting at "down" brings the robot down for good, whatever came before,
unless the control loop has died. The composition is proved on the product
itself, for all sizes, where no state graph is needed: HandsetDownRests and
HandsetDownLowers say what it never does, SwitchBringsDown that the robot gets down, and
that the control loop does not die on the way (section 6).

Deactivating and reactivating the controller does not touch the mode machine: to
`RlFsm` it is a pause between two cycles, which the safety properties cover.

## 5. Findings

1. `fsm_torque`. FSM.cpp:94 announces "limit torque out put", but the value
   of `std::clamp` is discarded (its bounds are swapped, too), so a torque above
   the limit is sent.
2. `np3o_costs`. `cost_manager.py:155` promises the mean cost of the episodes
   that just ended; `wrapper.py:151` computes costs after env.step has reset
   them, so the statistics that log_episode pops (and that `ep_infos` then repeats until
   the next reset) contain the first state of the next episode and lack the last of
   their own.
3. `policy_window`. The exported network takes the last frame of the history for the
   current one and drops it (`actor_critic.py:446`, "history is oldest-to-newest and
   ends in current"), but `FSMState_RL::update_forward` pushes the observation after
   the inference, and so do `mini_flat_mujoco_demo.py:157`, `mini_jump_mujoco_demo.py:360`
   and `andy_height_mujoco_rl_sar.py:220` ("history excludes current", line 185). The
   encoder then reads t-5..t-2 and t: the frame before the current one is missing at every
   inference. `d1_rough_mujoco_demo.py:409` and `tita_mujoco_demo.py:505` append first and
   are right. Two theorems say so for all sizes.

Met on the way, without a run of their own: `wrapper.py:22` asks for a policy
observation with a history that is not flattened, and the platform tasks of D1 are
registered with the NP3O runner although `platform_env_cfg.py` sets neither
`history_length` nor `flatten_history_dim` (the wrapper raises when one is started;
RunnerAccepts says that these are the only such tasks); `d1h/rough_env_cfg.py` selects the base
of D1H as `.*_base_link` (lines 301, 312, 322; D1 has `base_link` in the same places), and the
only link of such a name, F_base_link, is merged into base_link at the import
(`ddt_robot.py:200`, d1h's `robot.urdf:74`), so that these events find no body and the
environments of D1H cannot be built, except that of Velocity-Flat-D1H-NP3O-Play, which drops
all three (TermsResolve says that these terms are the only such ones; it rests on the
importer as described in 2.8); `jump_env_cfg.py` of Mini (line 10) says
that a jump passes through PREP, but when the warm-up ends behind the trigger step
`_update_command` goes from RECOVERY to TAKEOFF in one update (`commands.py:132`),
which JumpStages therefore allows; the widths that play.py has for Stairs-Jump (2.8); the
manifest that is read again after it was checked (2.7); `wrapper.py:154` says that the
runner picks the cost averages up as "Mean episode" lines, but `runner.py:225` takes the
names from the first entry of `ep_infos` only, so an iteration in which the first episodes
of a process end after its first step has none.

## 6. What is proved

The safety properties are proved under the named assumptions of the modules only (types
of the constants; `Settle >= 3` for RlFsm, positive timeouts, queue sizes, rollout and save
intervals), TakesOffOnTime under one more (`WarmupCoversDelay`, below); the liveness properties under two more kinds of hypotheses, named at the end of
this section. TLC evaluates these assumptions in the runs; those of PolicyWindow
(`Parameters`: a history longer than the window, as the class demands) and Teleop's
`Depth \in Nat \ {0}` are hypotheses of the theorems about them, because Policy_proofs and
RlFsm_proofs take these modules by INSTANCE. Where Teleop and RlFsm are conjoined, RlGoal is to
contain the goals of the node that are no built-in state ("rl_0" and "jump", an unknown name).

**RlFsm_proofs.** The gate out of TransformUp is on elapsed cycles, the promise
is about the posture commanded; nothing in the state says they are related.
The invariant `IInv` does: `UpProgress` ties the phase, its start and the
counter to the setpoint (the stand phase starts one cycle after the
fold ramp, and an empty stand ramp costs another cycle with a NaN setpoint: a
margin of three cycles covers both),
`DownProgress` ties the finish flag to the pending change and the fold pose, and
`Allowed` says which changes can be pending. It is inductive with TypeOK
(one lemma for the steps of mode NORMAL, one for CHANGE). From it follow
StandsBeforeHandOver, LimpOnlyFromRest, LoopSurvives, NaNConfined and
RefinesPosture. TransformsTakeBoundedTime: while a transform has not reached its posture
its counter is below a bound (`InTime`), and every control cycle raises it by one, whatever
goals arrive meanwhile. As cycles keep coming, LoweringEnds and RisingEnds follow, the
properties LoweringCompletes and StandsUp.

The same module puts Teleop in front of the machine; the two specifications share the
variable `goal` and nothing else.

* RacesNeverArm. `Unarmed` says what the threads may hold between two steps while no
  frame has the left switch up: no stored axis arms, no tick is past the gate on
  axis 4, and what is on its way is harmless. HandsetDownRests conjoins both
  specifications: with such a handset the controller sees no goal but those of `Unarmed`,
  and Passive ignores them, so that the robot stays in it without torque.
* LastGoalArrives. The node publishes only when its goal changes, so it relies on the
  newest message never getting lost. `NewestUnderWay` follows that message: in the busy
  publisher, else last in the topic, else arrived.
* RestingHandsetConverges: `ReadsPosition`
  says for each place of a tick what it has read, once the axes stored are those of the
  position the handset rests at. The ticks then conclude with its goal for good, and once
  it has arrived nothing more is sent (`SilentWhenHeard`). That a tick comes and that
  messages travel is the other half. HandsetIsObeyed and HandsetFallsSilent add it from the
  fairness of the five threads: the receiver passes through its places, so the axes
  are stored; the timer through its own, so that a tick begins that has seen nothing else; its
  publisher drains; the topic, of at most Depth goals, drains one goal per call of the
  executor. They are Teleop's properties HandsetObeyed and FallsSilent.
* DownIsOneWay: while "transform_down" stays the goal and no
  older change is pending (`HeadsDown`), the machine goes to TransformDown, to Passive, and
  nowhere else (`Lowers`), and the loop survives. HandsetDownLowers puts the handset
  in front of it: at rest with the left switch down, once heard, it only lowers the robot.
  DownIsReachedAlways is the property DownIsReached: from every mode, a change to
  another state still pending or not, the control cycles do lead to Passive.
* SwitchBringsDown composes the last two, from the switch to the legs: a handset that
  comes to rest with its left switch down, outside SDK mode and next to no other
  publisher, brings the robot to Passive for good. Its hypothesis on RlGoal (no goal of the
  node is a number that `stoi` rejects) is what the names in the node's table are, and makes
  "unless the control loop has died" superfluous.
* HeldButtonSettles: `<>[]` of a key implies `<>[]` of a mode without any fairness, for
  either the receiver reads that key some time, and then never sees an edge again, or
  it never reads again.

**JumpFsm_proofs.** The methods of the term are functions of its row, so the
lemmas first say what each does to the type, the stage and the flags
(`ContactMoves`, `TriggerMoves`, `UpdatedMoves`). The invariant adds to the
agreement of flags and stage that, in every automatic segment, the trigger step
is a possible delay after the step of the last reset (`episode - age`), or earlier in the
first segment of a training run (`First`), and has
not been passed while the jump still waits, and that the last contacts are those
of the last step in every stage but RECOVERY (resets forget them). FlagsFollowStage,
OnTimeTakeoff, RealFlights and RefinesStages follow, the last with `Moves` as the step of
the abstract machine. OnTimeTakeoff alone has a hypothesis about the configuration,
`WarmupCoversDelay` (a warm-up no shorter than the smallest delay): in a first segment no jump
begins before the warm-up is over, and then the segment has lasted as long as the delay,
whatever length the episode began with.
HeldKeyJumpsAgain (the property HeldKeyJumps) goes through the stages of the operator's
jumps: a landing is counted to its time-out, RECOVERY is left with the next press that
finds the warm-up over, unless the flag of a past flight is still set, which the next update
clears. It needs `S1Steps > 1`: with a take-off
time-out of one step the update that starts a jump also ends it.

**JumpTerm_proofs, TerrainJump_proofs.** What Reset, Contact, Counted and Expired do
to a row is the same for both terms and stated once. So is the account of the
rewards: while it is `Settled`, a stage has paid at most as often as its
timer has counted, and the timers are below their time-outs, so BonusBounded follows for
both. The invariant of the terrain term adds that the activation follows the stage,
that the timer of PREP is below its time-out until the take-off, and which
step has just reset the row. TakeoffSeesObstacle follows because the loss of the
obstacle is looked at after the time-out, in the same update.

**CanRx_proofs.** InOrder compares two numbers of which nothing says that they are
ordered. The invariant `Order` does: what the socket still holds is younger than what
has left it (`Latest`), what waits for the callback is younger than what it got, and the
queue is ordered whatever it has dropped. Numbers are those of all frames, since frames of
another type are read and skipped. QuietAfterDestruction is inductive with it.
With `Timed`, a select that has a timeout, the thread passes at most once through each place
of its loop once the flag is cleared (ThreadEnds), so the destructor joins it
(DestructorReturns, the property DestructionEnds); without it the thread may stay
in select for ever, which is the hazard listed. SilenceIsReported is the property SilenceReported:
`LoopGoesOn`, no failure of select or read ends the loop, so it comes back to a select
that times out, provided what had arrived before is read some time (`<>[]Silent`: the run's
bus has finitely many frames, the theorem's any number).

**PolicyExport_proofs.** `ManifestTruthful`: a manifest names the checkpoint its
ONNX was exported from, because it is written by the play.py that has just
completed that ONNX, and only one exports at a time. So a payload equal to
the manifest's is whole (WholeDeployment), and as long as no other export runs the
manifest stays that of the selected checkpoint from the check to the last step
(`Undisturbed`), which gives SelectedDeployment.

NewestIsDeployed is the property NewestDeployed. The run's bounds on kills and exports by
hand become hypotheses: training is over (`Trained`, or killed, when nothing
is promised), and from some step on nothing is killed and nobody exports by hand (`Disturbs`).
Every program then ends; the operator's next attempt (strong fairness, as
another play.py may be in the way) finds the last checkpoint newest, and its steps up to the last
succeed because nothing else writes the export directory.

**Np3oTraining_proofs.** `TrajectoryInv`: the storage's pointer and the
collection loop keep in step, the runner's observation is the robot's, and rows
1..step are the latest transitions. It gives LearnsFromTrajectory. `CheckpointInv`
follows a process between two saves: before its first it has made at most
SaveInterval updates since its launch or since the checkpoint it loaded
(`FreshOrLoaded`), afterwards the last save was at a multiple of the interval not
farther back than the interval (`SavedAtInterval`), and no file of this process
is newer than its iteration, so that a save that is cut off never overwrites the
file that covers it. It gives CrashLosesLittle for every schedule of kills.

ReturnsStayInEpisode is about a recursive function, `Gae`, over a rollout of any length,
and the provers cannot instantiate an induction principle. The proof goes by
extremal counterexamples instead (`Least`, `Greatest`, from `WFMin`). `GathersBack`: the set
that the return of a row should gather obeys the loop's equation, so a solution exists
and `Gae` is one (TLA+ defines it by CHOOSE). `GaeGathers`: it is that one, for in the
last row where two solutions differ they agree, because they do in the next. That the rows
of an episode are contiguous (`EpisodesAscend`) goes by the first row that comes too early.

CostsReportedWithEpisode: a cost is owned by the episode whose sums it entered (`Owner`;
the first state of an episode by the one before). `CostInv` says that the sums hold costs of
the present episode only and all of them that are in the storage, the log those of the
episode before, the entries of `ep_infos`, one per row, earlier ones: an episode's end
hands all over at once, to the entry of that step. StatisticsBorrowOneCost turns finding 2 into
an equation: a statistic of episode e is the states 1..n of e and the
state 0 of e + 1, for some n, always.

TrainingIsCompleted is the property TrainingEnds: a process that nobody kills from
some time on saves the last checkpoint. `LoopInvariance` says that the loop never
gets stuck: the storage is cleared before each rollout, so add_transitions never finds it full.
A rollout then takes NumSteps rows, an iteration one rollout, and the process its iterations.

**Policy_proofs.** For PolicyThread the question is what a cycle that enter() finds under
way leaves behind. `IInv` counts it: at most one push of such a cycle comes after
enter() has begun (`Leftover`); what the thread holds between two steps is of the
present activation once it has pushed (`CurrentCycle`; PPO ends its cycle after the
push, so one more is needed), and contains nothing older once a whole cycle has ended
(`Settled`, `NothingOlder`); from then on the history heals from its end by one slot per
push (`Healing`, which follows the shift slot by slot, since enter() may overwrite the
history in the middle of it). The filter of the angular velocity has a count of its own:
each cycle adds a reading of this activation to what obs_.ang_vel, then obs_vec_, and then
the history have (`Filtering`, `Fading`). HistoryRecovers and CommandsRecover follow for every
length of the history, TypeCorrect with them. CommandsBecomeFresh is the property EventuallyFresh:
while a policy stays current its thread leaves every place of the cycle (`PlaceLeft`), the
shift by counting slots, so it pushes again and again (`PushesRecur`); with the third push
`NothingOlder` holds for good, and the next run() commands that action.

For PolicyWindow the invariant `WindowRight` says what the window holds between
any two steps: the last HistoryLen frames up to `Newest`, which is the current frame, or
the one before it while the current one waits to be appended. What an inference reads
follows from it (`WindowInfer`): AppendersAsTrained, InputAsTrained for the programs that
append first, and InferrersMissOneFrame, the exact window that the others read.

**Liveness: the hypotheses.** The theorems about liveness derive each property from the
specification with its fairness, in the form the run checks. The prover offers no rule for ENABLED and
none for induction over a temporal formula, so they assume:

* *Guards.* `GuardEnables`, `GuardsEnable` and `HandsetGuards` say of each fair
  action that it is enabled where its guard holds (`Stays /\ cmd # action => ENABLED ...`).
  They say nothing about the system that its specification does not, as an action's
  guard is a conjunct of it, and no theorem gets more from them than that a fair action is
  taken. TLC evaluates ENABLED: with the guards as INVARIANT each is true in every
  reachable state of the instances of section 3.
* *Lengths.* What is counted step by step is counted to a number, by doubling
  (`CountsAdd`: m steps and n steps are m + n): ramps and settle time of
  at most 16383 control cycles (`RampsConfigured`; configured are 2000 and 1000 at most), a landing's
  time-out of at most 1024 environment steps (`TimeoutsConfigured`; 3 s of 0.02 s),
  rollouts below 1024 rows and at most 65536 iterations (`LengthsConfigured`; 25 and 30000), a
  history of at most 1024 slots (`HistoryConfigured`; 10), and a topic of at most the code's
  ten goals. Everything else is for all values.

What is left open by them is the end of the environment's part: that kills
and exports by hand stop (NewestIsDeployed), and that a bus falls silent (SilenceIsReported).

## 7. What is only model-checked

* That the fair actions are enabled where their guards say, and what longer ramps,
  time-outs and rollouts than those of section 6 do to liveness.
* TaskConfig: it has no parameter but the set of robots, and the run covers
  every registered task; a proof would say nothing more.
* `TorqueLimited`, `LogOfEndedEpisode` and (for all programs at once) `InputAsTrained`
  are violated.

## 8. What is not modelled

| part | why |
|---|---|
| rl_controller's configure, activate, cleanup, parameter reload | raw pointers and handles that outlive what they point to: undefined behaviour whose absence could only be checked where the code makes it (hazards) |
| hardware bridge | one formula per motor and cycle (the shift of the calf by 2 pi included) around calls of the binary library |
| ELRS receiver | a serial driver; Teleop takes any frame at any time from it |
| command curricula | levels that follow averages of rewards: arithmetic |
| twist and pose of the handset, status to the handset | arithmetic on axes, no control |
| phase clock and observation scaling of policies | arithmetic |
| gradients, losses, adaptive learning rate, k_value | arithmetic on tensors |
| action_vec_ read between inference and permutation | any number of cycles may see it and nothing promises otherwise: listed as a hazard |
| CAN sender | a synchronous write without state |
| tita_robot, inference engines, Isaac Lab, simulators | binary or third-party |
| keyboard front end | one more source of goals, which RlFsm takes in any order |
| arithmetic of the networks, the values of rewards, observations, events | formulas and data; the gates of the jump rewards are in JumpRewards |
| values, ranges and noise in the configurations, sizes of the runners' networks | data; which terms exist and what they look up is in the Tasks modules; the network sizes of a task and its -Play task come from one runner |
| simulation loops of play.py, sim2sim and the RSL-RL and DreamWaQ scripts | drivers of simulators; export and task selection are in PolicyExport and PlayTask, the histories of the sim2sim programs in PolicyWindow |
| two play.py exporting into one directory at once | nothing in the repository guards or promises it |

## 9. Plan

1. `HandsetToRobot`: the composition of section 4 as a module, with a
   coarser `Teleop` shown to be implemented by the present one.
2. `CrsfReceiver`: signal handler, condition variable and parser of the ELRS
   driver, to replace `Receive` by what the driver delivers.
3. `Curriculum`: the command levels that widen and shrink with tracking.

Runs are kept few, one per question; modes of one component are a variable of one run
(`policyType` in PolicyThread, `play` and `manual` in JumpFsm, `drill` in Teleop).

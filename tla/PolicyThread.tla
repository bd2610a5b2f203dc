---------------------------- MODULE PolicyThread ----------------------------
(***************************************************************************)
(* One policy state of rl_controller (FSMState_RL / FSMState_RLPPO): the   *)
(* control loop, which enters, runs and leaves the state, and the forward  *)
(* thread, which observes, infers and keeps the observation history.  They *)
(* share obs_, obs_vec_, obs_history_vec_ and action_vec_ without a lock;  *)
(* stop_update_ is a plain bool and exit() does not wait for the thread.   *)
(*                                                                         *)
(* Data are abstracted to their age: the number of the activation (call of *)
(* enter) in which the robot was in the state they describe.  "now" is the *)
(* current activation.  The zero vectors of reset() count as current.  The *)
(* permutation and the signs put on the action after the inference do not  *)
(* change its age: Infer and StoreLast stand for those lines as well.  The *)
(* angular velocity is a low-pass filter, 0.97 of the gyro and 0.03 of its *)
(* own last value, so it never quite loses a reading: it is abstracted to  *)
(* the number of its latest readings that are all of one activation.  What *)
(* is older has a share of 0.03 to the power of that number.               *)
(***************************************************************************)
EXTENDS Integers, Sequences

CONSTANTS
  History,        \* rl_params->history_len
  PolicyTypes,    \* the types of policies configured, of "np3o" and "ppo"
  MaxActivations  \* bound on the calls of enter()

ASSUME HistoryAssumption == History \in Nat \ {0}
ASSUME PolicyTypeAssumption == PolicyTypes \subseteq {"np3o", "ppo"}
ASSUME ActivationsAssumption == MaxActivations \in Nat

VARIABLES
  policyType,  \* rl_params->policy_type
  now,         \* activations so far
  loop,        \* where the control loop is: "out", in enter(), or "in"
  mixed,       \* enter(): the angular velocity in its local variables
  fill,        \* enter(): history slots filled so far
  stopUpdate,  \* stop_update_
  threadFirst, \* thread_first_
  threads,     \* forward threads alive
  step,        \* thread: 0 waiting for its next period, else index in Cycle
  shift,       \* thread: history slots shifted so far in this cycle
  held,        \* thread: the observation in its local variables
  obs,         \* obs_vec_
  angVel,      \* obs_.ang_vel
  last,        \* obs_.last_actions: activation its action was computed in
  hist,        \* obs_history_vec_, the latest observation last
  action,      \* action_vec_: activation whose observation it answers
  cmd,         \* the action the last run() put into low_cmd
  pushes       \* cycles whose observation went into the history since enter()

loopVars   == <<now, loop, mixed, fill, stopUpdate, threadFirst, threads, cmd>>
threadVars == <<step, shift, held>>
shared     == <<angVel, obs, last, hist, action>>
vars       == <<policyType, loopVars, threadVars, shared, pushes>>

Slot     == 1..History
Age      == 0..MaxActivations
PushCap  == History + 3       \* bound on the counts of pushes and of readings
\* An angular velocity: its last "fresh" readings are of the activation "of".
AngVel   == [of : Age, fresh : 0..PushCap]
\* An observation: the activation it was made in, the oldest activation that
\* anything else in it, last_actions included, comes from, its angular velocity.
Obs      == [seen : Age, oldest : Age, angVel : AngVel]
Oldest(a, b) == IF a < b THEN a ELSE b
Zero(activation) == [of |-> activation, fresh |-> PushCap]
Blank    == [seen |-> 0, oldest |-> 0, angVel |-> Zero(0)]
-----------------------------------------------------------------------------
(* The control loop. *)

Init ==
  /\ policyType \in PolicyTypes
  /\ now = 0 /\ loop = "out" /\ mixed = Zero(0) /\ fill = 0
  /\ stopUpdate = FALSE /\ threadFirst = TRUE /\ threads = 0
  /\ step = 0 /\ shift = 0 /\ held = Blank
  /\ angVel = Zero(0) /\ obs = Blank /\ last = 0
  /\ hist = [i \in Slot |-> Blank]
  /\ action = 0 /\ cmd = 0
  /\ pushes = 0

\* obs_.ang_vel = 0.97 * gyro + 0.03 * obs_.ang_vel, before it is assigned.
Filtered ==
  [of    |-> now,
   fresh |-> IF angVel.of # now THEN 1
             ELSE IF angVel.fresh = PushCap THEN PushCap ELSE angVel.fresh + 1]

\* update_observations: the robot as it is now, last_actions, and v.
Observed(v) == [seen |-> now, oldest |-> Oldest(now, last), angVel |-> v]

\* enter(), first line: obs_.reset().
EnterReset ==
  /\ loop = "out" /\ now < MaxActivations
  /\ now' = now + 1 /\ last' = now + 1 /\ angVel' = Zero(now + 1)
  /\ loop' = "sense" /\ pushes' = 0
  /\ UNCHANGED <<mixed, fill, stopUpdate, threadFirst, threads, cmd, threadVars, obs, hist, action>>

\* update_observations within enter(): the filter reads obs_.ang_vel,
\* assigns it, and obs_vec_ is put together from what is there then.
EnterSense ==
  /\ loop = "sense"
  /\ mixed' = Filtered /\ loop' = "filter"
  /\ UNCHANGED <<now, fill, stopUpdate, threadFirst, threads, cmd, threadVars, shared, pushes>>

EnterFilter ==
  /\ loop = "filter"
  /\ angVel' = mixed /\ loop' = "observe"
  /\ UNCHANGED <<now, mixed, fill, stopUpdate, threadFirst, threads, cmd, threadVars>>
  /\ UNCHANGED <<obs, last, hist, action, pushes>>

EnterObserve ==
  /\ loop = "observe"
  /\ obs' = Observed(angVel) /\ loop' = "fill" /\ fill' = 0
  /\ UNCHANGED <<now, mixed, stopUpdate, threadFirst, threads, cmd, threadVars>>
  /\ UNCHANGED <<angVel, last, hist, action, pushes>>

\* One round of the loop over history_len; obs_vec_ is read each time.
EnterFill ==
  /\ loop = "fill" /\ fill < History
  /\ fill' = fill + 1
  /\ hist' = [hist EXCEPT ![fill + 1] = obs]
  /\ UNCHANGED <<now, loop, mixed, stopUpdate, threadFirst, threads, cmd, threadVars>>
  /\ UNCHANGED <<angVel, obs, last, action, pushes>>

\* Mutant: every activation makes a thread of its own.
AlwaysSpawn == TRUE
SpawnsThread == threadFirst

\* The rest of enter(): the thread is made once, then updates are allowed.
EnterGo ==
  /\ loop = "fill" /\ fill = History
  /\ loop' = "in" /\ stopUpdate' = FALSE /\ threadFirst' = FALSE
  /\ threads' = IF SpawnsThread THEN threads + 1 ELSE threads
  /\ UNCHANGED <<now, mixed, fill, cmd, threadVars, shared, pushes>>

\* run(), called in the cycle of enter() and in every later one.
RunState ==
  /\ loop = "in"
  /\ cmd' = action
  /\ UNCHANGED <<now, loop, mixed, fill, stopUpdate, threadFirst, threads, threadVars>>
  /\ UNCHANGED <<shared, pushes>>

\* exit()
Exit ==
  /\ loop = "in"
  /\ loop' = "out" /\ stopUpdate' = TRUE
  /\ UNCHANGED <<now, mixed, fill, threadFirst, threads, cmd, threadVars, shared, pushes>>
-----------------------------------------------------------------------------
(* The forward thread: update_forward, one access of the shared data per   *)
(* step.  FSMState_RLPPO overrides it.                                     *)

\* Mutant: the inputs are copied one cycle too early.
CyclePrefetch ==
  IF policyType = "np3o"
  THEN <<"infer", "last", "sense", "filter", "observe", "shift", "push", "copy">>
  ELSE <<"sense", "filter", "observe", "copy", "shift", "push", "infer", "last">>
\* Mutant: the action is never stored.
CycleNoInfer == <<"sense", "filter", "observe", "copy", "last", "shift", "push">>
Cycle ==
  IF policyType = "np3o"
  THEN <<"sense", "filter", "observe", "copy", "infer", "last", "shift", "push">>
  ELSE <<"sense", "filter", "observe", "shift", "push", "copy", "infer", "last">>

At(name) == step > 0 /\ Cycle[step] = name
Advance  == step' = IF step = Len(Cycle) THEN 0 ELSE step + 1

\* A new period: the thread looks at stop_update_ and works or waits again.
Begin ==
  /\ threads > 0 /\ step = 0
  /\ step' = IF stopUpdate THEN 0 ELSE 1
  /\ UNCHANGED <<loopVars, shift, held, shared, pushes>>

\* update_observations reads low_state and obs_, assigns obs_.ang_vel, and
\* writes obs_vec_ later, with the angular velocity that is there then.
Sense ==
  /\ At("sense") /\ Advance
  /\ held' = Observed(Filtered)
  /\ UNCHANGED <<loopVars, shift, shared, pushes>>
Filter ==
  /\ At("filter") /\ Advance
  /\ angVel' = held.angVel
  /\ UNCHANGED <<loopVars, shift, held, obs, last, hist, action, pushes>>
Observe ==
  /\ At("observe") /\ Advance
  /\ obs' = [held EXCEPT !.angVel = angVel]
  /\ UNCHANGED <<loopVars, shift, held, angVel, last, hist, action, pushes>>

\* The newest observation of what the policy is given.
CopyInputs ==
  /\ At("copy") /\ Advance
  /\ held' = IF policyType = "np3o" THEN obs ELSE hist[History]
  /\ UNCHANGED <<loopVars, shift, shared, pushes>>

\* computeActions returns; run() sees the action from now on.
Infer ==
  /\ At("infer") /\ Advance
  /\ action' = held.seen
  /\ UNCHANGED <<loopVars, shift, held, angVel, obs, last, hist, pushes>>

StoreLast ==
  /\ At("last") /\ Advance
  /\ last' = action
  /\ UNCHANGED <<loopVars, shift, held, angVel, obs, hist, action, pushes>>

\* head(n - 1) = tail(n - 1), slot by slot from the front.
\* Mutant: one slot is forgotten.
ShiftsShort == History - 2
Shifts == History - 1

ShiftOne ==
  /\ At("shift") /\ shift < Shifts
  /\ shift' = shift + 1
  /\ hist' = [hist EXCEPT ![shift + 1] = hist[shift + 2]]
  /\ UNCHANGED <<loopVars, step, held, angVel, obs, last, action, pushes>>
ShiftDone ==
  /\ At("shift") /\ shift = Shifts /\ Advance
  /\ shift' = 0
  /\ UNCHANGED <<loopVars, held, shared, pushes>>

Push ==
  /\ At("push") /\ Advance
  /\ hist' = [hist EXCEPT ![History] = obs]
  /\ pushes' = IF pushes < PushCap THEN pushes + 1 ELSE pushes
  /\ UNCHANGED <<loopVars, shift, held, angVel, obs, last, action>>

Thread ==
  Begin \/ Sense \/ Filter \/ Observe \/ CopyInputs \/ Infer \/ StoreLast
    \/ ShiftOne \/ ShiftDone \/ Push

Entering == EnterSense \/ EnterFilter \/ EnterObserve \/ EnterFill \/ EnterGo
Loop == EnterReset \/ Entering \/ RunState \/ Exit

\* The type of a policy is a parameter nobody changes while it runs.
Keeping(A) == A /\ UNCHANGED policyType

Next == Keeping(Loop) \/ Keeping(Thread)

Spec == Init /\ [][Next]_vars

\* The control loop finishes enter() and keeps running the state it is in;
\* the thread is scheduled by the operating system.  Nobody has to switch.
FairSpec ==
  /\ Spec
  /\ WF_vars(Keeping(Entering))
  /\ WF_vars(Keeping(RunState))
  /\ WF_vars(Keeping(Thread))
-----------------------------------------------------------------------------
(* Properties. *)

\* Types of all variables.
TypeOK ==
  /\ policyType \in PolicyTypes
  /\ now \in Age /\ loop \in {"out", "sense", "filter", "observe", "fill", "in"}
  /\ mixed \in AngVel /\ fill \in 0..History
  /\ stopUpdate \in BOOLEAN /\ threadFirst \in BOOLEAN /\ threads \in {0, 1}
  /\ step \in 0..Len(Cycle) /\ shift \in 0..(History - 1) /\ held \in Obs
  /\ angVel \in AngVel /\ obs \in Obs /\ last \in Age /\ hist \in [Slot -> Obs]
  /\ action \in Age /\ cmd \in Age /\ pushes \in 0..PushCap

\* The last n readings in an angular velocity are of this activation, so that
\* whatever is older has a share of at most 0.03 to the power of n in it.
Own(v, n) == v.of = now /\ v.fresh >= n
\* The push since enter() that slot i was filled by.
PushOf(i) == pushes - (History - i)

\* A cycle that was under way when the state was left, and ends after it is
\* entered again, spoils the fresh history, through last_actions one
\* observation of the next cycle, and through the filter the angular velocity
\* of every later one.  From the third push on an observation is of this
\* activation but for its angular velocity, in which the older readings
\* shrink with every push: History + 2 pushes later that holds of all slots,
\* and no reading of before has a share of more than 0.03^2 in any.
HistoryHeals ==
  \A i \in Slot :
    /\ PushOf(i) >= 3 => hist[i].oldest = now
    /\ PushOf(i) >= 2 => Own(hist[i].angVel, PushOf(i) - 1)

\* action_vec_ is not reset by enter(), and a late cycle may store an action
\* of an earlier activation.  Once the thread has inferred twice since then
\* (NP3O infers before it pushes, PPO after), run() commands only actions
\* computed from the robot as it is in this activation (the filter aside).
CommandHeals ==
  [][RunState /\ pushes >= (IF policyType = "np3o" THEN 2 ELSE 3) => cmd' = now]_vars

\* A policy that stays current ends up commanding actions of this activation.
EventuallyFresh == <>[](loop = "in") => <>[](cmd = now)
=============================================================================

------------------------------- MODULE Teleop -------------------------------
(***************************************************************************)
(* teleop_command: from the handset's switches to the goal rl_controller   *)
(* keeps in fsm_name_.  Two threads of TeleopCmdNode share joy_msg_ without *)
(* a lock: the CRSF receiver, which stores the axes of every frame         *)
(* (crsf_dataread_cb), and the node's timer, which turns them into a goal  *)
(* and publishes it if it changed (fsm_goal_cb).  Each reads or writes one *)
(* axis per step here, so a tick may see the axes of several frames.       *)
(*                                                                         *)
(* Only the axes the goal depends on are kept: 4 (left switch), 5 and 6.   *)
(* Nothing ever sets buttons 2..4, so the goals rl_1..rl_3 cannot arise.   *)
(* realtime_tools::RealtimePublisher is external: trylock fails from       *)
(* unlockAndPublish until its own thread has sent the message.             *)
(***************************************************************************)
EXTENDS Integers, Sequences

CONSTANTS
  Drill,  \* what happens around the node in one run: see DrillAssumption
  Depth   \* keep_last of the goal topic, 10 in the code

Axis == 4..6
Axes == [Axis -> {-1, 0, 1}]   \* integer divisions of channels in 172..1810

\* Of a drill: the switch positions the handset sends, the values of channel 8
\* ("sdk" is USE_SDK), the goals another node (an SDK client, the keyboard)
\* publishes.
ASSUME DrillAssumption ==
  \A d \in Drill : /\ DOMAIN d = {"positions", "keys", "others"}
                  /\ d.positions \subseteq Axes /\ d.positions # {} /\ "zero" \in d.keys
ASSUME DepthAssumption == Depth \in Nat \ {0}

TeleopGoal == {"transform_down", "transform_up", "rl_0", "jump"}
Goal == TeleopGoal \cup {"idle", ""} \cup UNION {d.others : d \in Drill}
Position == UNION {d.positions : d \in Drill}
Key == UNION {d.keys : d \in Drill}

VARIABLES
  drill,     \* the drill of this run
  frame,     \* the frame received last: switch positions and SDK key
  rx,        \* receiver: 0 waiting, 1..3 storing axis 3 + rx, 4 at the key
  joy,       \* joy_msg_->axes
  joyBusy,   \* the joy message has not been sent yet: trylock fails
  useSdk,    \* params_.use_sdk
  sdkBit,    \* crsf_transfer_data_.use_sdk, shown on the handset
  lastKey,   \* last_key
  tick,      \* where the timer callback is in fsm_goal_cb
  data,      \* realtime_fsm_goal_publisher_->msg_.data
  key,       \* joy_key_msg_.data, the goal published last
  goalBusy,  \* the goal message has not been sent yet
  topic,     \* goal messages on their way, oldest first
  goal       \* rl_controller: rc_data->fsm_name_

rxVars   == <<drill, frame, rx, joy, joyBusy, useSdk, sdkBit, lastKey>>
tickVars == <<tick, data, key, goalBusy>>
vars     == <<rxVars, tickVars, topic, goal>>
-----------------------------------------------------------------------------
\* last_key and the use_sdk bit are not initialised by the code.
Init ==
  /\ drill \in Drill
  /\ frame = [pos |-> [a \in Axis |-> 0], key |-> "zero"]
  /\ rx = 0 /\ joy = [a \in Axis |-> 0] /\ joyBusy = FALSE
  /\ useSdk = FALSE /\ sdkBit \in BOOLEAN /\ lastKey \in drill.keys
  /\ tick = "wait" /\ data = "" /\ key = "" /\ goalBusy = FALSE
  /\ topic = <<>> /\ goal = "idle"

(* The receiver thread: crsf_dataread_cb. *)

\* A frame with a good CRC.  In SDK mode, and while the joy publisher is
\* locked, its axes are ignored.
Receive ==
  /\ rx = 0
  /\ \E p \in drill.positions, k \in drill.keys : frame' = [pos |-> p, key |-> k]
  /\ rx' = IF useSdk \/ joyBusy THEN 4 ELSE 1
  /\ UNCHANGED <<drill, joy, joyBusy, useSdk, sdkBit, lastKey, tickVars, topic, goal>>

\* *joy_msg_ = msg, then unlockAndPublish.
StoreAxis ==
  /\ rx \in 1..3
  /\ joy' = [joy EXCEPT ![3 + rx] = frame.pos[3 + rx]]
  /\ rx' = rx + 1
  /\ joyBusy' = (rx = 3)
  /\ UNCHANGED <<drill, frame, useSdk, sdkBit, lastKey, tickVars, topic, goal>>

\* Mutant: the button acts on every frame, not on its edge.
EveryFrame == frame.key = "sdk"
Pressed == lastKey = "zero" /\ frame.key = "sdk"
ReadKey ==
  /\ rx = 4 /\ rx' = 0
  /\ IF Pressed
     THEN useSdk' = ~sdkBit /\ sdkBit' = ~sdkBit
     ELSE UNCHANGED <<useSdk, sdkBit>>
  /\ lastKey' = frame.key
  /\ UNCHANGED <<drill, frame, joy, joyBusy, tickVars, topic, goal>>

\* The joy publisher's thread.
SendJoy ==
  /\ joyBusy /\ joyBusy' = FALSE
  /\ UNCHANGED <<drill, frame, rx, joy, useSdk, sdkBit, lastKey, tickVars, topic, goal>>
-----------------------------------------------------------------------------
(* The timer: fsm_goal_cb, one read of an axis per step. *)

Goes(from, to) == tick = from /\ tick' = to /\ UNCHANGED <<rxVars, topic, goal>>
SetsData(g)    == data' = g /\ UNCHANGED <<key, goalBusy>>

\* trylock; axes[4] == 1.
AskDown ==
  /\ ~goalBusy
  /\ IF joy[4] = 1
     THEN Goes("wait", "gate") /\ SetsData("transform_down")
     ELSE Goes("wait", "up") /\ SetsData(data)
\* else if axes[4] == -1.
AskUp ==
  /\ Goes("up", "gate")
  /\ SetsData(IF joy[4] = -1 THEN "transform_up" ELSE data)
\* Mutant: the middle position counts as armed.
NotDown == joy[4] # 1
Armed == joy[4] = -1
\* if axes[4] == -1, read again.
AskArmed ==
  /\ Goes("gate", IF Armed THEN "mid" ELSE "compare") /\ SetsData(data)
\* axes[5] == 0 || axes[5] == -1, in two reads.
AskMid ==
  /\ joy[5] = 0 /\ Goes("mid", "jump") /\ SetsData("rl_0")
\* Mutant: only the middle position of axis 5 counts.
AskLowNever == joy[5] # 0 /\ Goes("mid", "compare") /\ SetsData(data)
AskLow ==
  \/ /\ joy[5] # 0 /\ Goes("mid", "low") /\ SetsData(data)
  \/ IF joy[5] = -1
     THEN Goes("low", "jump") /\ SetsData("rl_0")
     ELSE Goes("low", "compare") /\ SetsData(data)
\* axes[6] == -1; the buttons are never set.
AskJump ==
  /\ Goes("jump", "compare") /\ SetsData(IF joy[6] = -1 THEN "jump" ELSE data)

\* Mutant: published at every tick.
AlwaysChanged == TRUE
\* joy_key_msg_.data != msg.data
Changed == key # data
\* Publish only when the data changed.
Compare ==
  /\ Goes("compare", "wait")
  /\ key' = data /\ goalBusy' = Changed
  /\ UNCHANGED data
-----------------------------------------------------------------------------
(* The goal's way to rl_controller. *)

\* keep_last: a full history loses its oldest message.
Pushed(g) == Append(IF Len(topic) = Depth THEN Tail(topic) ELSE topic, g)

\* The goal publisher's thread.
SendGoal ==
  /\ goalBusy /\ goalBusy' = FALSE
  /\ topic' = Pushed(data)
  /\ UNCHANGED <<rxVars, tick, data, key, goal>>

OtherPublish(g) ==
  /\ topic' = Pushed(g)
  /\ UNCHANGED <<rxVars, tickVars, goal>>

\* RlController::fsm_goal_cb.
FsmGoalCb ==
  /\ topic # <<>>
  /\ goal' = Head(topic) /\ topic' = Tail(topic)
  /\ UNCHANGED <<rxVars, tickVars>>
-----------------------------------------------------------------------------
Receiver == StoreAxis \/ ReadKey
Timer    == AskDown \/ AskUp \/ AskArmed \/ AskMid \/ AskLow \/ AskJump \/ Compare

Next ==
  \/ Receive \/ Receiver \/ SendJoy \/ Timer \/ SendGoal \/ FsmGoalCb
  \/ \E g \in drill.others : OtherPublish(g)

Spec == Init /\ [][Next]_vars

\* The threads, timers and the executor of both nodes keep running, and
\* frames keep coming: with a dead link nothing below is promised.
FairSpec ==
  /\ Spec
  /\ WF_vars(Receive) /\ WF_vars(Receiver) /\ WF_vars(SendJoy)
  /\ WF_vars(Timer) /\ WF_vars(SendGoal) /\ WF_vars(FsmGoalCb)
-----------------------------------------------------------------------------
(* Properties. *)

\* Types of all variables.
TypeOK ==
  /\ frame \in [pos : Axes, key : Key] /\ rx \in 0..4 /\ joy \in Axes
  /\ joyBusy \in BOOLEAN /\ useSdk \in BOOLEAN /\ sdkBit \in BOOLEAN
  /\ lastKey \in Key
  /\ tick \in {"wait", "up", "gate", "mid", "low", "jump", "compare"}
  /\ data \in TeleopGoal \cup {""} /\ key \in TeleopGoal \cup {""}
  /\ goalBusy \in BOOLEAN /\ topic \in Seq(Goal) /\ Len(topic) <= Depth
  /\ goal \in Goal

\* What a resting handset asks for; the middle of the left switch asks for
\* nothing new.
Wanted(p) ==
  CASE p[4] = 1 -> "transform_down"
    [] p[4] = -1 /\ p[5] = 1 -> "transform_up"
    [] p[4] = -1 /\ p[5] # 1 /\ p[6] = -1 -> "jump"
    [] OTHER -> "rl_0"

\* Whatever mixture of frames a tick has seen, and whatever it published from
\* it: once the handset rests outside SDK mode and nobody else publishes, the
\* controller gets the goal of its position and keeps it.
HandsetObeyed ==
  [](drill.others = {}) =>
    \A p \in {q \in Position : q[4] # 0} :
      <>[](frame.pos = p /\ ~useSdk) => <>[](goal = Wanted(p))

\* "only publish when data changed": a handset at rest, or cut off by SDK
\* mode, falls silent, so that it does not override the SDK's goals.
FallsSilent ==
  (<>[]useSdk \/ \E p \in Position : <>[](frame.pos = p)) => <>[](~goalBusy)

\* No race between the two threads makes up a goal that raises or drives the
\* robot: as long as no frame has the left switch up, none is sent.
NeverArmedAlone ==
  [](frame.pos[4] # -1) => [](goal \in {"idle", "transform_down"} \cup drill.others)

\* The SDK button acts on its edge: held down (or left alone) over any number
\* of frames it does not switch the mode back and forth, whatever last_key
\* and the use_sdk bit were before anything initialised them.
HeldTogglesOnce ==
  \A k \in Key : <>[](frame.key = k) => (<>[]useSdk \/ <>[]~useSdk)
=============================================================================

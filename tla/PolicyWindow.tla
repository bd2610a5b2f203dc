---------------------------- MODULE PolicyWindow ----------------------------
(***************************************************************************)
(* The history of observations that an NP3O policy is given, in training   *)
(* and by the programs that run the exported network.  Every one of them   *)
(* keeps a window of frames and moves it on by one frame per inference;    *)
(* they differ in whether the current frame is in the window when the      *)
(* policy is called.  The network reads only the end of the window.        *)
(*                                                                         *)
(* A frame is the number of the observation.  The races of rl_controller's *)
(* forward thread with enter() are in PolicyThread; here its cycles are    *)
(* not disturbed.                                                          *)
(***************************************************************************)
EXTENDS Integers

CONSTANTS
  Clients,     \* the programs considered
  HistoryLen,  \* history_len: frames in the window
  Window,      \* bt_window: frames the encoder reads
  MaxFrames    \* bound on the frames observed

\* "training" is Isaac Lab's buffer in front of act() and act_inference(), the
\* others run the network of save_jit: a policy of rl_controller, and scripts
\* of sim2sim.
AppendFirst == {"training", "d1_rough", "tita"}
InferFirst  == {"rl_controller", "mini_flat", "mini_jump", "andy_height"}

\* What the theorems assume.  The class raises ValueError for a shorter history.
Parameters ==
  /\ Clients \subseteq AppendFirst \cup InferFirst
  /\ Window \in Nat \ {0} /\ HistoryLen \in Nat /\ HistoryLen >= Window + 1
  /\ MaxFrames \in Nat

VARIABLES
  client,   \* the program
  pc,       \* its next step: "start", "observe", "append" or "infer"
  frame,    \* observations so far
  first,    \* the observation that the window was filled with last
  history,  \* the window, the latest frame last
  input,    \* what the encoder got at the last inference
  asked     \* the frame that inference was for, 0 before the first one
vars == <<client, pc, frame, first, history, input, asked>>

Slot == 1..HistoryLen
Seen == 1..Window
-----------------------------------------------------------------------------
(* What the network reads. *)

\* _split_policy_obs: the frames of a window before its last one.
Preceding(h) == [i \in Seen |-> h[HistoryLen - Window - 1 + i]]
\* The backbone drops the oldest of them and appends the current frame.
EndingIn(hist, current) ==
  [i \in Seen |-> IF i < Window THEN hist[i + 1] ELSE current]
\* Training takes the current frame from the window, the export as an input.
TrainedInput  == EndingIn(Preceding(history), history[HistoryLen])
ExportedInput == EndingIn(Preceding(history), frame)
-----------------------------------------------------------------------------
Init ==
  /\ client \in Clients /\ pc = "start"
  /\ frame = 0 /\ first = 0 /\ asked = 0
  /\ history = [i \in Slot |-> 0]
  /\ input = [i \in Seen |-> 0]

\* enter(), a reset environment, the start of a script: the window is filled
\* with one observation.  Training and the Andy script infer with that very
\* observation, the others make the next one first.
Restarts == client \in {"training", "rl_controller"} /\ pc = "observe"
Fill ==
  /\ pc = "start" \/ Restarts
  /\ frame < MaxFrames
  /\ frame' = frame + 1 /\ first' = frame + 1
  /\ history' = [i \in Slot |-> frame + 1]
  /\ pc' = IF client \in {"training", "andy_height"} THEN "infer" ELSE "observe"
  /\ UNCHANGED <<client, input, asked>>

Observe ==
  /\ pc = "observe" /\ frame < MaxFrames
  /\ frame' = frame + 1
  /\ pc' = IF client \in AppendFirst THEN "append" ELSE "infer"
  /\ UNCHANGED <<client, first, history, input, asked>>

AppendFrame ==
  /\ pc = "append"
  /\ history' = [i \in Slot |-> IF i < HistoryLen THEN history[i + 1] ELSE frame]
  /\ pc' = IF client \in AppendFirst THEN "infer" ELSE "observe"
  /\ UNCHANGED <<client, frame, first, input, asked>>

Infer ==
  /\ pc = "infer"
  /\ input' = IF client = "training" THEN TrainedInput ELSE ExportedInput
  /\ asked' = frame
  /\ pc' = IF client \in AppendFirst THEN "observe" ELSE "append"
  /\ UNCHANGED <<client, frame, first, history>>

Next == Fill \/ Observe \/ AppendFrame \/ Infer
Spec == Init /\ [][Next]_vars
-----------------------------------------------------------------------------
Later(a, b) == IF a > b THEN a ELSE b

\* "Match training: history is oldest-to-newest and ends in current."
\* (_InferenceWrapper): the encoder reads the last bt_window frames, ending in
\* the current one, none left out; before there are as many, the first frame
\* stands for those that are missing.
InputAsTrained ==
  asked >= first =>
    input = [i \in Seen |-> Later(first, asked - Window + i)]

\* What the programs that infer before they append feed the encoder instead:
\* the frame just before the current one is missing, an older one is there.
FrameBeforeMissing ==
  asked >= first =>
    input = [i \in Seen |-> IF i < Window THEN Later(first, asked - Window - 1 + i)
                            ELSE asked]
=============================================================================

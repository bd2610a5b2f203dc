------------------------------ MODULE MCTeleop ------------------------------
(* The handset's positions of the drills: down, middle, stand and jump, and  *)
(* down and drive.                                                           *)
EXTENDS Teleop

At(a, b, c) == [x \in Axis |-> CASE x = 4 -> a [] x = 5 -> b [] OTHER -> c]
MCPosition == {At(1, 1, 0), At(0, 0, 0), At(-1, 1, 0), At(-1, -1, -1)}
\* Four positions and nothing else, or two positions with the SDK button and
\* an SDK client.
MCDrill == {[positions |-> MCPosition, keys |-> {"zero"}, others |-> {}],
            [positions |-> {At(1, 1, 0), At(-1, 0, 0)}, keys |-> {"zero", "sdk"},
             others |-> {"rl_0"}]}
=============================================================================

------------------------------ MODULE Posture ------------------------------
(***************************************************************************)
(* What the mode machine promises the operator about the robot's body,     *)
(* with no cycles, counters, goals or pending transitions: how a robot may *)
(* pass between lying limp, rising, standing, being held, being driven by  *)
(* a policy and being lowered.  RlFsm implements it.                       *)
(***************************************************************************)
VARIABLE posture

Postures == {"limp",     \* Passive: damped joints
             "rising",   \* TransformUp, not yet in the stand pose
             "stood",    \* TransformUp, the stand pose is commanded
             "stranded", \* TransformUp found the robot upside down
             "held",     \* JointPD
             "driven",   \* a policy
             "lowering", \* TransformDown, folding
             "folded"}   \* TransformDown, done

Init == posture = "limp"

Move(from, to) == posture = from /\ posture' \in to

GetUp    == Move("limp", {"rising", "stranded", "held"})
Rise     == Move("rising", {"stood", "stranded"})
HandOver == \E from \in {"stood", "stranded"} : Move(from, {"held", "driven", "lowering"})
Release  == Move("held", {"limp", "driven", "lowering"})
Lower    == Move("driven", {"lowering"})
Fold     == Move("lowering", {"folded"})
LieDown  == Move("folded", {"limp"})

Next == GetUp \/ Rise \/ HandOver \/ Release \/ Lower \/ Fold \/ LieDown

Spec == Init /\ [][Next]_posture
=============================================================================

---------------------------- MODULE JumpStages -----------------------------
(***************************************************************************)
(* What the rewards and the critic assume of a jump term of the training   *)
(* environments: a jump is prepared, started, flown and landed in this     *)
(* order, was_in_flight and has_jumped follow it, and everything is        *)
(* forgotten together when the next segment is drawn.  JumpFsm and         *)
(* TerrainJump are shown to implement it.                                  *)
(***************************************************************************)
VARIABLES stage, cmd, flown, jumped

jumpVars == <<stage, cmd, flown, jumped>>

Stage == {"RECOVERY", "PREP", "TAKEOFF", "FLIGHT", "LAND"}

\* A segment that has just been drawn.  The update that draws it may already
\* prepare a commanded jump, or take off if its delay is over.
Fresh(s, c) ==
  /\ s \in {"RECOVERY", "PREP", "TAKEOFF"} /\ c \in {0, 1}
  /\ s # "RECOVERY" => c = 1

Init == Fresh(stage, cmd) /\ flown = FALSE /\ jumped = FALSE

\* The jump is prepared, or started at once: only with the command set.
Start ==
  /\ \/ stage = "RECOVERY" /\ stage' \in {"PREP", "TAKEOFF"}
     \/ stage = "PREP" /\ stage' = "TAKEOFF"
  /\ cmd' = 1 /\ UNCHANGED <<flown, jumped>>

Leave ==
  /\ stage = "TAKEOFF" /\ stage' = "FLIGHT" /\ flown' = TRUE
  /\ UNCHANGED <<cmd, jumped>>

Land ==
  /\ stage = "FLIGHT" /\ stage' = "LAND" /\ jumped' = TRUE
  /\ UNCHANGED <<cmd, flown>>

Redraw == Fresh(stage', cmd') /\ flown' = FALSE /\ jumped' = FALSE

Next == Start \/ Leave \/ Land \/ Redraw

Spec == Init /\ [][Next]_jumpVars
=============================================================================

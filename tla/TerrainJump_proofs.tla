------------------------- MODULE TerrainJump_proofs ------------------------
(***************************************************************************)
(* Proofs about TerrainJump: its types, the reward activation, the sight   *)
(* of the obstacle at take-off, the bounds of the bonuses and that it      *)
(* implements JumpStages, for all timeouts, windows and episode lengths.   *)
(***************************************************************************)
EXTENDS TerrainJump, JumpTerm_proofs

\* ActiveIffJumping, of a row.
Active(s) == Agree(s) /\ (s.cmd = 1 <=> s.stage # "RECOVERY")

\* A step of JumpStages, or none, from row s to row u; the last disjunct is
\* the loss of the obstacle.
TMoves(s, u) ==
  \/ u.stage = s.stage /\ u.cmd = s.cmd /\ Same(s, u)
  \/ s.stage = "RECOVERY" /\ u.stage \in {"PREP", "TAKEOFF"} /\ u.cmd = 1 /\ Same(s, u)
  \/ s.stage = "PREP" /\ u.stage = "TAKEOFF" /\ u.cmd = s.cmd /\ Same(s, u)
  \/ /\ s.stage = "TAKEOFF" /\ u.stage = "FLIGHT" /\ u.cmd = s.cmd
     /\ u.flown = TRUE /\ u.jumped = s.jumped
  \/ /\ s.stage = "FLIGHT" /\ u.stage = "LAND" /\ u.cmd = s.cmd
     /\ u.flown = s.flown /\ u.jumped = TRUE
  \/ u.stage = "RECOVERY" /\ u.cmd = 0 /\ u.flown = FALSE /\ u.jumped = FALSE

\* The timer of PREP stays below its timeout until the take-off.
PrepRuns(s) == s.prep <= PrepSteps /\ (s.stage # "TAKEOFF" => s.prep < PrepSteps)
\* What is left of it after the contacts of an update.
PrepLeft(s) ==
  s.prep <= PrepSteps /\ (s.stage \in {"RECOVERY", "PREP"} => s.prep < PrepSteps)

\* A reset ends any jump and clears the activation.
LEMMA ResetTerrainFields ==
  ASSUME NEW s \in Row
  PROVE  LET u == ResetTerrain(s) IN
         /\ u \in Row /\ Running(u) /\ Active(u) /\ PrepRuns(u)
         /\ u.stage = "RECOVERY" /\ u.cmd = 0 /\ u.flown = FALSE /\ u.jumped = FALSE
         /\ u.trigger = 0 /\ u.prep = 0
<1>1. 0 \in {0, 1} /\ 0 \in Nat /\ 0 + 0 = 0
  OBVIOUS
<1>2. Reset(s, 0, 0, 0) \in Row /\ Running(Reset(s, 0, 0, 0))
  BY <1>1, ResetType
<1>3. LET u == Reset(s, 0, 0, 0) IN
      /\ u.stage = "RECOVERY" /\ u.cmd = 0 /\ u.flown = FALSE /\ u.jumped = FALSE
      /\ u.trigger = 0 /\ u.prep = 0
  BY <1>1 DEF Reset, Row
<1> QED
  BY <1>2, <1>3, PrepAssumption DEF ResetTerrain, Active, Agree, PrepRuns

\* A robot that waits notices an obstacle and prepares; nothing else changes.
LEMMA NoticedFields ==
  ASSUME NEW s \in Row, Active(s), NEW o \in Scan
  PROVE  LET u == Noticed(s, o) IN
         /\ u \in Row /\ Active(u) /\ Same(s, u) /\ u.trigger = s.trigger /\ u.prep = s.prep
         /\ u.s1 = s.s1 /\ u.fly = s.fly /\ u.s3 = s.s3
         /\ \/ u.stage = s.stage /\ u.cmd = s.cmd
            \/ s.stage = "RECOVERY" /\ u.stage = "PREP" /\ u.cmd = 1 /\ o # "none"
<1> DEFINE u == Noticed(s, o)
<1>1. CASE s.stage = "RECOVERY" /\ o # "none"
  <2>1. /\ u \in Row /\ u.stage = "PREP" /\ u.cmd = 1 /\ u.flown = s.flown
        /\ u.jumped = s.jumped /\ u.trigger = s.trigger /\ u.prep = s.prep
        /\ u.s1 = s.s1 /\ u.fly = s.fly /\ u.s3 = s.s3
    BY <1>1 DEF Noticed, Row, Stage
  <2> QED
    BY <2>1, <1>1 DEF Active, Agree, Same
<1>2. CASE ~(s.stage = "RECOVERY" /\ o # "none")
  BY <1>2 DEF Noticed, Same
<1> QED
  BY <1>1, <1>2

\* The preparation goes on, ends with a take-off before an obstacle, or is
\* reset when the obstacle is lost.
LEMMA PreparedFields ==
  ASSUME NEW s \in Row, Active(s), PrepLeft(s), NEW o \in Scan
  PROVE  LET u == Prepared(s, o) IN
         /\ u \in Row /\ Active(u) /\ PrepRuns(u) /\ (s.trigger = 0 => u.trigger = 0)
         /\ \/ u.stage = "RECOVERY" /\ u.cmd = 0 /\ u.flown = FALSE /\ u.jumped = FALSE
            \/ /\ u.s1 = s.s1 /\ u.fly = s.fly /\ u.s3 = s.s3 /\ u.cmd = s.cmd /\ Same(s, u)
               /\ \/ u.stage = s.stage
                  \/ s.stage = "PREP" /\ u.stage = "TAKEOFF" /\ o # "none"
               /\ u.stage = "PREP" => u.prep = s.prep + 1
<1> DEFINE u == Prepared(s, o)
           p == [s EXCEPT !.prep = IF s.stage = "PREP" THEN @ + 1 ELSE 0]
           k == IF s.stage = "PREP" /\ Due(p, o) THEN [p EXCEPT !.stage = "TAKEOFF"] ELSE p
<1>1. PICK n \in Nat : n = IF s.stage = "PREP" THEN s.prep + 1 ELSE 0
  BY DEF Row
<1>2. p = [s EXCEPT !.prep = n]
  BY <1>1
<1>3. /\ p \in Row /\ p.prep = n /\ p.stage = s.stage /\ p.cmd = s.cmd /\ p.flown = s.flown
      /\ p.jumped = s.jumped /\ p.trigger = s.trigger
      /\ p.s1 = s.s1 /\ p.fly = s.fly /\ p.s3 = s.s3
  BY <1>2 DEF Row
<1> HIDE DEF p
<1>4. /\ k \in Row /\ k.prep = n /\ k.cmd = s.cmd /\ k.flown = s.flown
      /\ k.jumped = s.jumped /\ k.trigger = s.trigger
      /\ k.s1 = s.s1 /\ k.fly = s.fly /\ k.s3 = s.s3
      /\ k.stage = IF s.stage = "PREP" /\ Due(p, o) THEN "TAKEOFF" ELSE s.stage
  BY <1>3 DEF Row, Stage
<1>5. u = IF Lost(s, o) THEN ResetTerrain(k) ELSE k
  BY DEF Prepared, p
<1> HIDE DEF k, u
<1>6. CASE Lost(s, o)
  <2>1. u = ResetTerrain(k)
    BY <1>5, <1>6
  <2> QED
    BY <2>1, <1>4, ResetTerrainFields DEF u
<1>7. CASE ~Lost(s, o)
  <2>1. u = k
    BY <1>5, <1>7
  <2>2. s.stage = "PREP" => o # "none"
    BY <1>7 DEF Lost
  <2>3. Active(u)
    BY <2>1, <1>4 DEF Active, Agree
  <2>4. PrepRuns(u)
    <3>1. s.stage = "PREP" /\ ~Due(p, o) => n < PrepSteps
      BY <1>3, PrepAssumption DEF Due
    <3>2. s.stage = "PREP" => n <= PrepSteps
      BY <1>1, PrepAssumption DEF PrepLeft, Row
    <3>3. s.stage # "PREP" => n = 0
      BY <1>1
    <3> QED
      BY <3>1, <3>2, <3>3, <2>1, <1>4, PrepAssumption DEF PrepRuns
  <2>5. Same(s, u)
    BY <2>1, <1>4 DEF Same
  <2>6. u.stage = s.stage \/ (s.stage = "PREP" /\ u.stage = "TAKEOFF" /\ o # "none")
    BY <2>1, <2>2, <1>4
  <2>7. u.stage = "PREP" => u.prep = s.prep + 1
    BY <2>1, <1>1, <1>4
  <2> QED
    BY <2>1, <2>3, <2>4, <2>5, <2>6, <2>7, <1>4 DEF u
<1> QED
  BY <1>6, <1>7

\* An update makes at most one step of JumpStages.
LEMMA UpdatedFields ==
  ASSUME NEW s \in Row, Active(s), PrepRuns(s), s.trigger = 0, NEW warm \in BOOLEAN,
         NEW t \in BOOLEAN, NEW fit \in BOOLEAN, NEW o \in Scan
  PROVE  LET u == Updated(s, warm, t, fit, o) IN
         /\ u \in Row /\ Active(u) /\ PrepRuns(u) /\ u.trigger = 0 /\ TMoves(s, u)
         /\ s.stage # "TAKEOFF" /\ u.stage = "TAKEOFF" => o # "none"
         /\ u.stage = "PREP" => u.prep = s.prep + 1
         /\ u.stage = "TAKEOFF" => u.s1 = s.s1 + 1
         /\ u.stage = "FLIGHT" => u.fly = s.fly + 1
         /\ u.stage = "LAND" => u.s3 = s.s3 + 1
<1> DEFINE c == Contact(s, t, fit)
           v == Noticed(c, o)
           w == Prepared(v, o)
           u == Counted(w, warm)
<1>0. Agree(s)
  BY DEF Active
<1>1. /\ c \in Row /\ Agree(c) /\ Moves(s, c) /\ c.cmd = s.cmd /\ c.trigger = 0
      /\ c.s1 = s.s1 /\ c.fly = s.fly /\ c.s3 = s.s3 /\ c.prep = s.prep
  <2>1. c \in Row
    BY ContactType
  <2>2. Agree(c) /\ Moves(s, c)
    BY <1>0, ContactMoves
  <2>3. /\ c.cmd = s.cmd /\ c.trigger = s.trigger /\ c.prep = s.prep
        /\ c.s1 = s.s1 /\ c.fly = s.fly /\ c.s3 = s.s3
    BY ContactFields
  <2> QED
    BY <2>1, <2>2, <2>3
<1>2. /\ c.stage \in {"RECOVERY", "PREP", "TAKEOFF"} => c.stage = s.stage
      /\ c.stage # s.stage => c.stage \in {"FLIGHT", "LAND"}
  BY <1>0, ContactMoves
<1> HIDE DEF c
<1>3. Active(c) /\ PrepLeft(c)
  <2>1. c.stage # s.stage => s.stage # "RECOVERY" /\ (s.stage = "TAKEOFF" \/ s.stage = "FLIGHT")
    BY <1>1, <1>2 DEF Moves
  <2>2. Active(c)
    BY <1>1, <1>2, <2>1 DEF Active
  <2>3. CASE c.stage = s.stage
    BY <2>2, <2>3, <1>1 DEF PrepRuns, PrepLeft
  <2>4. CASE c.stage # s.stage
    BY <2>2, <2>4, <1>1, <1>2 DEF PrepRuns, PrepLeft
  <2> QED
    BY <2>3, <2>4
<1>4. /\ v \in Row /\ Active(v) /\ Same(c, v) /\ v.trigger = 0 /\ v.prep = c.prep
      /\ v.s1 = c.s1 /\ v.fly = c.fly /\ v.s3 = c.s3
      /\ \/ v.stage = c.stage /\ v.cmd = c.cmd
         \/ c.stage = "RECOVERY" /\ v.stage = "PREP" /\ v.cmd = 1 /\ o # "none"
  BY <1>1, <1>3, NoticedFields
<1> HIDE DEF v
<1>5. PrepLeft(v)
  BY <1>3, <1>4 DEF PrepLeft
<1>6. /\ w \in Row /\ Active(w) /\ PrepRuns(w) /\ w.trigger = 0
      /\ \/ w.stage = "RECOVERY" /\ w.cmd = 0 /\ w.flown = FALSE /\ w.jumped = FALSE
         \/ /\ w.s1 = v.s1 /\ w.fly = v.fly /\ w.s3 = v.s3 /\ w.cmd = v.cmd /\ Same(v, w)
            /\ \/ w.stage = v.stage
               \/ v.stage = "PREP" /\ w.stage = "TAKEOFF" /\ o # "none"
            /\ w.stage = "PREP" => w.prep = v.prep + 1
  BY <1>4, <1>5, PreparedFields
<1> HIDE DEF w
<1>7. /\ u \in Row /\ u.stage = w.stage /\ u.cmd = w.cmd /\ Same(w, u)
      /\ u.trigger = w.trigger /\ u.prep = w.prep
      /\ u.s1 = IF w.stage = "TAKEOFF" THEN w.s1 + 1 ELSE 0
      /\ u.fly = IF w.stage = "FLIGHT" THEN w.fly + 1 ELSE 0
      /\ u.s3 = IF w.stage = "LAND" THEN w.s3 + 1 ELSE 0
  BY <1>6, CountedType, CountedFields DEF Same
<1>8. u = Updated(s, warm, t, fit, o)
  BY DEF Updated, c, v, w
<1> HIDE DEF u
<1>9. Active(u) /\ PrepRuns(u) /\ u.trigger = 0
  <2>1. u.stage = w.stage /\ u.cmd = w.cmd /\ u.flown = w.flown /\ u.jumped = w.jumped
    BY <1>7 DEF Same
  <2>2. Active(u)
    BY <2>1, <1>6 DEF Active, Agree
  <2> QED
    BY <2>2, <1>6, <1>7 DEF PrepRuns
<1>10. CASE w.stage = "RECOVERY" /\ w.cmd = 0 /\ w.flown = FALSE /\ w.jumped = FALSE
  <2>1. u.stage = "RECOVERY" /\ TMoves(s, u)
    BY <1>7, <1>10 DEF TMoves, Same
  <2> QED
    BY <2>1, <1>7, <1>8, <1>9
<1>11. CASE /\ w.s1 = v.s1 /\ w.fly = v.fly /\ w.s3 = v.s3 /\ w.cmd = v.cmd /\ Same(v, w)
            /\ \/ w.stage = v.stage
               \/ v.stage = "PREP" /\ w.stage = "TAKEOFF" /\ o # "none"
            /\ w.stage = "PREP" => w.prep = v.prep + 1
  <2>1. /\ u.stage = "PREP" => u.prep = s.prep + 1
        /\ u.stage = "TAKEOFF" => u.s1 = s.s1 + 1
        /\ u.stage = "FLIGHT" => u.fly = s.fly + 1
        /\ u.stage = "LAND" => u.s3 = s.s3 + 1
    <3>1. u.stage = "PREP" => u.prep = s.prep + 1
      BY <1>1, <1>4, <1>7, <1>11
    <3>2. w.s1 = s.s1 /\ w.fly = s.fly /\ w.s3 = s.s3
      BY <1>1, <1>4, <1>11
    <3> QED
      BY <3>1, <3>2, <1>7
  <2>2. s.stage # "TAKEOFF" /\ u.stage = "TAKEOFF" => o # "none"
    BY <1>2, <1>4, <1>7, <1>11
  <2>3. Same(c, u)
    BY <1>4, <1>7, <1>11 DEF Same
  <2>4. CASE c.stage # s.stage
    <3>1. u.stage = c.stage /\ u.cmd = c.cmd
      BY <2>4, <1>2, <1>4, <1>7, <1>11
    <3>2. TMoves(s, u)
      BY <3>1, <2>3, <2>4, <1>1, <1>2 DEF Moves, Same, TMoves
    <3> QED
      BY <3>2, <2>1, <2>2, <1>7, <1>8, <1>9
  <2>5. CASE c.stage = s.stage
    <3>1. Same(s, u)
      BY <2>3, <2>5, <1>1 DEF Moves, Same
    <3>2. \/ u.stage = s.stage /\ u.cmd = s.cmd
          \/ s.stage = "RECOVERY" /\ u.stage \in {"PREP", "TAKEOFF"} /\ u.cmd = 1
          \/ s.stage = "PREP" /\ u.stage = "TAKEOFF" /\ u.cmd = s.cmd
      BY <2>5, <1>1, <1>4, <1>7, <1>11
    <3>3. TMoves(s, u)
      BY <3>1, <3>2 DEF TMoves
    <3> QED
      BY <3>3, <2>1, <2>2, <1>7, <1>8, <1>9
  <2> QED
    BY <2>4, <2>5
<1> QED
  BY <1>6, <1>10, <1>11
-----------------------------------------------------------------------------
(* The invariant. *)

\* The account from which the next step goes on, and the age of PREP.
Open == IF fresh THEN Zero ELSE paid
Age == IF st.stage = "PREP" THEN st.prep - 1 ELSE 0

IInv ==
  /\ TypeOK
  /\ Active(st) /\ PrepRuns(st) /\ (st.stage = "PREP" => st.prep > 0)
  /\ Settled(Open, st, PrepSteps - 1, Age) /\ Bounded(paid, PrepSteps - 1)

\* In one type: a row whose timers, that of PREP included, run below their
\* time-outs and that has no trigger step.
LEMMA TerrainRow ==
  ASSUME NEW s
  PROVE  s \in Row /\ Running(s) /\ PrepRuns(s) /\ s.trigger = 0 <=>
         /\ s \in [cmd : {0, 1}, stage : Stage, flown : BOOLEAN, jumped : BOOLEAN,
                   last : BOOLEAN, rec : 0..(RecoverySteps - 1), s1 : 0..(S1Steps - 1),
                   fly : Nat, s3 : 0..(S3Steps - 1), trigger : {0}, prep : 0..PrepSteps]
         /\ s.stage # "TAKEOFF" => s.prep < PrepSteps
BY TimeoutAssumption, PrepAssumption DEF Row, Running, PrepRuns

\* The robot waits, nothing has been paid and no jump is active.
LEMMA InitIInv == Init => IInv
<1> SUFFICES ASSUME Init PROVE IInv
  OBVIOUS
<1>1. /\ st = Blank /\ paid = Zero /\ fresh = TRUE /\ steps = 0
      /\ episode \in 0..(EpisodeSteps - 1) /\ touch \in BOOLEAN /\ obstacle = "none"
  BY DEF Init
<1>2. /\ st \in Row /\ Running(st) /\ PrepRuns(st) /\ st.trigger = 0 /\ Active(st)
      /\ st.stage = "RECOVERY"
  BY <1>1, TimeoutAssumption, PrepAssumption
     DEF Blank, Row, Stage, Running, PrepRuns, Active, Agree
<1>3. TypeOK
  BY <1>1, <1>2, TerrainRow, StepsAssumption DEF TypeOK, Scan, Zero, Stage
<1>4. Settled(Zero, st, PrepSteps - 1, 0)
  <2>1. PrepSteps - 1 \in Nat
    BY PrepAssumption
  <2> QED
    BY <2>1, <1>2, ZeroSettled
<1>5. Bounded(paid, PrepSteps - 1)
  BY <1>1, <1>4 DEF Settled
<1> QED
  BY <1>1, <1>2, <1>3, <1>4, <1>5 DEF IInv, Open, Age

\* One env.step, its parts named.
LEMMA StepIInv ==
  ASSUME IInv,
         NEW over \in BOOLEAN, NEW t \in BOOLEAN, NEW fit \in BOOLEAN, NEW b \in BOOLEAN,
         NEW o \in Scan, Step(over, t, fit, b, o)
  PROVE  /\ IInv'
         /\ st.stage # "TAKEOFF" /\ st'.stage = "TAKEOFF" => obstacle' # "none"
         /\ [Stages!Next]_Stages!jumpVars
<1> DEFINE ended == over \/ episode + 1 >= EpisodeSteps
           warm  == Warm(Ticked(steps))
           begun == IF ended THEN ResetTerrain(st) ELSE st
           upd   == Updated(begun, warm, t, fit, o)
           late  == Expired(upd)
<1> HIDE DEF ended, warm
<1>1. /\ st' = IF late THEN ResetTerrain(upd) ELSE upd
      /\ episode' = IF ended THEN 0 ELSE episode + 1
      /\ steps' = Ticked(steps) /\ touch' = t /\ obstacle' = o
      /\ fresh' = (ended \/ st'.stage = "RECOVERY")
      /\ paid' = Paid(Open, st, b)
  BY DEF Step, Open, ended, warm
<1>2. /\ st \in Row /\ Running(st) /\ PrepRuns(st) /\ st.trigger = 0 /\ Active(st)
      /\ episode \in 0..(EpisodeSteps - 1) /\ steps \in 0..WarmupSteps
  BY TerrainRow DEF IInv, TypeOK
<1>3. warm \in BOOLEAN /\ ended \in BOOLEAN
  BY DEF ended, warm, Warm
<1>4. Ticked(steps) \in 0..WarmupSteps /\ episode' \in 0..(EpisodeSteps - 1)
  BY <1>1, <1>2, StepsAssumption DEF Ticked, ended
<1>5. /\ begun \in Row /\ Active(begun) /\ PrepRuns(begun) /\ begun.trigger = 0
      /\ ended => begun.stage = "RECOVERY" /\ begun.prep = 0
                 /\ begun.flown = FALSE /\ begun.jumped = FALSE
      /\ ~ended => begun = st
  <2>1. CASE ended
    <3>1. begun = ResetTerrain(st)
      BY <2>1
    <3> HIDE DEF begun
    <3> QED
      BY <2>1, <3>1, <1>2, ResetTerrainFields
  <2>2. CASE ~ended
    BY <2>2, <1>2
  <2> QED
    BY <2>1, <2>2, <1>3
<1> HIDE DEF begun
<1>6. /\ upd \in Row /\ Active(upd) /\ PrepRuns(upd) /\ upd.trigger = 0 /\ TMoves(begun, upd)
      /\ begun.stage # "TAKEOFF" /\ upd.stage = "TAKEOFF" => o # "none"
      /\ upd.stage = "PREP" => upd.prep = begun.prep + 1
      /\ upd.stage = "TAKEOFF" => upd.s1 = begun.s1 + 1
      /\ upd.stage = "FLIGHT" => upd.fly = begun.fly + 1
      /\ upd.stage = "LAND" => upd.s3 = begun.s3 + 1
  BY <1>3, <1>5, UpdatedFields
<1> HIDE DEF upd
<1>7. late => /\ st'.stage = "RECOVERY" /\ st'.cmd = 0 /\ st'.flown = FALSE
              /\ st'.jumped = FALSE
  BY <1>1, <1>6, ResetTerrainFields
<1>8. st' \in Row /\ Running(st') /\ Active(st') /\ PrepRuns(st') /\ st'.trigger = 0
  <2>1. CASE late
    BY <2>1, <1>1, <1>6, ResetTerrainFields
  <2>2. CASE ~late
    <3>1. Running(upd)
      BY <2>2, <1>6, TimeoutAssumption DEF Expired, Running, Row
    <3> QED
      BY <3>1, <2>2, <1>1, <1>6
  <2> QED
    BY <2>1, <2>2
<1>9. TypeOK'
  <2>1. paid' \in [stage : Stage, bonus : Nat, unposed : Nat]
    BY <1>1, <1>2 DEF IInv, TypeOK, Paid, Open, Zero, Row, Stage
  <2> QED
    BY <2>1, <1>1, <1>3, <1>4, <1>8, TerrainRow DEF TypeOK
<1>10. /\ st'.stage = "PREP" => st'.prep > 0
       /\ st'.stage = "TAKEOFF" => st'.s1 > 0
       /\ st'.stage = "FLIGHT" => st'.fly > 0
       /\ st'.stage = "LAND" => st'.s3 > 0
  BY <1>1, <1>5, <1>6, <1>7 DEF Row
<1>11. st.stage # "TAKEOFF" /\ st'.stage = "TAKEOFF" => obstacle' # "none"
  BY <1>1, <1>5, <1>6, <1>7
<1>12. [Stages!Next]_Stages!jumpVars
  <2>1. st'.cmd \in {0, 1} /\ (st'.stage # "RECOVERY" => st'.cmd = 1)
    BY <1>8 DEF Active, Agree, Row
  <2>2. CASE ended \/ late \/ (st'.stage = "RECOVERY" /\ st'.flown = FALSE /\ st'.jumped = FALSE)
    <3>1. /\ st'.stage \in {"RECOVERY", "PREP", "TAKEOFF"}
          /\ st'.flown = FALSE /\ st'.jumped = FALSE
      BY <2>2, <1>1, <1>5, <1>6, <1>7 DEF TMoves, Same
    <3> QED
      BY <2>1, <3>1 DEF Stages!Next, Stages!Redraw, Stages!Fresh
  <2>3. CASE ~(ended \/ late \/ (st'.stage = "RECOVERY" /\ st'.flown = FALSE /\ st'.jumped = FALSE))
    <3>1. TMoves(st, st') /\ ~(st'.stage = "RECOVERY" /\ st'.flown = FALSE /\ st'.jumped = FALSE)
      BY <2>3, <1>1, <1>5, <1>6
    <3>2. Agree(st) /\ Agree(st')
      BY <1>2, <1>8 DEF Active
    <3> QED
      BY <2>1, <3>1, <3>2 DEF TMoves, Same, Agree, Stages!Next, Stages!Start,
                              Stages!Leave, Stages!Land, Stages!jumpVars
  <2> QED
    BY <2>2, <2>3
<1>13. Settled(Open, st, PrepSteps - 1, Age)' /\ Bounded(paid, PrepSteps - 1)'
  <2>1. /\ Settled(Open, st, PrepSteps - 1, Age) /\ PrepSteps - 1 \in Nat
        /\ st.flown <=> st.stage \in {"FLIGHT", "LAND"}
    BY <1>2, PrepAssumption DEF IInv, Active, Agree
  <2>2. Age \in Nat /\ Age' \in Nat /\ (st.stage = "PREP" => Age < PrepSteps - 1)
    BY <1>2, <1>8, <1>10, PrepAssumption DEF IInv, Age, PrepRuns, Row
  <2>3. Bounded(paid, PrepSteps - 1)'
    BY <2>1, <2>2, <1>1, <1>2, PaidBounded
  <2>4. CASE fresh'
    <3>1. Settled(Zero, st', PrepSteps - 1, Age')
      BY <2>1, <2>2, <1>8, <1>10, ZeroSettled
    <3> QED
      BY <2>3, <2>4, <3>1 DEF Open
  <2>5. CASE ~fresh'
    <3>1. st' = upd /\ begun = st /\ st'.stage # "RECOVERY" /\ TMoves(st, st')
      BY <2>5, <1>1, <1>5, <1>6, <1>7
    <3>2. st.stage = "PREP" /\ st'.stage = "PREP" => Age' = Age + 1
      BY <3>1, <1>2, <1>6 DEF Age, Row
    <3>3. /\ st'.stage = "PREP" => st.stage \in {"RECOVERY", "PREP"}
          /\ st'.stage = "TAKEOFF" => st.stage \in {"RECOVERY", "PREP", "TAKEOFF"}
      BY <3>1 DEF TMoves
    <3>4. Settled(Paid(Open, st, b), st', PrepSteps - 1, Age')
      BY <2>1, <2>2, <3>1, <3>2, <3>3, <1>2, <1>6, <1>8, <1>10, PaidSettled
    <3> QED
      BY <2>3, <2>5, <3>4, <1>1 DEF Open
  <2> QED
    BY <2>4, <2>5
<1>14. IInv'
  BY <1>8, <1>9, <1>10, <1>13 DEF IInv
<1> QED
  BY <1>11, <1>12, <1>14
-----------------------------------------------------------------------------
(* The theorems. *)

\* The invariant, one env.step after the other.
THEOREM Invariance == Spec => []IInv
<1>1. IInv /\ [Next]_vars => IInv'
  <2> SUFFICES ASSUME IInv, [Next]_vars PROVE IInv'
    OBVIOUS
  <2>1. CASE Next
    BY <2>1, StepIInv DEF Next
  <2>2. CASE UNCHANGED vars
    BY <2>2 DEF vars, IInv, TypeOK, Open, Age
  <2> QED
    BY <2>1, <2>2
<1> QED
  BY <1>1, InitIInv, PTL DEF Spec

\* No timer of TerrainJumpCommand passes its timeout.
THEOREM TerrainTypes == Spec => []TypeOK
<1>1. IInv => TypeOK
  BY DEF IInv
<1> QED
  BY <1>1, Invariance, PTL

\* The reward activation and the flags follow the stage.
THEOREM ActivationFollowsStage == Spec => []ActiveIffJumping
<1>1. IInv => ActiveIffJumping
  BY DEF IInv, Active, Agree, ActiveIffJumping
<1> QED
  BY <1>1, Invariance, PTL

\* No bonus is paid for longer than its timeout or window.
THEOREM TerrainBonusesBounded == Spec => []BonusBounded
<1>1. IInv => BonusBounded
  BY DEF IInv, BonusBounded
<1> QED
  BY <1>1, Invariance, PTL

\* Every take-off sees an obstacle.
THEOREM SightedTakeoffs == Spec => TakeoffSeesObstacle
<1>1. IInv /\ [Next]_vars
      => [st.stage # "TAKEOFF" /\ st'.stage = "TAKEOFF" => obstacle' # "none"]_vars
  BY StepIInv DEF Next
<1> QED
  BY <1>1, Invariance, PTL DEF Spec, TakeoffSeesObstacle

\* The terrain-triggered jump implements JumpStages too.
THEOREM TerrainRefinesStages == Spec => ImplementsStages
<1>1. Init => Stages!Init
  BY DEF Init, Blank, Stages!Init, Stages!Fresh
<1>2. IInv /\ [Next]_vars => [Stages!Next]_Stages!jumpVars
  <2> SUFFICES ASSUME IInv, [Next]_vars PROVE [Stages!Next]_Stages!jumpVars
    OBVIOUS
  <2>1. CASE Next
    BY <2>1, StepIInv DEF Next
  <2>2. CASE UNCHANGED vars
    BY <2>2 DEF vars, Stages!jumpVars
  <2> QED
    BY <2>1, <2>2
<1> QED
  BY <1>1, <1>2, Invariance, PTL DEF Spec, ImplementsStages, Stages!Spec
=============================================================================

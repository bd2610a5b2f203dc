--------------------------- MODULE JumpFsm_proofs --------------------------
(***************************************************************************)
(* Proofs about JumpFsm: its types, the agreement of flags and stages, the *)
(* instant of take-off, the bounds of the bonuses, and that an automatic   *)
(* run implements JumpStages, for all timeouts, delays, warm-ups, windows  *)
(* and episode lengths; and that a held key makes it jump again and again. *)
(***************************************************************************)
EXTENDS JumpFsm, JumpTerm_proofs

\* _update_command makes rows of rows.
LEMMA UpdatedType ==
  ASSUME play \in BOOLEAN, NEW s \in Row, NEW ep \in Nat, NEW warm \in BOOLEAN,
         NEW t \in BOOLEAN, NEW fit \in BOOLEAN
  PROVE  Updated(s, ep, warm, t, fit) \in Row
<1> DEFINE c == Contact(s, t, fit)
<1>1. c \in Row
  BY ContactType
<1>2. Manual(c) \in Row
  BY <1>1 DEF Manual, Row, Stage
<1>3. Trigger(c, ep, warm \/ play) \in Row
  BY <1>1 DEF Trigger, Row, Stage
<1> QED
  BY <1>2, <1>3, CountedType DEF Updated

\* So does the key of manual mode.
LEMMA PressedType ==
  ASSUME NEW s \in Row, NEW k \in {0, 1}
  PROVE  Pressed(s, k) \in Row
BY DEF Pressed, Row, Stage

\* The trigger step begins a jump, or leaves the stage alone; what still waits
\* behind it has not reached its step.
LEMMA TriggerMoves ==
  ASSUME NEW s \in Row, Agree(s), NEW ep \in Nat, NEW can \in BOOLEAN
  PROVE  LET u == Trigger(s, ep, can) IN
         /\ Agree(u) /\ Moves(s, u) /\ u.trigger = s.trigger /\ Same(s, u)
         /\ s.stage \notin {"RECOVERY", "PREP"} => u.stage = s.stage
         /\ u.stage = "TAKEOFF" => s.stage = "TAKEOFF" \/ (can /\ ep >= s.trigger)
         /\ u.cmd = 1 /\ can /\ u.stage \in {"RECOVERY", "PREP"} => ep < s.trigger
         /\ u.stage = "PREP" => s.stage = "PREP" \/ can
         /\ u.s1 = s.s1 /\ u.fly = s.fly /\ u.s3 = s.s3
<1> DEFINE u == Trigger(s, ep, can)
           prep == IF can /\ s.cmd = 1 /\ s.stage = "RECOVERY" THEN "PREP" ELSE s.stage
<1>1. /\ u.cmd = s.cmd /\ u.flown = s.flown /\ u.jumped = s.jumped /\ u.trigger = s.trigger
      /\ u.stage = IF can /\ s.cmd = 1 /\ ep >= s.trigger /\ prep = "PREP"
                   THEN "TAKEOFF" ELSE prep
      /\ u.s1 = s.s1 /\ u.fly = s.fly /\ u.s3 = s.s3
  BY DEF Trigger, Row
<1>2. s.trigger \in Nat /\ s.stage \in Stage
  BY DEF Row
<1>3. u.stage = "TAKEOFF" => s.stage = "TAKEOFF" \/ (can /\ ep >= s.trigger)
  BY <1>1, <1>2 DEF Stage
<1>4. u.cmd = 1 /\ can /\ u.stage \in {"RECOVERY", "PREP"} => ep < s.trigger
  BY <1>1, <1>2 DEF Stage
<1>5. Agree(u) /\ Moves(s, u)
  BY <1>1, <1>2 DEF Agree, Moves, Same, Stage
<1> QED
  BY <1>1, <1>2, <1>3, <1>4, <1>5 DEF Stage, Same

\* An automatic update makes at most one step of JumpStages, and takes off
\* exactly when the trigger says so.
LEMMA UpdatedMoves ==
  ASSUME ~manual, play \in BOOLEAN, NEW s \in Row, Agree(s), NEW ep \in Nat,
         NEW warm \in BOOLEAN, NEW t \in BOOLEAN, NEW fit \in BOOLEAN
  PROVE  LET u == Updated(s, ep, warm, t, fit) IN
         /\ Agree(u) /\ Moves(s, u) /\ u.trigger = s.trigger
         /\ u.stage = "TAKEOFF"
              => s.stage = "TAKEOFF" \/ ((warm \/ play) /\ ep >= s.trigger)
         /\ u.cmd = 1 /\ (warm \/ play) /\ u.stage \in {"RECOVERY", "PREP"}
              => ep < s.trigger
         /\ u.stage = "PREP" => s.stage = "PREP" \/ warm \/ play
         /\ u.s1 = IF u.stage = "TAKEOFF" THEN s.s1 + 1 ELSE 0
         /\ u.fly = IF u.stage = "FLIGHT" THEN s.fly + 1 ELSE 0
         /\ u.s3 = IF u.stage = "LAND" THEN s.s3 + 1 ELSE 0
<1> DEFINE c == Contact(s, t, fit)
           g == Trigger(c, ep, warm \/ play)
           u == Counted(g, warm)
<1>0. warm \/ play \in BOOLEAN
  OBVIOUS
<1>1. /\ c \in Row /\ Agree(c) /\ Moves(s, c) /\ c.cmd = s.cmd /\ c.trigger = s.trigger
      /\ c.s1 = s.s1 /\ c.fly = s.fly /\ c.s3 = s.s3
  BY ContactType, ContactMoves, ContactFields
<1>2. /\ c.stage \in {"RECOVERY", "PREP", "TAKEOFF"} => c.stage = s.stage
      /\ c.stage # s.stage => c.stage \in {"FLIGHT", "LAND"}
  BY ContactMoves
<1>3. /\ Agree(g) /\ Moves(c, g) /\ g.trigger = c.trigger /\ Same(c, g)
      /\ c.stage \notin {"RECOVERY", "PREP"} => g.stage = c.stage
      /\ g.stage = "TAKEOFF"
           => c.stage = "TAKEOFF" \/ ((warm \/ play) /\ ep >= c.trigger)
      /\ g.cmd = 1 /\ (warm \/ play) /\ g.stage \in {"RECOVERY", "PREP"}
           => ep < c.trigger
      /\ g.stage = "PREP" => c.stage = "PREP" \/ warm \/ play
      /\ g.s1 = c.s1 /\ g.fly = c.fly /\ g.s3 = c.s3
  BY <1>0, <1>1, TriggerMoves
<1>4. g \in Row
  BY <1>1 DEF Trigger, Row, Stage
<1>5. /\ u.stage = g.stage /\ u.cmd = g.cmd /\ u.flown = g.flown
      /\ u.jumped = g.jumped /\ u.trigger = g.trigger
      /\ u.s1 = IF g.stage = "TAKEOFF" THEN g.s1 + 1 ELSE 0
      /\ u.fly = IF g.stage = "FLIGHT" THEN g.fly + 1 ELSE 0
      /\ u.s3 = IF g.stage = "LAND" THEN g.s3 + 1 ELSE 0
  BY <1>4, CountedFields
<1>6. Moves(s, g)
  <2>1. CASE c.stage = s.stage
    BY <2>1, <1>1, <1>3 DEF Moves, Same
  <2>2. CASE c.stage # s.stage
    BY <2>2, <1>1, <1>2, <1>3 DEF Moves, Same
  <2> QED
    BY <2>1, <2>2
<1>7. Agree(u) /\ Moves(s, u)
  BY <1>3, <1>5, <1>6 DEF Agree, Moves, Same
<1>8. u = Updated(s, ep, warm, t, fit)
  BY DEF Updated
<1> QED
  BY <1>1, <1>2, <1>3, <1>5, <1>7, <1>8

\* In every mode, an update ends in FLIGHT only as the contacts allow.
LEMMA UpdatedContacts ==
  ASSUME play \in BOOLEAN, NEW s \in Row, NEW ep \in Nat, NEW warm \in BOOLEAN,
         NEW t \in BOOLEAN, NEW fit \in BOOLEAN
  PROVE  LET u == Updated(s, ep, warm, t, fit) IN
         /\ u.last = t
         /\ u.stage = "FLIGHT" =>
              s.stage = "FLIGHT" \/ (s.stage = "TAKEOFF" /\ ~t /\ ~s.last)
<1> DEFINE c == Contact(s, t, fit)
           m == IF manual THEN Manual(c) ELSE Trigger(c, ep, warm \/ play)
<1>1. /\ c \in Row /\ c.last = t
      /\ c.stage = "FLIGHT" => s.stage = "FLIGHT" \/ (s.stage = "TAKEOFF" /\ ~t /\ ~s.last)
  BY ContactType, ContactFields
<1>2. Manual(c) \in Row /\ Manual(c).last = t /\ (Manual(c).stage = "FLIGHT" => c.stage = "FLIGHT")
  BY <1>1 DEF Manual, Row, Stage
<1>3. LET g == Trigger(c, ep, warm \/ play)
      IN g \in Row /\ g.last = t /\ (g.stage = "FLIGHT" => c.stage = "FLIGHT")
  BY <1>1 DEF Trigger, Row, Stage
<1>4. m \in Row /\ m.last = t /\ (m.stage = "FLIGHT" => c.stage = "FLIGHT")
  BY <1>2, <1>3
<1>5. Counted(m, warm).last = m.last /\ Counted(m, warm).stage = m.stage
  BY <1>4, CountedFields
<1>6. Updated(s, ep, warm, t, fit) = Counted(m, warm)
  BY DEF Updated
<1> QED
  BY <1>1, <1>4, <1>5, <1>6
-----------------------------------------------------------------------------
(* The invariant. *)

\* The segment may be the first of a training run, whose episode began at a
\* random length.
First == ~play /\ steps <= age

\* Where the trigger lies, seen from the last reset: episode - age is the
\* step of that reset.
OnTime ==
  /\ st.trigger - (episode - age) <= MaxDelay
  /\ st.trigger - (episode - age) >= MinDelay \/ First
  /\ st.stage = "TAKEOFF" => (Warm(steps) \/ play) /\ episode >= st.trigger
  /\ st.cmd = 1 /\ (Warm(steps) \/ play) /\ st.stage \in {"RECOVERY", "PREP"}
       => episode < st.trigger \/ age = 0
  /\ st.stage = "PREP" => (Warm(steps) \/ play) /\ episode < st.trigger

\* The account from which the next step goes on.
Open == IF age = 0 THEN Zero ELSE paid

IInv ==
  /\ TypeOK
  /\ age <= episode
  /\ st.stage # "RECOVERY" => st.last = touch
  /\ ~manual => /\ Agree(st) /\ OnTime
                /\ Settled(Open, st, MaxDelay, age) /\ Bounded(paid, MaxDelay)

\* The row before the first reset is one.
LEMMA BlankType == Blank \in Row
BY DEF Blank, Row, Stage

\* What a reset draws: a command of 0 or 1, a delay in steps.
LEMMA DrawnType == Drawn \subseteq {0, 1} /\ Delay \subseteq Nat
BY DelayAssumption DEF Drawn, Delay

\* The first reset makes the invariant true, in every mode.
LEMMA InitIInv == Init => IInv
<1> SUFFICES ASSUME Init PROVE IInv
  OBVIOUS
<1>1. PICK c \in Drawn, d \in Delay : st = Reset(Blank, c, 0, d)
  BY DEF Init
<1>2. c \in {0, 1} /\ d \in Nat
  BY DrawnType
<1>3. st \in Row /\ Running(st)
  BY <1>1, <1>2, BlankType, ResetType
<1>4. /\ st.stage = "RECOVERY" /\ st.cmd = c /\ st.flown = FALSE /\ st.jumped = FALSE
      /\ st.trigger = 0 + d
  <2>1. 0 \in Nat
    OBVIOUS
  <2> QED
    BY <2>1, <1>1, <1>2, BlankType, ResetFields, Zenon
<1>5. /\ episode \in 0..(EpisodeSteps - 1) /\ (play => episode = 0)
      /\ steps = 0 /\ touch \in BOOLEAN /\ age = 0 /\ key = 0
      /\ play \in BOOLEAN /\ manual \in BOOLEAN /\ paid = Zero
  BY StepsAssumption DEF Init
<1>6. TypeOK
  BY <1>3, <1>5, RunningType, StepsAssumption DEF TypeOK, Keys, Zero, Stage
<1>7. Agree(st) /\ OnTime
  <2>1. d \in Nat /\ d >= MinDelay /\ d <= MaxDelay
    BY <1>2, DelayAssumption DEF Delay
  <2>2. /\ st.trigger - (episode - age) <= MaxDelay
        /\ st.trigger - (episode - age) >= MinDelay \/ First
    BY <2>1, <1>4, <1>5, DelayAssumption, StepsAssumption DEF First
  <2> QED
    BY <2>2, <1>2, <1>4, <1>5 DEF Agree, OnTime
<1>8. Settled(Open, st, MaxDelay, age) /\ Bounded(paid, MaxDelay)
  <2>1. Settled(Zero, st, MaxDelay, 0)
    BY <1>3, <1>4, DelayAssumption, ZeroSettled
  <2> QED
    BY <2>1, <1>5 DEF Open, Settled
<1> QED
  BY <1>4, <1>5, <1>6, <1>7, <1>8 DEF IInv

\* One env.step, its parts named.
LEMMA StepIInv ==
  ASSUME IInv,
         NEW k \in Keys, NEW over \in BOOLEAN, NEW t \in BOOLEAN, NEW fit \in BOOLEAN,
         NEW b \in BOOLEAN, NEW c \in Drawn, NEW d \in Delay, Step(k, over, t, fit, b, c, d)
  PROVE  /\ IInv'
         /\ st.stage # "FLIGHT" /\ st'.stage = "FLIGHT" => ~touch /\ ~touch'
         /\ [Stages!Next]_Stages!jumpVars
<1> DEFINE ended == over \/ episode + 1 >= EpisodeSteps
           ep    == IF ended THEN 0 ELSE episode + 1
           warm  == Warm(Ticked(steps))
           prs   == Pressed(st, k)
           begun == IF ended THEN Reset(prs, c, 0, d) ELSE prs
           upd   == Updated(begun, ep, warm, t, fit)
           late  == Expired(upd)
<1> HIDE DEF ended, warm
<1>1. /\ st' = IF late THEN Reset(upd, c, ep, d) ELSE upd
      /\ episode' = ep /\ steps' = Ticked(steps) /\ touch' = t /\ key' = k
      /\ age' = IF ended \/ late THEN 0 ELSE age + 1
      /\ paid' = Paid(Open, st, b) /\ play' = play /\ manual' = manual
  BY DEF Step, Open, modes, ended, warm
<1>2. /\ st \in Row /\ Running(st) /\ episode \in Nat /\ age \in Nat /\ steps \in Nat
      /\ episode < EpisodeSteps /\ age <= episode /\ touch \in BOOLEAN
      /\ play \in BOOLEAN /\ manual \in BOOLEAN
      /\ paid \in [stage : Stage, bonus : Nat, unposed : Nat]
  BY RunningType, StepsAssumption DEF IInv, TypeOK
<1>3. c \in {0, 1} /\ d \in Nat /\ k \in {0, 1} /\ (~manual => k = 0)
  BY DrawnType DEF Keys
<1>4. /\ ep \in Nat /\ ep \in 0..(EpisodeSteps - 1) /\ warm \in BOOLEAN /\ ended \in BOOLEAN
      /\ ended => ep = 0
      /\ ~ended => ep = episode + 1
  BY <1>2, StepsAssumption DEF ended, warm, Warm
<1>5. Ticked(steps) \in 0..WarmupSteps
  BY StepsAssumption DEF IInv, TypeOK, Ticked
<1>6. prs \in Row /\ prs.last = st.last /\ prs.stage = st.stage /\ (~manual => prs = st)
  BY <1>2, <1>3, PressedType DEF Pressed, Row
<1>7. /\ begun \in Row
      /\ ended => /\ begun.stage = "RECOVERY" /\ begun.cmd = c /\ begun.flown = FALSE
                  /\ begun.jumped = FALSE /\ begun.trigger = d
      /\ ~ended => begun = prs
  <2>1. CASE ended
    <3>1. begun = Reset(prs, c, 0, d) /\ 0 \in Nat
      BY <2>1
    <3> HIDE DEF prs
    <3>2. Reset(prs, c, 0, d) \in Row
      BY <3>1, <1>3, <1>6, ResetType
    <3>3. LET u == Reset(prs, c, 0, d) IN
          /\ u.stage = "RECOVERY" /\ u.cmd = c /\ u.flown = FALSE /\ u.jumped = FALSE
          /\ u.trigger = 0 + d
      BY <3>1, <1>3, <1>6, ResetFields, Zenon
    <3>4. 0 + d = d
      BY <1>3
    <3> HIDE DEF begun
    <3> QED
      BY <2>1, <3>1, <3>2, <3>3, <3>4
  <2>2. CASE ~ended
    BY <2>2, <1>6
  <2> QED
    BY <2>1, <2>2
<1> HIDE DEF ep, prs, begun
<1>8. upd \in Row
  BY <1>2, <1>4, <1>7, UpdatedType
<1>9. /\ upd.last = t
      /\ upd.stage = "FLIGHT" =>
           begun.stage = "FLIGHT" \/ (begun.stage = "TAKEOFF" /\ ~t /\ ~begun.last)
  <2>1. begun \in Row /\ ep \in Nat /\ warm \in BOOLEAN /\ play \in BOOLEAN
    BY <1>2, <1>4, <1>7
  <2> QED
    BY <2>1, UpdatedContacts, SMTT(20)
<1> HIDE DEF upd
<1>10. st' \in Row /\ Running(st')
  <2>1. CASE late
    BY <2>1, <1>1, <1>3, <1>4, <1>8, ResetType
  <2>2. CASE ~late
    BY <2>2, <1>1, <1>8, TimeoutAssumption DEF Expired, Running, Row
  <2> QED
    BY <2>1, <2>2
<1>11. late => /\ st'.stage = "RECOVERY" /\ st'.cmd = c /\ st'.flown = FALSE
               /\ st'.jumped = FALSE /\ st'.trigger = ep + d
  BY <1>1, <1>3, <1>4, <1>8, ResetFields
<1>12. age' \in Nat /\ age' <= episode'
  BY <1>1, <1>2, <1>4
<1>13. TypeOK'
  <2>1. age' \in 0..(EpisodeSteps - 1) /\ episode' \in 0..(EpisodeSteps - 1)
    BY <1>1, <1>4, <1>12, StepsAssumption
  <2>2. paid' \in [stage : Stage, bonus : Nat, unposed : Nat]
    BY <1>1, <1>2 DEF Paid, Open, Zero, Row, Stage
  <2>3. key' \in Keys'
    BY <1>1 DEF Keys
  <2> QED
    BY <2>1, <2>2, <2>3, <1>1, <1>2, <1>5, <1>10, RunningType DEF TypeOK
<1>14. st'.stage # "RECOVERY" => st'.last = touch'
  BY <1>1, <1>9, <1>11
<1>15. st.stage # "FLIGHT" /\ st'.stage = "FLIGHT" => ~touch /\ ~touch'
  BY <1>1, <1>6, <1>7, <1>9, <1>11 DEF IInv
<1>16. ASSUME ~manual
       PROVE  /\ Agree(st)' /\ OnTime' /\ [Stages!Next]_Stages!jumpVars
              /\ Settled(Open, st, MaxDelay, age)' /\ Bounded(paid, MaxDelay)'
  <2>1. Agree(st) /\ OnTime /\ prs = st
    BY <1>16, <1>6 DEF IInv
  <2>2. Agree(begun)
    BY <2>1, <1>7 DEF Agree
  <2>3. /\ Agree(upd) /\ Moves(begun, upd) /\ upd.trigger = begun.trigger
        /\ upd.stage = "TAKEOFF"
             => begun.stage = "TAKEOFF" \/ ((warm \/ play) /\ ep >= begun.trigger)
        /\ upd.cmd = 1 /\ (warm \/ play) /\ upd.stage \in {"RECOVERY", "PREP"}
             => ep < begun.trigger
        /\ upd.stage = "PREP" => begun.stage = "PREP" \/ warm \/ play
        /\ upd.s1 = IF upd.stage = "TAKEOFF" THEN begun.s1 + 1 ELSE 0
        /\ upd.fly = IF upd.stage = "FLIGHT" THEN begun.fly + 1 ELSE 0
        /\ upd.s3 = IF upd.stage = "LAND" THEN begun.s3 + 1 ELSE 0
    <3>1. begun \in Row /\ ep \in Nat /\ warm \in BOOLEAN /\ play \in BOOLEAN
      BY <1>2, <1>4, <1>7
    <3>2. upd = Updated(begun, ep, warm, t, fit)
      BY DEF upd
    <3> QED
      BY <3>1, <3>2, <2>2, <1>16, UpdatedMoves, SMTT(30)
  <2>4. Agree(st)'
    BY <2>3, <1>1, <1>11 DEF Agree
  <2>5. OnTime'
    <3>0. /\ d >= MinDelay /\ d <= MaxDelay /\ MinDelay \in Nat /\ MaxDelay \in Nat
          /\ st.trigger \in Nat
      BY <1>2, DelayAssumption DEF Delay, Row
    <3>1. CASE late
      <4>1. st'.trigger - (episode' - age') = d
        BY <3>1, <1>1, <1>3, <1>4, <1>11
      <4> QED
        BY <4>1, <3>0, <3>1, <1>1, <1>11 DEF OnTime
    <3>2. CASE ~late
      <4>1. st'.trigger = begun.trigger /\ st'.stage = upd.stage /\ st'.cmd = upd.cmd
        BY <3>2, <2>3, <1>1
      <4>2. /\ st'.trigger - (episode' - age') <= MaxDelay
            /\ st'.trigger - (episode' - age') >= MinDelay \/ First'
        <5>1. CASE ended
          BY <5>1, <3>0, <3>2, <4>1, <1>1, <1>3, <1>4, <1>7
        <5>2. CASE ~ended
          <6>1. st'.trigger = st.trigger /\ episode' = episode + 1 /\ age' = age + 1
            BY <5>2, <3>2, <4>1, <2>1, <1>1, <1>4, <1>7
          <6>2. episode' - age' = episode - age
            BY <6>1, <1>2
          <6>3. First => First'
            <7>1. steps' <= steps + 1
              BY <1>1, <1>2 DEF Ticked
            <7>2. steps' \in Nat
              BY <1>1, <1>5, StepsAssumption
            <7> QED
              BY <7>1, <7>2, <6>1, <1>1, <1>2 DEF First
          <6> QED
            BY <6>1, <6>2, <6>3, <2>1 DEF OnTime
        <5> QED
          BY <5>1, <5>2, <1>4
      <4>3. Warm(steps) => warm
        BY <1>2, StepsAssumption DEF warm, Warm, Ticked
      <4>4. begun.stage = "TAKEOFF" => (warm \/ play) /\ ep >= begun.trigger
        BY <2>1, <4>3, <1>2, <1>4, <1>7 DEF OnTime, Row
      <4>5. warm <=> Warm(steps')
        BY <1>1 DEF warm
      <4>6. st'.stage = "TAKEOFF" => (Warm(steps') \/ play') /\ episode' >= st'.trigger
        BY <4>1, <4>4, <4>5, <2>3, <1>1
      <4>7. /\ st'.cmd = 1 /\ (Warm(steps') \/ play) /\ st'.stage \in {"RECOVERY", "PREP"}
            => episode' < st'.trigger
        BY <4>1, <2>3, <1>1 DEF warm
      <4>8. st'.stage = "PREP" => (Warm(steps') \/ play') /\ episode' < st'.trigger
        <5>1. begun.stage = "PREP" => warm \/ play
          BY <4>3, <2>1, <1>4, <1>7 DEF OnTime
        <5>2. st'.stage = "PREP" => warm \/ play
          BY <5>1, <4>1, <2>3
        <5>3. st'.stage = "PREP" => st'.cmd = 1
          BY <2>4 DEF Agree
        <5> QED
          BY <5>2, <5>3, <4>5, <4>7, <1>1
      <4> QED
        BY <4>2, <4>6, <4>7, <4>8, <1>1 DEF OnTime
    <3> QED
      BY <3>1, <3>2
  <2>6. [Stages!Next]_Stages!jumpVars
    <3>1. CASE ended \/ late
      <4>1. /\ st'.stage \in {"RECOVERY", "PREP", "TAKEOFF"}
            /\ st'.flown = FALSE /\ st'.jumped = FALSE
        BY <3>1, <2>3, <1>1, <1>7, <1>11 DEF Moves, Same
      <4>2. st'.cmd \in {0, 1} /\ (st'.stage # "RECOVERY" => st'.cmd = 1)
        BY <2>4, <1>10 DEF Agree, Row
      <4> QED
        BY <4>1, <4>2 DEF Stages!Next, Stages!Redraw, Stages!Fresh
    <3>2. CASE ~ended /\ ~late
      <4>1. Moves(st, st')
        BY <3>2, <2>1, <2>3, <1>1, <1>7
      <4>2. Agree(st) /\ Agree(st')
        BY <2>1, <2>4 DEF Agree
      <4>3. ~manual /\ manual' = manual
        BY <1>1, <1>16
      <4>4. CASE st'.stage = st.stage /\ Same(st, st')
        BY <4>1, <4>3, <4>4 DEF Moves, Same, Stages!jumpVars
      <4>5. CASE st.stage = "RECOVERY" /\ st'.stage \in {"PREP", "TAKEOFF"} /\ Same(st, st')
        BY <4>1, <4>2, <4>3, <4>5 DEF Same, Agree, Stages!Next, Stages!Start
      <4>6. CASE st.stage = "PREP" /\ st'.stage = "TAKEOFF" /\ Same(st, st')
        BY <4>1, <4>2, <4>3, <4>6 DEF Same, Agree, Stages!Next, Stages!Start
      <4>7. CASE st.stage = "TAKEOFF" /\ st'.stage = "FLIGHT" /\ st'.flown = TRUE
                 /\ st'.jumped = st.jumped
        BY <4>1, <4>3, <4>7 DEF Moves, Stages!Next, Stages!Leave
      <4>8. CASE st.stage = "FLIGHT" /\ st'.stage = "LAND" /\ st'.flown = st.flown
                 /\ st'.jumped = TRUE
        BY <4>1, <4>3, <4>8 DEF Moves, Stages!Next, Stages!Land
      <4> QED
        BY <4>1, <4>4, <4>5, <4>6, <4>7, <4>8 DEF Moves
    <3> QED
      BY <3>1, <3>2
  <2>7. Settled(Open, st, MaxDelay, age)' /\ Bounded(paid, MaxDelay)'
    <3>1. /\ Settled(Open, st, MaxDelay, age) /\ MaxDelay \in Nat
          /\ st.flown <=> st.stage \in {"FLIGHT", "LAND"}
      BY <1>16, <2>1, DelayAssumption DEF IInv, Agree
    <3>2. st.stage = "PREP" => age < MaxDelay
      BY <2>1, <1>2, DelayAssumption DEF OnTime, Delay, Row
    <3>3. Bounded(paid, MaxDelay)'
      BY <3>1, <3>2, <1>1, <1>2, PaidBounded
    <3>4. /\ st'.stage = "TAKEOFF" => st'.s1 > 0
          /\ st'.stage = "FLIGHT" => st'.fly > 0
          /\ st'.stage = "LAND" => st'.s3 > 0
      BY <2>3, <1>1, <1>7, <1>11 DEF Row
    <3>5. CASE ended \/ late
      <4>1. Settled(Zero, st', MaxDelay, 0)
        BY <3>1, <3>4, <1>10, ZeroSettled
      <4> QED
        BY <4>1, <3>3, <3>5, <1>1 DEF Open
    <3>6. CASE ~ended /\ ~late
      <4>1. st' = upd /\ begun = st /\ age' = age + 1 /\ age' # 0 /\ age + 1 \in Nat
        BY <3>6, <2>1, <1>1, <1>2, <1>7
      <4>2. Moves(st, st')
        BY <4>1, <2>3
      <4>3. Settled(Paid(Open, st, b), st', MaxDelay, age + 1)
        BY <4>1, <4>2, <3>1, <3>2, <3>4, <2>3, <1>2, <1>10, PaidSettled DEF Moves
      <4> QED
        BY <4>1, <4>3, <3>3, <1>1 DEF Open
    <3> QED
      BY <3>5, <3>6
  <2> QED
    BY <2>4, <2>5, <2>6, <2>7
<1>17. manual => [Stages!Next]_Stages!jumpVars
  BY <1>1, <1>2 DEF Stages!jumpVars
<1>18. IInv'
  BY <1>1, <1>12, <1>13, <1>14, <1>16 DEF IInv
<1> QED
  BY <1>15, <1>16, <1>17, <1>18
-----------------------------------------------------------------------------
(* The theorems. *)

\* The invariant, one env.step after the other.
THEOREM Invariance == Spec => []IInv
<1>1. IInv /\ [Next]_vars => IInv'
  <2> SUFFICES ASSUME IInv, [Next]_vars PROVE IInv'
    OBVIOUS
  <2>1. CASE Next
    BY <2>1, StepIInv DEF Next
  <2>2. CASE UNCHANGED vars
    BY <2>2 DEF vars, modes, IInv, TypeOK, OnTime, First, Open, Agree, Keys
  <2> QED
    BY <2>1, <2>2
<1> QED
  BY <1>1, InitIInv, PTL DEF Spec

\* No timer of JumpCommand passes its timeout, whatever the timeouts are.
THEOREM TypeCorrect == Spec => []TypeOK
<1>1. IInv => TypeOK
  BY DEF IInv
<1> QED
  BY <1>1, Invariance, PTL

\* was_in_flight, has_jumped and the command agree with the stage.
THEOREM FlagsFollowStage == Spec => []FlagsAgree
<1>1. IInv => FlagsAgree
  BY DEF IInv, Agree, FlagsAgree
<1> QED
  BY <1>1, Invariance, PTL

\* The training tasks warm up for 1200 or 12000 steps, their delays are 125:
\* when the first jump may begin, the random length that the first episode
\* began with no longer matters.
WarmupCoversDelay == MinDelay <= WarmupSteps

\* The trigger delay counts from the last reset, of whichever kind.
THEOREM OnTimeTakeoff ==
  ASSUME WarmupCoversDelay
  PROVE  Spec => []TakesOffOnTime
<1>1. IInv => TakesOffOnTime
  <2> SUFFICES ASSUME IInv, ~manual PROVE TakesOffOnTime
    BY DEF TakesOffOnTime
  <2>1. /\ OnTime /\ episode \in Nat /\ age \in Nat /\ steps \in Nat /\ WarmupSteps \in Nat
        /\ st.trigger \in Nat /\ MinDelay \in Nat /\ MaxDelay \in Nat
        /\ MinDelay <= WarmupSteps
    BY StepsAssumption, DelayAssumption DEF IInv, TypeOK, WarmupCoversDelay
  <2>2. st.stage = "TAKEOFF" => age >= MinDelay
    BY <2>1 DEF OnTime, First, Warm
  <2> QED
    BY <2>1, <2>2 DEF OnTime, TakesOffOnTime
<1> QED
  BY <1>1, Invariance, PTL

\* No flight without two steps off the ground, in any mode.
THEOREM RealFlights == Spec => NoPhantomFlight
<1>1. IInv /\ [Next]_vars
      => [st.stage # "FLIGHT" /\ st'.stage = "FLIGHT" => ~touch /\ ~touch']_vars
  BY StepIInv DEF Next
<1> QED
  BY <1>1, Invariance, PTL DEF Spec, NoPhantomFlight

\* No bonus of a jump is paid for longer than its delay, timeout or window.
THEOREM BonusesBounded == Spec => []BonusBounded
<1>1. IInv => BonusBounded
  BY DEF IInv, BonusBounded
<1> QED
  BY <1>1, Invariance, PTL

\* An automatic run implements JumpStages.
THEOREM RefinesStages == Spec => ImplementsStages
<1>1. Init => Stages!Init
  <2> SUFFICES ASSUME Init PROVE Stages!Init
    OBVIOUS
  <2>1. PICK c \in Drawn, d \in Delay : st = Reset(Blank, c, 0, d)
    BY DEF Init
  <2>2. c \in {0, 1} /\ d \in Nat /\ 0 \in Nat
    BY DrawnType
  <2>3. st.stage = "RECOVERY" /\ st.cmd = c /\ st.flown = FALSE /\ st.jumped = FALSE
    BY <2>1, <2>2, BlankType, ResetFields, Zenon
  <2> QED
    BY <2>2, <2>3 DEF Stages!Init, Stages!Fresh
<1>2. IInv /\ [Next]_vars => [Stages!Next]_Stages!jumpVars
  <2> SUFFICES ASSUME IInv, [Next]_vars PROVE [Stages!Next]_Stages!jumpVars
    OBVIOUS
  <2>1. CASE Next
    BY <2>1, StepIInv DEF Next
  <2>2. CASE UNCHANGED vars
    BY <2>2 DEF vars, modes, Stages!jumpVars
  <2> QED
    BY <2>1, <2>2
<1> QED
  BY <1>1, <1>2, Invariance, PTL DEF Spec, ImplementsStages, Stages!Spec
-----------------------------------------------------------------------------
(* A held key makes the robot jump again and again.  What ENABLED says of a *)
(* step is opaque to the prover, so it is a hypothesis.                     *)

\* The environment can always be stepped to something else.
GuardEnables == EpisodeSteps > 1 => ENABLED <<Next>>_vars

\* An attempt to take off lasts more than the update that begins it, and a
\* landing at most some 20 s; the configurations have 5 s or less of each, in
\* steps of 0.02 s.
TimeoutsConfigured == S1Steps > 1 /\ S3Steps <= 1024

\* What a held key finds: the robot back in RECOVERY, with or without the flag
\* of a past flight; aloft or about to be; landed, for i steps at least.
Held     == manual /\ key = 1
Clear    == st.stage = "RECOVERY" /\ ~st.flown
Marked   == st.stage = "RECOVERY" /\ st.flown
Aloft    == st.stage \in {"TAKEOFF", "FLIGHT"}
Landed   == st.stage = "LAND"
AtLeast(i) == Landed /\ st.s3 >= i

\* The operator's jumps have no preparation and begin with the timer at 0.
AtOnce == manual => st.stage # "PREP" /\ (st.stage = "RECOVERY" => st.s1 = 0)

\* One env.step with the key held.
LEMMA HeldStep ==
  ASSUME IInv, AtOnce, manual, S1Steps > 1,
         NEW k \in Keys, NEW over \in BOOLEAN, NEW t \in BOOLEAN, NEW fit \in BOOLEAN,
         NEW b \in BOOLEAN, NEW c \in Drawn, NEW d \in Delay, Step(k, over, t, fit, b, c, d)
  PROVE  /\ AtOnce'
         /\ k = 1 => /\ Clear => Clear' \/ Aloft'
                     /\ Clear /\ episode' > 0 => Aloft'
                     /\ Landed => Clear' \/ Aloft' \/ (Landed' /\ st'.s3 = st.s3 + 1)
                     /\ Marked => Clear' \/ Aloft' \/ Landed'
<1> DEFINE ended == over \/ episode + 1 >= EpisodeSteps
           ep    == IF ended THEN 0 ELSE episode + 1
           warm  == Warm(Ticked(steps))
           prs   == Pressed(st, k)
           begun == IF ended THEN Reset(prs, c, 0, d) ELSE prs
           upd   == Updated(begun, ep, warm, t, fit)
           late  == Expired(upd)
<1> HIDE DEF ended, warm
<1>1. /\ st' = IF late THEN Reset(upd, c, ep, d) ELSE upd
      /\ episode' = ep /\ manual' = manual
  BY DEF Step, modes, ended, warm
<1>2. /\ st \in Row /\ episode \in Nat /\ st.stage # "PREP"
      /\ st.stage = "RECOVERY" => st.s1 = 0
  BY RunningType, StepsAssumption DEF IInv, TypeOK, AtOnce
<1>3. c \in {0, 1} /\ d \in Nat /\ k \in {0, 1}
  BY DrawnType DEF Keys
<1>4. /\ ep \in Nat /\ warm \in BOOLEAN
      /\ ended => ep = 0
      /\ ~ended => ep > 0
  BY <1>2 DEF ended, warm, Warm
<1>5. prs \in Row /\ prs = [st EXCEPT !.cmd = k]
  BY <1>2, <1>3, PressedType DEF Pressed
<1>6. /\ prs.stage = st.stage /\ prs.flown = st.flown /\ prs.s1 = st.s1 /\ prs.s3 = st.s3
      /\ prs.cmd = k
  BY <1>2, <1>5 DEF Row
<1>7. /\ begun \in Row
      /\ ended => begun.stage = "RECOVERY" /\ ~begun.flown /\ begun.s1 = 0
      /\ ~ended => begun = prs
  <2> HIDE DEF prs
  <2>1. Reset(prs, c, 0, d) \in Row
    BY <1>3, <1>5, ResetType
  <2>2. LET u == Reset(prs, c, 0, d) IN u.stage = "RECOVERY" /\ u.flown = FALSE /\ u.s1 = 0
    <3>1. 0 \in Nat
      OBVIOUS
    <3> QED BY <3>1, <1>3, <1>5, ResetFields, Zenon
  <2> QED BY <2>1, <2>2, <1>5
<1> HIDE DEF ep, prs, begun
<1>8. /\ upd \in Row /\ upd.stage # "PREP"
      /\ begun.stage = "RECOVERY" /\ ~begun.flown =>
           /\ ~upd.flown
           /\ upd.stage = IF begun.cmd = 1 THEN "TAKEOFF" ELSE "RECOVERY"
      /\ begun.stage = "LAND" /\ begun.cmd = 1 => upd.stage = "LAND"
      /\ upd.s1 = IF upd.stage = "TAKEOFF" THEN begun.s1 + 1 ELSE 0
      /\ upd.s3 = IF upd.stage = "LAND" THEN begun.s3 + 1 ELSE 0
      /\ upd.stage = "TAKEOFF" => upd.rec = 0
      /\ begun.cmd = 1 => upd.stage # "RECOVERY"
  <2> DEFINE con == Contact(begun, t, fit)
             man == Manual(con)
  <2>1. begun.stage # "PREP" /\ begun.cmd \in {0, 1}
    BY <1>2, <1>6, <1>7 DEF Row
  <2>2. con \in Row /\ con.cmd = begun.cmd /\ con.s1 = begun.s1 /\ con.s3 = begun.s3
    BY <1>7, ContactType, ContactFields
  <2>3. /\ begun.stage = "RECOVERY" /\ ~begun.flown => con.stage = "RECOVERY" /\ ~con.flown
        /\ begun.stage = "LAND" => con.stage = "LAND"
        /\ con.stage # "PREP"
    BY <1>7, <2>1 DEF Contact, MayLeave, Row
  <2> HIDE DEF con
  <2>4. /\ man \in Row /\ man.cmd = con.cmd /\ man.s1 = con.s1 /\ man.s3 = con.s3
        /\ man.flown = con.flown
        /\ man.stage = IF con.cmd = 0 THEN "RECOVERY"
                       ELSE IF con.stage = "RECOVERY" THEN "TAKEOFF" ELSE con.stage
    BY <2>2 DEF Manual, Row, Stage
  <2>5. upd = Counted(man, warm)
    BY DEF Updated, con
  <2> HIDE DEF man, upd
  <2>6. /\ upd \in Row /\ upd.stage = man.stage /\ upd.flown = man.flown
        /\ upd.s1 = IF man.stage = "TAKEOFF" THEN man.s1 + 1 ELSE 0
        /\ upd.s3 = IF man.stage = "LAND" THEN man.s3 + 1 ELSE 0
    BY <1>4, <2>4, <2>5, CountedType, CountedFields
  <2>7. upd.stage = "TAKEOFF" => upd.rec = 0
    BY <1>4, <2>4, <2>5, CountedFields DEF Counted, Row
  <2> QED BY <2>1, <2>2, <2>3, <2>4, <2>6, <2>7
<1> HIDE DEF upd
<1>9. late => st'.stage = "RECOVERY" /\ st'.flown = FALSE /\ st'.s1 = 0
  BY <1>1, <1>3, <1>4, <1>8, ResetFields
<1>10. ~late => st' = upd
  BY <1>1
<1>11. AtOnce'
  BY <1>8, <1>9, <1>10 DEF AtOnce
<1>12. ASSUME k = 1, Clear
       PROVE  (Clear' \/ Aloft') /\ (episode' > 0 => Aloft')
  <2>1. begun.stage = "RECOVERY" /\ ~begun.flown
    BY <1>6, <1>7, <1>12 DEF Clear
  <2>2. Clear' \/ Aloft'
    BY <2>1, <1>8, <1>9, <1>10 DEF Clear, Aloft
  <2>3. ASSUME episode' > 0 PROVE Aloft'
    <3>1. begun = prs /\ begun.cmd = 1 /\ begun.s1 = 0
      BY <2>3, <1>1, <1>2, <1>4, <1>6, <1>7, <1>12 DEF Clear
    <3>2. upd.stage = "TAKEOFF" /\ upd.s1 = 1 /\ upd.s3 = 0 /\ upd.rec = 0
      BY <2>1, <3>1, <1>8
    <3>3. ~late
      BY <3>2, TimeoutAssumption DEF Expired
    <3> QED BY <3>2, <3>3, <1>10 DEF Aloft
  <2> QED BY <2>2, <2>3
<1>13. ASSUME k = 1, Landed
       PROVE  Clear' \/ Aloft' \/ (Landed' /\ st'.s3 = st.s3 + 1)
  <2>1. CASE ended
    BY <2>1, <1>7, <1>8, <1>9, <1>10 DEF Clear, Aloft
  <2>2. CASE ~ended
    BY <2>2, <1>6, <1>7, <1>8, <1>9, <1>10, <1>13 DEF Clear, Landed
  <2> QED BY <2>1, <2>2
<1>14. ASSUME k = 1, Marked PROVE Clear' \/ Aloft' \/ Landed'
  <2>1. CASE ended
    BY <2>1, <1>7, <1>8, <1>9, <1>10 DEF Clear, Aloft
  <2>2. CASE ~ended
    <3>1. upd \in Row /\ upd.stage # "PREP" /\ upd.stage # "RECOVERY"
      BY <2>2, <1>6, <1>7, <1>8, <1>14 DEF Marked
    <3> QED BY <3>1, <1>9, <1>10 DEF Row, Stage, Clear, Aloft, Landed
  <2> QED BY <2>1, <2>2
<1> QED
  BY <1>11, <1>12, <1>13, <1>14

\* In no run has the operator's robot a preparation.
LEMMA AtOnceAlways == S1Steps > 1 => (Spec => []AtOnce)
<1>1. Init => AtOnce
  <2> SUFFICES ASSUME Init PROVE AtOnce
    OBVIOUS
  <2>1. PICK c \in Drawn, d \in Delay : st = Reset(Blank, c, 0, d)
    BY DEF Init
  <2>2. c \in {0, 1} /\ d \in Nat /\ 0 \in Nat
    BY DrawnType
  <2>3. st.stage = "RECOVERY" /\ st.s1 = 0
    BY <2>1, <2>2, BlankType, ResetFields, Zenon
  <2> QED BY <2>3 DEF AtOnce
<1>2. S1Steps > 1 /\ IInv /\ AtOnce /\ [Next]_vars => AtOnce'
  <2> SUFFICES ASSUME S1Steps > 1, IInv, AtOnce, [Next]_vars PROVE AtOnce'
    OBVIOUS
  <2>1. CASE UNCHANGED vars
    BY <2>1 DEF vars, modes, AtOnce
  <2>2. CASE Next
    <3>1. PICK k \in Keys, over \in BOOLEAN, t \in BOOLEAN, fit \in BOOLEAN, b \in BOOLEAN,
               c \in Drawn, d \in Delay : Step(k, over, t, fit, b, c, d)
      BY <2>2 DEF Next
    <3>2. CASE manual
      BY <3>1, <3>2, HeldStep
    <3>3. CASE ~manual
      BY <3>1, <3>3 DEF Step, modes, AtOnce
    <3> QED BY <3>2, <3>3
  <2> QED BY <2>1, <2>2
<1>3. CASE S1Steps > 1
  <2>1. IInv /\ AtOnce /\ [Next]_vars => AtOnce'
    BY <1>2, <1>3
  <2>2. Spec => []AtOnce
    BY <1>1, <2>1, Invariance, PTL DEF Spec
  <2> QED BY <2>2
<1> QED BY <1>3

\* Clear, at the beginning of an episode or later.
ClearFirst == Clear /\ episode = 0
ClearLater == Clear /\ episode > 0

Good == IInv /\ AtOnce /\ Held

\* One of these it finds.
LEMMA HeldCases ==
  Good => ClearFirst \/ ClearLater \/ Marked \/ Aloft \/ Landed
BY DEF Good, IInv, AtOnce, TypeOK, Held, Stage, ClearFirst, ClearLater, Clear, Marked, Aloft, Landed

\* What any step makes of them.
LEMMA HeldSteps ==
  ASSUME S1Steps > 1, Good, Good', [Next]_vars, NEW i \in Nat
  PROVE  /\ ClearFirst => ClearFirst' \/ Aloft'
         /\ ClearLater => ClearLater' \/ ClearFirst' \/ Aloft'
         /\ AtLeast(i) => AtLeast(i)' \/ Clear' \/ Aloft'
         /\ Marked => Marked' \/ Clear' \/ Aloft' \/ Landed'
<1>1. /\ episode \in Nat /\ episode' \in Nat /\ st.s3 \in Nat
  BY StepsAssumption, TimeoutAssumption DEF Good, IInv, TypeOK
<1>2. CASE UNCHANGED vars
  BY <1>2 DEF vars, ClearFirst, ClearLater, Clear, Marked, Aloft, Landed, AtLeast
<1>3. CASE Next
  <2>1. PICK k \in Keys, over \in BOOLEAN, t \in BOOLEAN, fit \in BOOLEAN, b \in BOOLEAN,
             c \in Drawn, d \in Delay : Step(k, over, t, fit, b, c, d)
    BY <1>3 DEF Next
  <2>2. k = 1
    BY <2>1 DEF Step, Good, Held
  <2>3. /\ Clear => Clear' \/ Aloft'
        /\ Clear /\ episode' > 0 => Aloft'
        /\ Landed => Clear' \/ Aloft' \/ (Landed' /\ st'.s3 = st.s3 + 1)
        /\ Marked => Clear' \/ Aloft' \/ Landed'
    BY <2>1, <2>2, HeldStep DEF Good, Held
  <2> QED BY <1>1, <2>3 DEF ClearFirst, ClearLater, AtLeast
<1> QED BY <1>2, <1>3

\* What one env.step makes of them.
LEMMA HeldMoves ==
  ASSUME S1Steps > 1, Good, Good', <<Next>>_vars, NEW i \in Nat, NEW j \in Nat, j = i + 1
  PROVE  /\ ClearLater => ClearFirst' \/ Aloft'
         /\ AtLeast(i) => AtLeast(j)' \/ Clear' \/ Aloft'
         /\ Marked => Clear' \/ Aloft' \/ Landed'
<1>1. /\ episode \in Nat /\ episode' \in Nat /\ st.s3 \in Nat
  BY StepsAssumption, TimeoutAssumption DEF Good, IInv, TypeOK
<1>2. PICK k \in Keys, over \in BOOLEAN, t \in BOOLEAN, fit \in BOOLEAN, b \in BOOLEAN,
           c \in Drawn, d \in Delay : Step(k, over, t, fit, b, c, d)
  BY DEF Next
<1>3. k = 1
  BY <1>2 DEF Step, Good, Held
<1>4. /\ Clear => Clear' \/ Aloft'
      /\ Clear /\ episode' > 0 => Aloft'
      /\ Landed => Clear' \/ Aloft' \/ (Landed' /\ st'.s3 = st.s3 + 1)
      /\ Marked => Clear' \/ Aloft' \/ Landed'
  BY <1>2, <1>3, HeldStep DEF Good, Held
<1> QED BY <1>1, <1>4 DEF ClearFirst, ClearLater, AtLeast

\* The robot is stepped, with the key held.
Playing == [][Next]_vars /\ WF_vars(Next) /\ []Good /\ []GuardEnables

\* From i steps on the ground it gets to j, unless the landing ends before.
Reaches(i, j) == Playing => (AtLeast(i) ~> AtLeast(j) \/ Clear \/ Aloft)

\* Fairness counts the next step.
LEMMA CountOne ==
  ASSUME S1Steps > 1, EpisodeSteps > 1, NEW i \in Nat, NEW j \in Nat, j = i + 1
  PROVE  Reaches(i, j)
<1>1. GuardEnables => ENABLED <<Next>>_vars
  BY DEF GuardEnables
<1>2. Good /\ Good' /\ [Next]_vars => (AtLeast(i) => AtLeast(i)' \/ Clear' \/ Aloft')
  BY HeldSteps
<1>3. Good /\ Good' /\ <<Next>>_vars => (AtLeast(i) => AtLeast(j)' \/ Clear' \/ Aloft')
  BY HeldMoves
<1> QED BY <1>1, <1>2, <1>3, PTL DEF Playing, Reaches

\* It counts n steps, wherever it stands.
Counts(n) == \A i, j \in Nat : j = i + n => Reaches(i, j)

\* Counting m steps and then n is counting m + n.
LEMMA CountsAdd ==
  ASSUME NEW m \in Nat, NEW n \in Nat, NEW k \in Nat, k = m + n
  PROVE  Counts(m) /\ Counts(n) => Counts(k)
<1>1. ASSUME NEW i \in Nat, NEW a \in Nat, NEW j \in Nat
      PROVE  Reaches(i, a) /\ Reaches(a, j) => Reaches(i, j)
  BY PTL DEF Reaches
<1>2. ASSUME NEW i \in Nat, NEW j \in Nat, j = i + k
      PROVE  i + m \in Nat /\ j = (i + m) + n
  BY <1>2
<1> QED BY <1>1, <1>2 DEF Counts

\* A thousand steps, by doubling (induction over a temporal formula is not to
\* be had).
LEMMA CountsFar ==
  ASSUME S1Steps > 1, EpisodeSteps > 1
  PROVE  Counts(1024)
<1>1. Counts(1)
  BY CountOne DEF Counts
<1>2. Counts(2)
  BY <1>1, CountsAdd, 1 + 1 = 2
<1>3. Counts(4)
  BY <1>2, CountsAdd, 2 + 2 = 4
<1>4. Counts(8)
  BY <1>3, CountsAdd, 4 + 4 = 8
<1>5. Counts(16)
  BY <1>4, CountsAdd, 8 + 8 = 16
<1>6. Counts(32)
  BY <1>5, CountsAdd, 16 + 16 = 32
<1>7. Counts(64)
  BY <1>6, CountsAdd, 32 + 32 = 64
<1>8. Counts(128)
  BY <1>7, CountsAdd, 64 + 64 = 128
<1>9. Counts(256)
  BY <1>8, CountsAdd, 128 + 128 = 256
<1>10. Counts(512)
  BY <1>9, CountsAdd, 256 + 256 = 512
<1> QED BY <1>10, CountsAdd, 512 + 512 = 1024

\* So a landing ends.
LEMMA LandingsEnd ==
  ASSUME TimeoutsConfigured, EpisodeSteps > 1
  PROVE  Playing => (Landed ~> Clear \/ Aloft)
<1>1. PICK z \in Nat, last \in Nat : z = 0 /\ last = z + 1024
  OBVIOUS
<1>2. Reaches(z, last)
  BY <1>1, CountsFar, 1024 \in Nat DEF Counts, TimeoutsConfigured
<1>3. Good => st.s3 \in 0..(S3Steps - 1)
  BY DEF Good, IInv, TypeOK
<1>4. Good /\ Landed => AtLeast(z)
  BY <1>1, <1>3, TimeoutAssumption DEF AtLeast
<1>5. Good => ~AtLeast(last)
  BY <1>1, <1>3, TimeoutAssumption DEF AtLeast, TimeoutsConfigured
<1> QED BY <1>2, <1>4, <1>5, PTL DEF Reaches, Playing

\* A key that stays pressed makes the robot take off again and again, for all
\* timeouts of that range, warm-ups, delays and lengths of the episodes,
\* wherever it was when the key was pressed.
THEOREM HeldKeyJumpsAgain ==
  ASSUME TimeoutsConfigured
  PROVE  FairSpec /\ []GuardEnables => HeldKeyJumps
<1> DEFINE Later == episode > 0
           Up == st.stage \in {"TAKEOFF", "FLIGHT"}
<1>1. S1Steps > 1
  BY DEF TimeoutsConfigured
<1>2. Spec => [](IInv /\ AtOnce)
  <2>1. Spec => []AtOnce
    BY <1>1, AtOnceAlways
  <2> QED BY <2>1, Invariance, PTL
<1>3. /\ Later <=> episode > 0
      /\ Up <=> st.stage \in {"TAKEOFF", "FLIGHT"}
      /\ Aloft <=> Up
      /\ Held <=> manual /\ key = 1
      /\ IInv /\ AtOnce /\ Held <=> Good
  BY DEF Aloft, Held, Good
<1>4. CASE EpisodeSteps > 1
  <2>1. GuardEnables => ENABLED <<Next>>_vars
    BY <1>4 DEF GuardEnables
  <2>2. PICK z \in Nat, one \in Nat : z = 0 /\ one = z + 1
    OBVIOUS
  <2>3. Good /\ Good' /\ [Next]_vars =>
          /\ ClearFirst => ClearFirst' \/ Aloft'
          /\ ClearLater => ClearLater' \/ ClearFirst' \/ Aloft'
          /\ Marked => Marked' \/ Clear' \/ Aloft' \/ Landed'
    BY <1>1, <2>2, HeldSteps
  <2>4. Good /\ Good' /\ <<Next>>_vars =>
          /\ ClearLater => ClearFirst' \/ Aloft'
          /\ Marked => Clear' \/ Aloft' \/ Landed'
    BY <1>1, <2>2, HeldMoves
  <2>5. Playing => (Landed ~> Clear \/ Aloft)
    BY <1>4, LandingsEnd
  <2>6. Good => ClearFirst \/ ClearLater \/ Marked \/ Aloft \/ Landed
    BY HeldCases
  <2>7. /\ Good /\ Clear => ClearFirst \/ ClearLater
        /\ ClearFirst => ~Later
    BY StepsAssumption DEF Good, IInv, TypeOK, ClearFirst, ClearLater
  <2> HIDE DEF Later, Up
  <2>8. Playing => (Marked ~> Clear \/ Aloft \/ Landed)
    BY <2>1, <2>3, <2>4, PTL DEF Playing
  <2>9. Playing => (ClearLater ~> ClearFirst \/ Aloft)
    BY <2>1, <2>3, <2>4, PTL DEF Playing
  <2>10. Playing /\ []<>Later => (ClearFirst ~> Aloft)
    BY <2>3, <2>7, PTL DEF Playing
  <2>11. Playing /\ []<>Later => []<>Aloft
    BY <2>5, <2>6, <2>7, <2>8, <2>9, <2>10, PTL DEF Playing
  <2>12. FairSpec /\ []GuardEnables /\ <>[]Held => <>Playing
    BY <1>2, <1>3, PTL DEF FairSpec, Spec, Playing
  <2>13. FairSpec /\ []GuardEnables => (<>[]Held /\ []<>Later => []<>Aloft)
    BY <2>11, <2>12, PTL
  <2> QED BY <1>3, <2>13, PTL DEF HeldKeyJumps
<1>5. CASE EpisodeSteps = 1
  <2>1. IInv => ~Later
    BY <1>5 DEF IInv, TypeOK
  <2> HIDE DEF Later, Up
  <2> QED BY <1>2, <1>3, <2>1, PTL DEF FairSpec, HeldKeyJumps
<1>6. EpisodeSteps > 1 \/ EpisodeSteps = 1
  BY StepsAssumption
<1> QED BY <1>4, <1>5, <1>6
=============================================================================

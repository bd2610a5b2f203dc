--------------------------- MODULE Policy_proofs ---------------------------
(* Proofs about what a policy is fed and what it commands.  First of         *)
(* PolicyThread, for every length of the history, both types of policies and *)
(* any number of activations: what a cycle of an earlier activation leaves   *)
(* behind is gone after a bounded number of pushes (in the filtered angular  *)
(* velocity it fades by one reading per push), and a policy that stays       *)
(* current ends up commanding fresh actions.  Then of PolicyWindow           *)
(* (W), for every length of the history and of the encoder's window: which   *)
(* programs feed the network what it was trained on, and exactly what the    *)
(* others feed it.                                                           *)
EXTENDS PolicyThread, TLAPS

Np3o == policyType = "np3o"

\* Where the push is in the cycle, and the shift before it.
PushAt  == IF Np3o THEN 8 ELSE 5
ShiftAt == IF Np3o THEN 7 ELSE 4

\* There is one thread once enter() has made it, and it begins no cycle
\* while the state is left or being entered.
OneThread ==
  /\ threads = (IF threadFirst THEN 0 ELSE 1)
  /\ threads = 0 => step = 0
  /\ threads = 1 /\ loop # "in" => stopUpdate
  /\ shift # 0 => step = ShiftAt

\* So at most one push of an earlier cycle reaches the history after enter()
\* has begun, and that cycle pushes no more.
Leftover ==
  loop \in {"sense", "filter", "observe", "fill"} =>
    pushes = 0 \/ (pushes = 1 /\ step \notin 1..PushAt)

\* What the thread holds comes from this activation once it has pushed: it
\* then is in a cycle that began in it.  PPO ends a cycle after the push, so
\* what follows its first push may still belong to the cycle of before.
CurrentCycle ==
  pushes >= 1 =>
    /\ step \in 2..PushAt => held.seen = now
    /\ step \in 4..PushAt => obs.seen = now
    /\ Np3o => /\ step \in 6..8 => action = now
               /\ step \in 7..8 => last = now
    /\ ~Np3o /\ pushes >= 2 =>
         /\ step = 6 => hist[History].seen = now
         /\ step \in 7..8 => held.seen = now
         /\ step = 8 => action = now

\* One whole cycle of this activation has ended: the action and the last
\* action are from it, and the observations contain nothing older any more.
Settled == IF Np3o THEN pushes >= 2 ELSE pushes >= 3 \/ (pushes = 2 /\ step \in 0..5)
NothingOlder ==
  Settled =>
    /\ action = now /\ last = now
    /\ step \in 2..PushAt => held.oldest = now
    /\ step \in 4..PushAt => obs.oldest = now

\* From the third push on the history fills with such observations from its
\* end.  In the middle of a shift the slots already shifted are one ahead.
Moved == IF step = PushAt THEN History - 1 ELSE shift
Healing ==
  pushes >= 2 =>
    \A i \in Slot :
      \/ i > History + 2 - pushes
      \/ i <= Moved /\ i + 1 > History + 2 - pushes
      => hist[i].oldest = now

\* A push later the filter has taken in one more gyro reading of this activation
\* after whatever a cycle of before has left in it.
Filtering ==
  /\ pushes >= 2 => Own(angVel, pushes - 1)
  /\ pushes >= 1 => /\ step = 2 => Own(held.angVel, pushes)
                    /\ step \in 3..PushAt => Own(angVel, pushes)
                    /\ step \in 4..PushAt => Own(obs.angVel, pushes)

\* So the angular velocities in the history fade from its end, too.
Fading ==
  \A i \in Slot :
    /\ PushOf(i) >= 2 => Own(hist[i].angVel, PushOf(i) - 1)
    /\ i <= Moved /\ PushOf(i) >= 1 => Own(hist[i].angVel, PushOf(i))

IInv ==
  /\ TypeOK /\ OneThread /\ Leftover /\ CurrentCycle
  /\ NothingOlder /\ Healing /\ Filtering /\ Fading
-----------------------------------------------------------------------------
\* The places of a cycle, by number.
LEMMA Places ==
  ASSUME policyType \in {"np3o", "ppo"}, step \in 0..Len(Cycle)
  PROVE  /\ Len(Cycle) = 8
         /\ At("sense") <=> step = 1
         /\ At("filter") <=> step = 2
         /\ At("observe") <=> step = 3
         /\ At("copy") <=> step = IF Np3o THEN 4 ELSE 6
         /\ At("infer") <=> step = IF Np3o THEN 5 ELSE 7
         /\ At("last") <=> step = IF Np3o THEN 6 ELSE 8
         /\ At("shift") <=> step = ShiftAt
         /\ At("push") <=> step = PushAt
         /\ Advance <=> step' = IF step = 8 THEN 0 ELSE step + 1
<1>1. CASE Np3o
  <2>1. Cycle = <<"sense", "filter", "observe", "copy", "infer", "last", "shift", "push">>
    BY <1>1 DEF Cycle, Np3o
  <2>. QED BY <1>1, <2>1 DEF At, Advance, ShiftAt, PushAt
<1>2. CASE ~Np3o
  <2>1. Cycle = <<"sense", "filter", "observe", "shift", "push", "copy", "infer", "last">>
    BY <1>2 DEF Cycle, Np3o
  <2>. QED BY <1>2, <2>1 DEF At, Advance, ShiftAt, PushAt
<1>. QED BY <1>1, <1>2

\* The facts about the types that the arithmetic needs.
LEMMA Numbers ==
  ASSUME TypeOK
  PROVE  /\ policyType \in {"np3o", "ppo"} /\ History \in Nat /\ History >= 1
         /\ now \in Nat /\ now <= MaxActivations /\ MaxActivations \in Nat
         /\ step \in 0..8 /\ shift \in 0..(History - 1) /\ pushes \in 0..(History + 3)
         /\ PushAt \in {5, 8} /\ ShiftAt = PushAt - 1
         /\ held \in Obs /\ obs \in Obs /\ angVel \in AngVel /\ last \in Age /\ action \in Age
         /\ hist \in [Slot -> Obs] /\ Filtered \in AngVel /\ mixed \in AngVel
<1>1. policyType \in {"np3o", "ppo"}
  BY PolicyTypeAssumption DEF TypeOK
<1>2. Len(Cycle) = 8
  BY <1>1, Places DEF TypeOK
<1>3. Filtered \in AngVel
  BY HistoryAssumption DEF TypeOK, Filtered, AngVel, PushCap
<1>. QED BY <1>1, <1>2, <1>3, HistoryAssumption, ActivationsAssumption
     DEF TypeOK, PushCap, PushAt, ShiftAt, Age

\* Nothing has been pushed before the first activation.
LEMMA InitIInv == Init => IInv
<1>. SUFFICES ASSUME Init PROVE IInv
  OBVIOUS
<1>1. policyType \in {"np3o", "ppo"}
  BY PolicyTypeAssumption DEF Init
<1>2. Len(Cycle) = 8
  BY <1>1 DEF Cycle
<1>3. Blank \in Obs /\ 0 \in Age /\ Zero(0) \in AngVel
  BY HistoryAssumption, ActivationsAssumption DEF Blank, Obs, Age, Zero, AngVel, PushCap
<1>4. hist \in [Slot -> Obs]
  BY <1>3 DEF Init
<1>5. shift \in 0..(History - 1) /\ fill \in 0..History /\ pushes \in 0..PushCap
  BY HistoryAssumption DEF Init, PushCap
<1>6. stopUpdate \in BOOLEAN /\ threadFirst \in BOOLEAN /\ threads \in {0, 1}
  BY Zenon DEF Init
<1>7. step \in 0..Len(Cycle) /\ loop \in {"out", "sense", "filter", "observe", "fill", "in"}
  BY <1>2 DEF Init
<1>8. /\ policyType \in PolicyTypes /\ now \in Age /\ held \in Obs /\ obs \in Obs
      /\ last \in Age /\ action \in Age /\ cmd \in Age
      /\ angVel \in AngVel /\ mixed \in AngVel
  BY <1>3 DEF Init
<1>9. TypeOK
  BY <1>4, <1>5, <1>6, <1>7, <1>8, Zenon DEF TypeOK
<1>10. Filtering /\ Fading
  BY HistoryAssumption DEF Init, Filtering, Fading, PushOf, Moved, Slot
<1>. QED BY <1>9, <1>10
     DEF Init, IInv, OneThread, Leftover, CurrentCycle, NothingOlder, Healing, Settled
-----------------------------------------------------------------------------
\* The steps of the control loop.
LEMMA LoopStep ==
  ASSUME IInv, Keeping(Loop)
  PROVE  IInv'
<1>. USE DEF loopVars, threadVars, shared
<1>1. /\ TypeOK /\ OneThread /\ Leftover /\ CurrentCycle
      /\ NothingOlder /\ Healing /\ Filtering /\ Fading
  BY DEF IInv
<1>2. Np3o' = Np3o /\ PushAt' = PushAt /\ ShiftAt' = ShiftAt /\ policyType' = policyType
  BY DEF Keeping, Np3o, PushAt, ShiftAt
<1>3. /\ policyType \in {"np3o", "ppo"} /\ History \in Nat /\ History >= 1
      /\ now \in Nat /\ now <= MaxActivations /\ MaxActivations \in Nat
      /\ step \in 0..8 /\ shift \in 0..(History - 1) /\ pushes \in 0..(History + 3)
      /\ PushAt \in {5, 8} /\ ShiftAt = PushAt - 1
      /\ held \in Obs /\ obs \in Obs /\ angVel \in AngVel /\ last \in Age /\ action \in Age
      /\ hist \in [Slot -> Obs] /\ Filtered \in AngVel /\ mixed \in AngVel
  BY <1>1, Numbers
<1>4. Cycle' = Cycle
  BY <1>2 DEF Cycle
<1>5. CASE EnterReset
  <2>1. TypeOK'
    BY <1>1, <1>2, <1>3, <1>4, <1>5 DEF EnterReset, TypeOK, Age, PushCap, Zero, AngVel, Obs
  <2>2. OneThread' /\ Leftover' /\ CurrentCycle' /\ NothingOlder' /\ Healing'
    BY <1>1, <1>2, <1>5
    DEF EnterReset, OneThread, Leftover, CurrentCycle, NothingOlder, Settled, Healing
  <2>3. Filtering' /\ Fading'
    <3>1. pushes' = 0
      BY <1>5 DEF EnterReset
    <3>. QED BY <1>2, <1>3, <3>1 DEF Filtering, Fading, PushOf, Moved, Slot
  <2>. QED BY <2>1, <2>2, <2>3 DEF IInv
<1>6. CASE EnterSense \/ EnterFilter \/ EnterObserve
  <2>1. TypeOK'
    BY <1>1, <1>2, <1>3, <1>4, <1>6
    DEF EnterSense, EnterFilter, EnterObserve, Observed, Oldest, Obs, TypeOK
  <2>2. pushes = 0 \/ (pushes = 1 /\ step \notin 1..PushAt)
    BY <1>1, <1>6 DEF EnterSense, EnterFilter, EnterObserve, Leftover
  <2>3. UNCHANGED <<now, stopUpdate, threadFirst, threads, threadVars, last, hist, action, pushes>>
        /\ loop \in {"sense", "filter", "observe"} /\ loop' \in {"filter", "observe", "fill"}
    BY <1>6 DEF EnterSense, EnterFilter, EnterObserve
  <2>4. OneThread' /\ Leftover' /\ CurrentCycle' /\ NothingOlder' /\ Healing'
    BY <1>1, <1>2, <1>3, <2>2, <2>3
    DEF OneThread, Leftover, CurrentCycle, NothingOlder, Settled, Healing, Np3o, PushAt
  <2>5. Filtering' /\ Fading'
    BY <1>1, <1>2, <1>3, <2>2, <2>3 DEF Filtering, Fading, PushOf, Moved, Slot, Own
  <2>. QED BY <2>1, <2>4, <2>5 DEF IInv
<1>7. CASE EnterFill
  <2>1. TypeOK'
    BY <1>1, <1>2, <1>3, <1>4, <1>7 DEF EnterFill, TypeOK, Slot
  <2>2. pushes = 0 \/ (pushes = 1 /\ step \notin 1..PushAt)
    BY <1>1, <1>7 DEF EnterFill, Leftover
  <2>3. OneThread' /\ Leftover' /\ CurrentCycle' /\ NothingOlder' /\ Healing'
    BY <1>1, <1>2, <1>3, <1>7, <2>2
    DEF EnterFill, OneThread, Leftover, CurrentCycle, NothingOlder, Settled, Healing,
        Np3o, PushAt
  <2>4. Filtering' /\ Fading'
    <3>1. UNCHANGED <<pushes, step, shift>>
      BY <1>7 DEF EnterFill
    <3>2. Moved' <= History - 1
      BY <1>2, <1>3, <3>1 DEF Moved
    <3>3. \A i \in Slot : PushOf(i)' <= 1 /\ (i <= History - 1 => PushOf(i)' <= 0)
      BY <1>3, <2>2, <3>1 DEF PushOf, Slot
    <3>4. ASSUME NEW i \in Slot
          PROVE  ~(PushOf(i)' >= 2) /\ ~(i <= Moved' /\ PushOf(i)' >= 1)
      <4>1. PushOf(i)' \in Int /\ Moved' \in Int
        BY <1>2, <1>3, <3>1 DEF PushOf, Moved, Slot
      <4>. QED BY <1>3, <3>2, <3>3, <4>1 DEF Slot
    <3>5. Fading'
      BY <3>4 DEF Fading, Slot
    <3>6. Filtering'
      BY <1>1, <1>2, <1>3, <2>2, <3>1 DEF Filtering
    <3>. QED BY <3>5, <3>6
  <2>. QED BY <2>1, <2>3, <2>4 DEF IInv
<1>8. CASE EnterGo \/ RunState \/ Exit
  <2>1. UNCHANGED <<now, mixed, fill, pushes, threadVars, shared>>
    BY <1>8 DEF EnterGo, RunState, Exit
  <2>2. stopUpdate' \in BOOLEAN /\ threadFirst' \in BOOLEAN
    BY <1>1, <1>8, Zenon DEF EnterGo, RunState, Exit, TypeOK
  <2>3. threads' \in {0, 1} /\ cmd' \in Age /\ loop' \in {"out", "in"}
    BY <1>1, <1>3, <1>8 DEF EnterGo, RunState, Exit, OneThread, SpawnsThread, TypeOK
  <2>4. TypeOK'
    BY <1>1, <1>2, <1>4, <2>1, <2>2, <2>3 DEF TypeOK, PushCap, Slot, Obs, Age, AngVel
  <2>5. OneThread'
    BY <1>1, <1>2, <1>8, <2>1 DEF EnterGo, RunState, Exit, OneThread, SpawnsThread, TypeOK
  <2>6. Leftover'
    BY <1>8 DEF EnterGo, RunState, Exit, Leftover
  <2>7. CurrentCycle' /\ NothingOlder' /\ Healing' /\ Filtering' /\ Fading'
    BY <1>1, <1>2, <2>1 DEF CurrentCycle, NothingOlder, Settled, Healing, Moved, Filtering,
       Fading, PushOf, Own, Slot
  <2>. QED BY <2>4, <2>5, <2>6, <2>7 DEF IInv
<1>. QED BY <1>5, <1>6, <1>7, <1>8 DEF Keeping, Loop, Entering

\* The steps of the thread.  In each, the places of the cycle are numbers.
LEMMA ThreadStep ==
  ASSUME IInv, Keeping(Thread)
  PROVE  IInv'
<1>. USE DEF loopVars, threadVars, shared
<1>1. /\ TypeOK /\ OneThread /\ Leftover /\ CurrentCycle
      /\ NothingOlder /\ Healing /\ Filtering /\ Fading
  BY DEF IInv
<1>2. Np3o' = Np3o /\ PushAt' = PushAt /\ ShiftAt' = ShiftAt /\ policyType' = policyType
  BY DEF Keeping, Np3o, PushAt, ShiftAt
<1>3. /\ policyType \in {"np3o", "ppo"} /\ History \in Nat /\ History >= 1
      /\ now \in Nat /\ now <= MaxActivations /\ MaxActivations \in Nat
      /\ step \in 0..8 /\ shift \in 0..(History - 1) /\ pushes \in 0..(History + 3)
      /\ PushAt \in {5, 8} /\ ShiftAt = PushAt - 1
      /\ held \in Obs /\ obs \in Obs /\ angVel \in AngVel /\ last \in Age /\ action \in Age
      /\ hist \in [Slot -> Obs] /\ Filtered \in AngVel /\ mixed \in AngVel
  BY <1>1, Numbers
<1>4. Cycle' = Cycle /\ Len(Cycle) = 8
  BY <1>1, <1>2, <1>3, Places DEF Cycle, TypeOK
<1>5. /\ At("sense") <=> step = 1
      /\ At("filter") <=> step = 2
      /\ At("observe") <=> step = 3
      /\ At("copy") <=> step = IF Np3o THEN 4 ELSE 6
      /\ At("infer") <=> step = IF Np3o THEN 5 ELSE 7
      /\ At("last") <=> step = IF Np3o THEN 6 ELSE 8
      /\ At("shift") <=> step = ShiftAt
      /\ At("push") <=> step = PushAt
      /\ Advance <=> step' = IF step = 8 THEN 0 ELSE step + 1
  BY <1>1, <1>3, Places DEF TypeOK
<1>6. /\ Np3o => PushAt = 8 /\ ShiftAt = 7
      /\ ~Np3o => PushAt = 5 /\ ShiftAt = 4
  BY DEF PushAt, ShiftAt
<1>7. ASSUME step' \in 0..8, angVel' \in AngVel, shift' \in 0..(History - 1), held' \in Obs,
             obs' \in Obs, last' \in Age, action' \in Age,
             hist' \in [Slot -> Obs], pushes' \in 0..PushCap,
             UNCHANGED loopVars
      PROVE  TypeOK'
  BY <1>1, <1>2, <1>4, <1>7 DEF TypeOK
<1>8. CASE Begin
  <2>1. TypeOK'
    BY <1>1, <1>3, <1>7, <1>8 DEF Begin, TypeOK
  <2>2. OneThread' /\ Leftover'
    BY <1>1, <1>2, <1>3, <1>6, <1>8 DEF Begin, OneThread, Leftover, TypeOK
  <2>3. CurrentCycle' /\ NothingOlder' /\ Healing'
    BY <1>1, <1>2, <1>3, <1>6, <1>8
    DEF Begin, CurrentCycle, NothingOlder, Settled, Healing, Moved
  <2>4. Filtering' /\ Fading'
    BY <1>1, <1>2, <1>3, <1>6, <1>8 DEF Begin, Filtering, Fading, PushOf, Moved, Own, Slot
  <2>. QED BY <2>1, <2>2, <2>3, <2>4 DEF IInv
<1>9. CASE Sense
  <2>1. step = 1 /\ step' = 2
    BY <1>3, <1>5, <1>9 DEF Sense
  <2>2. TypeOK'
    BY <1>1, <1>3, <1>7, <1>9, <2>1 DEF Sense, TypeOK, Observed, Oldest, Obs
  <2>3. OneThread' /\ Leftover'
    BY <1>1, <1>2, <1>3, <1>9, <2>1 DEF Sense, OneThread, Leftover
  <2>4. held'.seen = now /\ (last = now => held'.oldest = now)
    BY <1>9 DEF Sense, Observed, Oldest
  <2>5. CurrentCycle' /\ NothingOlder'
    BY <1>1, <1>2, <1>3, <1>6, <1>9, <2>1, <2>4
    DEF Sense, CurrentCycle, NothingOlder, Settled
  <2>6. Healing'
    BY <1>1, <1>2, <1>3, <1>9, <2>1 DEF Sense, Healing, Moved
  <2>7. pushes >= 1 => Own(held'.angVel, pushes)
    <3>1. held'.angVel = Filtered
      BY <1>9 DEF Sense, Observed
    <3>. QED BY <1>1, <1>3, <3>1 DEF Filtering, Filtered, Own, AngVel, PushCap
  <2>8. Filtering' /\ Fading'
    BY <1>1, <1>2, <1>3, <1>6, <1>9, <2>1, <2>7
    DEF Sense, Filtering, Fading, PushOf, Moved, Own, Slot
  <2>. QED BY <2>2, <2>3, <2>5, <2>6, <2>8 DEF IInv
<1>17. CASE Filter
  <2>1. step = 2 /\ step' = 3
    BY <1>3, <1>5, <1>17 DEF Filter
  <2>2. held.angVel \in AngVel
    BY <1>3 DEF Obs
  <2>3. TypeOK'
    BY <1>1, <1>3, <1>7, <1>17, <2>1, <2>2 DEF Filter, TypeOK
  <2>4. OneThread' /\ Leftover' /\ CurrentCycle' /\ NothingOlder' /\ Healing'
    BY <1>1, <1>2, <1>3, <1>6, <1>17, <2>1
    DEF Filter, OneThread, Leftover, CurrentCycle, NothingOlder, Settled, Healing, Moved
  <2>5. Filtering' /\ Fading'
    BY <1>1, <1>2, <1>3, <1>6, <1>17, <2>1, <2>2
    DEF Filter, Filtering, Fading, PushOf, Moved, Own, Slot, AngVel
  <2>. QED BY <2>3, <2>4, <2>5 DEF IInv
<1>10. CASE Observe
  <2>1. step = 3 /\ step' = 4
    BY <1>3, <1>5, <1>10 DEF Observe
  <2>2. TypeOK'
    BY <1>1, <1>3, <1>7, <1>10, <2>1 DEF Observe, TypeOK, Obs
  <2>3. OneThread' /\ Leftover'
    BY <1>1, <1>2, <1>3, <1>10, <2>1 DEF Observe, OneThread, Leftover
  <2>4. CurrentCycle' /\ NothingOlder'
    BY <1>1, <1>2, <1>3, <1>6, <1>10, <2>1
    DEF Observe, CurrentCycle, NothingOlder, Settled
  <2>5. Healing'
    BY <1>1, <1>2, <1>3, <1>10, <2>1 DEF Observe, OneThread, Healing, Moved
  <2>6. obs'.angVel = angVel /\ obs'.seen = held.seen /\ obs'.oldest = held.oldest
    BY <1>3, <1>10 DEF Observe, Obs
  <2>7. Filtering' /\ Fading'
    BY <1>1, <1>2, <1>3, <1>6, <1>10, <2>1, <2>6
    DEF Observe, Filtering, Fading, PushOf, Moved, Own, Slot
  <2>. QED BY <2>2, <2>3, <2>4, <2>5, <2>7 DEF IInv
<1>11. CASE CopyInputs
  <2>1. step = (IF Np3o THEN 4 ELSE 6) /\ step' = step + 1
    BY <1>3, <1>5, <1>11 DEF CopyInputs
  <2>2. hist[History] \in Obs
    BY <1>3 DEF Slot
  <2>3. TypeOK'
    BY <1>1, <1>3, <1>7, <1>11, <2>1, <2>2 DEF CopyInputs, TypeOK
  <2>4. OneThread' /\ Leftover'
    BY <1>1, <1>2, <1>3, <1>6, <1>11, <2>1 DEF CopyInputs, OneThread, Leftover
  <2>5. held' = IF Np3o THEN obs ELSE hist[History]
    BY <1>11 DEF CopyInputs, Np3o
  <2>6. CurrentCycle' /\ NothingOlder'
    BY <1>1, <1>2, <1>3, <1>6, <1>11, <2>1, <2>5
    DEF CopyInputs, CurrentCycle, NothingOlder, Settled
  <2>7. Healing'
    BY <1>1, <1>2, <1>3, <1>6, <1>11, <2>1 DEF CopyInputs, OneThread, Healing, Moved
  <2>8. Filtering' /\ Fading'
    BY <1>1, <1>2, <1>3, <1>6, <1>11, <2>1
    DEF CopyInputs, OneThread, Filtering, Fading, PushOf, Moved, Own, Slot
  <2>. QED BY <2>3, <2>4, <2>6, <2>7, <2>8 DEF IInv
<1>12. CASE Infer
  <2>1. step = (IF Np3o THEN 5 ELSE 7) /\ step' = step + 1
    BY <1>3, <1>5, <1>12 DEF Infer
  <2>2. held.seen \in Age
    BY <1>3 DEF Obs
  <2>3. TypeOK'
    BY <1>1, <1>3, <1>7, <1>12, <2>1, <2>2 DEF Infer, TypeOK
  <2>4. OneThread' /\ Leftover'
    BY <1>1, <1>2, <1>3, <1>6, <1>12, <2>1 DEF Infer, OneThread, Leftover
  <2>5. CurrentCycle' /\ NothingOlder'
    BY <1>1, <1>2, <1>3, <1>6, <1>12, <2>1
    DEF Infer, CurrentCycle, NothingOlder, Settled
  <2>6. Healing'
    BY <1>1, <1>2, <1>3, <1>6, <1>12, <2>1 DEF Infer, OneThread, Healing, Moved
  <2>7. Filtering' /\ Fading'
    BY <1>1, <1>2, <1>3, <1>6, <1>12, <2>1
    DEF Infer, OneThread, Filtering, Fading, PushOf, Moved, Own, Slot
  <2>. QED BY <2>3, <2>4, <2>5, <2>6, <2>7 DEF IInv
<1>13. CASE StoreLast
  <2>1. step = (IF Np3o THEN 6 ELSE 8) /\ step' = (IF Np3o THEN 7 ELSE 0)
    BY <1>3, <1>5, <1>13 DEF StoreLast
  <2>2. TypeOK'
    BY <1>1, <1>3, <1>7, <1>13, <2>1 DEF StoreLast, TypeOK
  <2>3. OneThread' /\ Leftover'
    BY <1>1, <1>2, <1>3, <1>6, <1>13, <2>1 DEF StoreLast, OneThread, Leftover
  <2>4. CurrentCycle' /\ NothingOlder'
    BY <1>1, <1>2, <1>3, <1>6, <1>13, <2>1
    DEF StoreLast, CurrentCycle, NothingOlder, Settled
  <2>5. Healing'
    BY <1>1, <1>2, <1>3, <1>6, <1>13, <2>1 DEF StoreLast, OneThread, Healing, Moved
  <2>6. Filtering' /\ Fading'
    BY <1>1, <1>2, <1>3, <1>6, <1>13, <2>1
    DEF StoreLast, OneThread, Filtering, Fading, PushOf, Moved, Own, Slot
  <2>. QED BY <2>2, <2>3, <2>4, <2>5, <2>6 DEF IInv
<1>14. CASE ShiftOne
  <2>1. step = ShiftAt /\ step' = step /\ shift < History - 1 /\ shift' = shift + 1
        /\ hist' = [hist EXCEPT ![shift + 1] = hist[shift + 2]]
    BY <1>5, <1>14 DEF ShiftOne, Shifts
  <2>2. shift + 1 \in Slot /\ shift + 2 \in Slot
    BY <1>3, <2>1 DEF Slot
  <2>3. TypeOK'
    BY <1>1, <1>3, <1>7, <1>14, <2>1, <2>2 DEF ShiftOne, TypeOK
  <2>4. OneThread' /\ Leftover'
    BY <1>1, <1>2, <1>3, <1>14, <2>1 DEF ShiftOne, OneThread, Leftover
  <2>5. CurrentCycle' /\ NothingOlder'
    BY <1>1, <1>2, <1>3, <1>6, <1>14, <2>1
    DEF ShiftOne, CurrentCycle, NothingOlder, Settled
  <2>6. Healing'
    <3>1. \A i \in Slot : hist'[i] = IF i = shift + 1 THEN hist[i + 1] ELSE hist[i]
      BY <1>3, <2>1, <2>2
    <3>2. Moved = shift /\ Moved' = shift + 1 /\ pushes' = pushes /\ now' = now
      BY <1>2, <1>3, <1>14, <2>1 DEF ShiftOne, Moved
    <3>3. ASSUME NEW i \in Slot,
                 \/ i > History + 2 - pushes
                 \/ i <= Moved /\ i + 1 > History + 2 - pushes,
                 pushes >= 2
          PROVE  hist[i].oldest = now
      BY <1>1, <3>3 DEF Healing
    <3>. QED BY <1>3, <2>2, <3>1, <3>2, <3>3 DEF Healing, Slot
  <2>7. Filtering'
    BY <1>1, <1>2, <1>3, <1>6, <1>14, <2>1 DEF ShiftOne, Filtering, Own
  <2>8. Fading'
    <3>1. \A i \in Slot : hist'[i] = IF i = shift + 1 THEN hist[i + 1] ELSE hist[i]
      BY <1>3, <2>1, <2>2
    <3>2. Moved = shift /\ Moved' = shift + 1 /\ pushes' = pushes /\ now' = now
      BY <1>2, <1>3, <1>14, <2>1 DEF ShiftOne, Moved
    <3>3. \A i \in Slot : PushOf(i) \in Int /\ PushOf(i)' = PushOf(i)
                          /\ (i < History => PushOf(i + 1) = PushOf(i) + 1)
      BY <1>3, <3>2 DEF PushOf, Slot
    <3>4. ASSUME NEW i \in Slot
          PROVE  /\ PushOf(i)' >= 2 => Own(hist[i].angVel, PushOf(i) - 1)'
                 /\ i <= Moved' /\ PushOf(i)' >= 1 => Own(hist[i].angVel, PushOf(i))'
      <4>1. CASE i = shift + 1
        <5>1. i + 1 \in Slot /\ hist'[i] = hist[i + 1] /\ PushOf(i + 1) = PushOf(i) + 1
          BY <1>3, <2>2, <3>1, <3>3, <4>1 DEF Slot
        <5>2. PushOf(i) >= 1 => Own(hist[i + 1].angVel, PushOf(i))
          BY <1>1, <3>3, <5>1 DEF Fading
        <5>3. hist[i + 1].angVel.fresh \in Int
          BY <1>3, <5>1 DEF Obs, AngVel
        <5>. QED BY <3>2, <3>3, <5>1, <5>2, <5>3 DEF Own
      <4>2. CASE i # shift + 1
        <5>1. hist'[i] = hist[i]
          BY <3>1, <4>2
        <5>2. i <= Moved' => i <= Moved
          BY <1>3, <3>2, <4>2 DEF Slot
        <5>3. /\ PushOf(i) >= 2 => Own(hist[i].angVel, PushOf(i) - 1)
              /\ i <= Moved /\ PushOf(i) >= 1 => Own(hist[i].angVel, PushOf(i))
          BY <1>1 DEF Fading
        <5>. QED BY <3>2, <3>3, <5>1, <5>2, <5>3 DEF Own
      <4>. QED BY <4>1, <4>2
    <3>. QED BY <3>4 DEF Fading, Slot
  <2>. QED BY <2>3, <2>4, <2>5, <2>6, <2>7, <2>8 DEF IInv
<1>15. CASE ShiftDone
  <2>1. step = ShiftAt /\ step' = PushAt /\ shift = History - 1 /\ shift' = 0
    BY <1>3, <1>5, <1>15 DEF ShiftDone, Shifts
  <2>2. TypeOK'
    BY <1>1, <1>3, <1>7, <1>15, <2>1 DEF ShiftDone, TypeOK
  <2>3. OneThread' /\ Leftover'
    BY <1>1, <1>2, <1>3, <1>15, <2>1 DEF ShiftDone, OneThread, Leftover
  <2>4. CurrentCycle' /\ NothingOlder'
    BY <1>1, <1>2, <1>3, <1>6, <1>15, <2>1
    DEF ShiftDone, CurrentCycle, NothingOlder, Settled
  <2>5. Moved' = Moved
    BY <1>2, <1>3, <2>1 DEF Moved
  <2>6. Healing'
    BY <1>1, <1>15, <2>5 DEF ShiftDone, Healing
  <2>7. Filtering' /\ Fading'
    BY <1>1, <1>2, <1>3, <1>6, <1>15, <2>1, <2>5
    DEF ShiftDone, Filtering, Fading, PushOf, Own, Slot
  <2>. QED BY <2>2, <2>3, <2>4, <2>6, <2>7 DEF IInv
<1>16. CASE Push
  <2>1. /\ step = PushAt /\ step' = (IF Np3o THEN 0 ELSE 6) /\ shift = 0 /\ shift' = shift
        /\ hist' = [hist EXCEPT ![History] = obs]
        /\ pushes' = (IF pushes < History + 3 THEN pushes + 1 ELSE pushes)
    BY <1>1, <1>3, <1>5, <1>6, <1>16 DEF Push, OneThread, PushCap
  <2>2. TypeOK'
    BY <1>1, <1>3, <1>7, <1>16, <2>1 DEF Push, TypeOK, PushCap, Slot
  <2>3. OneThread' /\ Leftover'
    BY <1>1, <1>2, <1>3, <1>6, <1>16, <2>1 DEF Push, OneThread, Leftover
  <2>4. \A i \in Slot : hist'[i] = IF i = History THEN obs ELSE hist[i]
    BY <1>3, <2>1
  <2>5. hist'[History] = obs
    BY <1>3, <2>4 DEF Slot
  <2>6. CurrentCycle' /\ NothingOlder'
    BY <1>1, <1>2, <1>3, <1>6, <1>16, <2>1, <2>5
    DEF Push, CurrentCycle, NothingOlder, Settled
  <2>7. Healing'
    <3>1. pushes >= 2 => obs.oldest = now
      BY <1>1, <1>3, <1>6, <2>1 DEF NothingOlder, Settled
    <3>2. Moved = History - 1 /\ Moved' = 0 /\ now' = now
      BY <1>2, <1>3, <1>6, <1>16, <2>1 DEF Push, Moved
    <3>. QED BY <1>1, <1>3, <2>1, <2>4, <3>1, <3>2 DEF Healing, Slot
  <2>8. angVel.fresh \in Int /\ obs.angVel.fresh \in Int
        /\ \A i \in Slot : hist[i].angVel.fresh \in Int
    BY <1>3 DEF Obs, AngVel
  <2>9. Filtering'
    BY <1>1, <1>2, <1>3, <1>6, <1>16, <2>1, <2>8 DEF Push, Filtering, Own
  <2>10. Fading'
    <3>1. pushes >= 1 => Own(obs.angVel, pushes)
      BY <1>1, <1>3, <1>6, <2>1 DEF Filtering
    <3>2. Moved = History - 1 /\ Moved' = 0 /\ now' = now
      BY <1>2, <1>3, <1>6, <1>16, <2>1 DEF Push, Moved
    <3>3. PICK p \in Nat, q \in Nat : p = pushes /\ q = pushes' /\ q <= p + 1
      BY <1>3, <2>1
    <3>4. q <= p + 1
      BY <3>3
    <3>5. ASSUME NEW i \in 1..History, q - (History - i) >= 2
          PROVE  hist'[i].angVel.of = now /\ hist'[i].angVel.fresh >= q - (History - i) - 1
      <4>1. History \in Nat
        BY <1>3
      <4>2. CASE i = History
        <5>1. hist'[i] = obs
          BY <2>4, <4>2 DEF Slot
        <5>2. p >= 1
          BY <3>5, <3>4, <4>1, <4>2
        <5>3. obs.angVel.of = now /\ obs.angVel.fresh >= p
          BY <3>1, <3>3, <5>2 DEF Own
        <5>. QED BY <2>8, <3>4, <4>1, <4>2, <5>1, <5>3
      <4>3. CASE i # History
        <5>1. hist'[i] = hist[i] /\ hist[i].angVel.fresh \in Int
          BY <2>4, <2>8, <4>3 DEF Slot
        <5>2. i <= Moved /\ p - (History - i) >= 1
          BY <3>2, <3>5, <3>4, <4>1, <4>3
        <5>3. hist[i].angVel.of = now /\ hist[i].angVel.fresh >= p - (History - i)
          BY <1>1, <3>3, <5>2 DEF Fading, PushOf, Own, Slot
        <5>. QED BY <3>4, <4>1, <5>1, <5>3
      <4>. QED BY <4>2, <4>3
    <3>6. \A i \in 1..History : ~(i <= Moved')
      BY <3>2
    <3>7. \A i \in 1..History : pushes' - (History - i) = q - (History - i)
      BY <3>3
    <3>. QED BY <3>2, <3>5, <3>6, <3>7 DEF Fading, PushOf, Own, Slot
  <2>. QED BY <2>2, <2>3, <2>6, <2>7, <2>9, <2>10 DEF IInv
<1>. QED BY <1>8, <1>9, <1>10, <1>11, <1>12, <1>13, <1>14, <1>15, <1>16, <1>17
     DEF Keeping, Thread
-----------------------------------------------------------------------------
\* One lemma per action of the loop and of the thread.
LEMMA StepIInv == IInv /\ [Next]_vars => IInv'
<1>. SUFFICES ASSUME IInv, [Next]_vars PROVE IInv'
  OBVIOUS
<1>1. CASE UNCHANGED vars
  BY <1>1
  DEF vars, loopVars, threadVars, shared, IInv, TypeOK, OneThread, Leftover, CurrentCycle,
      NothingOlder, Settled, Healing, Moved, PushAt, ShiftAt, Np3o, Cycle, At, Slot, PushCap,
      Filtering, Fading, PushOf, Own
<1>. QED BY <1>1, LoopStep, ThreadStep DEF Next

\* For every length of the history: the invariant of the thread's cycle.
THEOREM Invariance == Spec => []IInv
BY InitIInv, StepIInv, PTL DEF Spec

\* Types of all variables; that there is never a second thread is one of them.
THEOREM TypeCorrect == Spec => []TypeOK
<1>1. IInv => TypeOK
  BY DEF IInv
<1>. QED BY <1>1, Invariance, PTL

\* From the third push after enter() on an observation in obs_history_vec_ is of
\* this activation, but for the angular velocity, in which the readings of this
\* activation gain one on the earlier ones with every push, wherever the cycle
\* was that enter() has found under way.
THEOREM HistoryRecovers == Spec => []HistoryHeals
<1>1. IInv => HistoryHeals
  BY HistoryAssumption DEF IInv, TypeOK, Healing, Fading, HistoryHeals, PushOf, PushCap, Slot
<1>. QED BY <1>1, Invariance, PTL

\* From the second push on (PPO: the third) run() puts only actions of this
\* activation into low_cmd.
THEOREM CommandsRecover == Spec => CommandHeals
<1>1. IInv /\ [Next]_vars =>
        [RunState /\ pushes >= (IF policyType = "np3o" THEN 2 ELSE 3) => cmd' = now]_vars
  BY DEF IInv, NothingOlder, Settled, Np3o, RunState
<1>. QED BY <1>1, Invariance, PTL DEF Spec, CommandHeals
-----------------------------------------------------------------------------
(* A policy that stays current ends up commanding fresh actions.  What      *)
(* ENABLED says of a step is opaque to the prover, so it is a hypothesis.   *)

\* An observation history of at most 1024 slots; the configurations have 10.
HistoryConfigured == History <= 1024

\* The control loop runs the state; the thread exists and may begin a cycle.
Stays == loop = "in"
GuardsEnable ==
  /\ Stays /\ ~stopUpdate /\ threads = 1 => ENABLED <<Keeping(Thread)>>_vars
  /\ Stays /\ cmd # action => ENABLED <<Keeping(RunState)>>_vars

\* enter() has made the thread and allowed its updates.
Entered == Stays => ~stopUpdate /\ ~threadFirst

\* Nothing but the end of enter() leads to run().
LEMMA EnteredAlways == Spec => []Entered
<1>1. Init => Entered
  BY DEF Init, Entered, Stays
<1>2. Entered /\ [Next]_vars => Entered'
  <2>. SUFFICES ASSUME Entered, [Next]_vars PROVE Entered'
    OBVIOUS
  <2>1. CASE Keeping(Loop)
    BY <2>1 DEF Keeping, Loop, Entering, EnterReset, EnterSense, EnterFilter, EnterObserve,
       EnterFill, EnterGo, RunState, Exit,
                Entered, Stays
  <2>2. CASE Keeping(Thread) \/ UNCHANGED vars
    <3>1. UNCHANGED <<loop, stopUpdate, threadFirst>>
      BY <2>2 DEF Keeping, Thread, Begin, Sense, Filter, Observe, CopyInputs, Infer, StoreLast,
       ShiftOne, ShiftDone, Push, vars, loopVars
    <3>. QED BY <3>1 DEF Entered, Stays
  <2>. QED BY <2>1, <2>2 DEF Next
<1>. QED BY <1>1, <1>2, PTL DEF Spec

Good == IInv /\ Entered

\* The thread is at place k of its cycle; at the shift; it has shifted n slots
\* at least; it is at the push; it has pushed n times at least.
Place(k)   == step = k
Shifting   == step = ShiftAt
Shifted(n) == Shifting /\ shift >= n
Pushing    == step = PushAt
Pushed(n)  == pushes >= n
After(k)   == IF k = 8 THEN 0 ELSE k + 1

\* What a step of the thread does.
LEMMA ThreadMoves ==
  ASSUME Good, Keeping(Thread), Entered, Stays,
         NEW k \in 0..8, NEW n \in Nat, NEW m \in Nat, m = n + 1
  PROVE  /\ Place(k) /\ ~Shifting => Place(After(k))'
         /\ Place(k) => Place(k)' \/ Place(After(k))'
         /\ Shifted(n) => (Shifted(n)' /\ Shifted(m)') \/ ~Shifting'
         /\ Pushed(n) => Pushed(n)'
         /\ Pushing /\ Pushed(n) /\ n < 3 => Pushed(m)'
         /\ Pushing => ~Pushing'
         /\ UNCHANGED <<loopVars, ShiftAt, PushAt>>
<1>1. TypeOK
  BY DEF Good, IInv
<1>2. UNCHANGED <<ShiftAt, PushAt>>
  BY DEF Keeping, ShiftAt, PushAt, Np3o
<1>3. /\ History \in Nat /\ History >= 1 /\ step \in 0..8
      /\ shift \in 0..(History - 1) /\ pushes \in 0..(History + 3)
      /\ PushAt \in {5, 8} /\ ShiftAt = PushAt - 1
      /\ policyType \in {"np3o", "ppo"}
  BY <1>1, Numbers
<1>4. /\ At("sense") <=> step = 1
      /\ At("filter") <=> step = 2
      /\ At("observe") <=> step = 3
      /\ At("copy") <=> step = IF Np3o THEN 4 ELSE 6
      /\ At("infer") <=> step = IF Np3o THEN 5 ELSE 7
      /\ At("last") <=> step = IF Np3o THEN 6 ELSE 8
      /\ At("shift") <=> step = ShiftAt
      /\ At("push") <=> step = PushAt
      /\ Advance <=> step' = IF step = 8 THEN 0 ELSE step + 1
  BY <1>1, <1>3, Places DEF TypeOK
<1>5. /\ Np3o => PushAt = 8 /\ ShiftAt = 7
      /\ ~Np3o => PushAt = 5 /\ ShiftAt = 4
  BY DEF PushAt, ShiftAt
<1>. USE DEF Place, Shifting, Shifted, Pushing, Pushed, After
<1>6. CASE Begin
  BY <1>2, <1>3, <1>6 DEF Begin, Entered
<1>7. CASE Sense \/ Filter \/ Observe \/ CopyInputs \/ Infer \/ StoreLast
  <2>1. /\ step' = IF step = 8 THEN 0 ELSE step + 1
        /\ step # ShiftAt /\ step # PushAt
        /\ pushes' = pushes /\ UNCHANGED loopVars
    BY <1>3, <1>4, <1>5, <1>7 DEF Sense, Filter, Observe, CopyInputs, Infer, StoreLast, shared
  <2>. QED BY <1>2, <1>3, <2>1
<1>8. CASE ShiftOne
  BY <1>2, <1>3, <1>4, <1>8 DEF ShiftOne, Shifts
<1>9. CASE ShiftDone
  BY <1>2, <1>3, <1>4, <1>9 DEF ShiftDone, Shifts
<1>10. CASE Push
  BY <1>2, <1>3, <1>4, <1>10 DEF Push, PushCap
<1>. QED BY <1>6, <1>7, <1>8, <1>9, <1>10 DEF Keeping, Thread

\* What the loop's steps do while it stays: run() puts the action into low_cmd.
LEMMA LoopStays ==
  ASSUME Keeping(Loop) \/ UNCHANGED vars, Stays, Stays'
  PROVE  /\ UNCHANGED <<threadVars, shared, pushes, now, ShiftAt, PushAt>>
         /\ cmd' = cmd \/ cmd' = action
BY DEF Keeping, Loop, Entering, EnterReset, EnterSense, EnterFilter, EnterObserve,
       EnterFill, EnterGo, RunState, Exit, Stays, vars,
       loopVars, threadVars, shared, ShiftAt, PushAt, Np3o

\* Whoever makes a step, the thread is not moved back.
LEMMA AnyMoves ==
  ASSUME Good, Stays, Stays', [Next]_vars,
         NEW k \in 0..8, NEW n \in Nat, NEW m \in Nat, m = n + 1
  PROVE  /\ Place(k) => Place(k)' \/ Place(After(k))'
         /\ Place(k) /\ ~Shifting => (Place(k) /\ ~Shifting)' \/ Place(After(k))'
         /\ Place(k) /\ Shifting => (Place(k) /\ Shifting)' \/ Place(After(k))'
         /\ Shifted(n) => Shifted(n)' \/ ~Shifting'
         /\ Pushed(n) => Pushed(n)'
         /\ Pushing /\ Pushed(n) /\ n < 3 => (Pushing /\ Pushed(n))' \/ Pushed(m)'
         /\ (PushAt = 5 => PushAt' = 5) /\ (PushAt = 8 => PushAt' = 8)
<1>1. Entered
  BY DEF Good
<1>2. CASE Keeping(Thread)
  BY <1>1, <1>2, ThreadMoves DEF Place, Shifting
<1>3. CASE Keeping(Loop) \/ UNCHANGED vars
  <2>1. UNCHANGED <<threadVars, pushes, ShiftAt, PushAt>>
    BY <1>3, LoopStays
  <2>. QED BY <2>1 DEF threadVars, Place, Shifting, Shifted, Pushing, Pushed
<1>. QED BY <1>2, <1>3 DEF Next

\* A suffix in which the policy stays current.
Running ==
  /\ [][Next]_vars /\ WF_vars(Keeping(Thread)) /\ WF_vars(Keeping(RunState))
  /\ []Good /\ []GuardsEnable /\ []Stays

\* The thread is always let on.
LEMMA ThreadLive == Good /\ GuardsEnable /\ Stays => ENABLED <<Keeping(Thread)>>_vars
<1>1. Good /\ Stays => ~stopUpdate /\ threads = 1
  BY DEF Good, IInv, OneThread, Entered
<1>. QED BY <1>1 DEF GuardsEnable

\* From i slots shifted it gets to j, or has done shifting.
GetsTo(i, j) == Running => (Shifted(i) ~> Shifted(j) \/ ~Shifting)

\* A step of the thread shifts one slot more, and no other undoes it.
LEMMA ShiftOneMore ==
  ASSUME NEW i \in Nat, NEW j \in Nat, j = i + 1
  PROVE  GetsTo(i, j)
<1>1. Good /\ Stays /\ Stays' /\ [Next]_vars => (Shifted(i) => Shifted(i)' \/ ~Shifting')
  <2>1. 0 \in 0..8
    OBVIOUS
  <2>. QED BY <2>1, AnyMoves
<1>2. Good /\ Stays /\ <<Keeping(Thread)>>_vars => (Shifted(i) => Shifted(j)' \/ ~Shifting')
  <2>1. 0 \in 0..8
    OBVIOUS
  <2>. QED BY <2>1, ThreadMoves DEF Good
<1>. QED BY <1>1, <1>2, ThreadLive, PTL DEF Running, GetsTo

\* It shifts n slots, wherever it stands.
ShiftCounts(n) == \A i, j \in Nat : j = i + n => GetsTo(i, j)

\* Shifting m slots and then n is shifting m + n.
LEMMA ShiftCountsAdd ==
  ASSUME NEW m \in Nat, NEW n \in Nat, NEW k \in Nat, k = m + n
  PROVE  ShiftCounts(m) /\ ShiftCounts(n) => ShiftCounts(k)
<1>1. ASSUME NEW i \in Nat, NEW a \in Nat, NEW j \in Nat
      PROVE  GetsTo(i, a) /\ GetsTo(a, j) => GetsTo(i, j)
  BY PTL DEF GetsTo
<1>2. ASSUME NEW i \in Nat, NEW j \in Nat, j = i + k
      PROVE  i + m \in Nat /\ j = (i + m) + n
  BY <1>2
<1>. QED BY <1>1, <1>2 DEF ShiftCounts

\* All the slots there may be, by doubling (induction over a temporal formula
\* is not to be had).
LEMMA ShiftCountsFar == ShiftCounts(1024)
<1>1. ShiftCounts(1)
  BY ShiftOneMore DEF ShiftCounts
<1>2. ShiftCounts(2)
  BY <1>1, ShiftCountsAdd, 1 + 1 = 2
<1>3. ShiftCounts(4)
  BY <1>2, ShiftCountsAdd, 2 + 2 = 4
<1>4. ShiftCounts(8)
  BY <1>3, ShiftCountsAdd, 4 + 4 = 8
<1>5. ShiftCounts(16)
  BY <1>4, ShiftCountsAdd, 8 + 8 = 16
<1>6. ShiftCounts(32)
  BY <1>5, ShiftCountsAdd, 16 + 16 = 32
<1>7. ShiftCounts(64)
  BY <1>6, ShiftCountsAdd, 32 + 32 = 64
<1>8. ShiftCounts(128)
  BY <1>7, ShiftCountsAdd, 64 + 64 = 128
<1>9. ShiftCounts(256)
  BY <1>8, ShiftCountsAdd, 128 + 128 = 256
<1>10. ShiftCounts(512)
  BY <1>9, ShiftCountsAdd, 256 + 256 = 512
<1>. QED BY <1>10, ShiftCountsAdd, 512 + 512 = 1024

\* So the shift of a cycle ends.
LEMMA ShiftEnds == ASSUME HistoryConfigured PROVE Running => (Shifting ~> ~Shifting)
<1>1. PICK z \in Nat, far \in Nat : z = 0 /\ far = z + 1024
  OBVIOUS
<1>2. GetsTo(z, far)
  BY <1>1, ShiftCountsFar, 1024 \in Nat DEF ShiftCounts
<1>3. Good => shift \in 0..(History - 1) /\ History \in Nat
  BY Numbers DEF Good, IInv
<1>4. Good /\ Shifting => Shifted(z)
  BY <1>1, <1>3 DEF Shifted
<1>5. Good => ~Shifted(far)
  BY <1>1, <1>3 DEF Shifted, HistoryConfigured
<1>. QED BY <1>2, <1>4, <1>5, PTL DEF Running, GetsTo

\* Every place of the cycle is left for the next one.
Leaves(k, j) == Running => (Place(k) ~> Place(j))
LEMMA PlaceLeft ==
  ASSUME HistoryConfigured, NEW k \in 0..8, NEW j \in 0..8, j = After(k)
  PROVE  Leaves(k, j)
<1>1. Good /\ Stays /\ Stays' /\ [Next]_vars =>
        /\ Place(k) /\ ~Shifting => (Place(k) /\ ~Shifting)' \/ Place(j)'
        /\ Place(k) /\ Shifting => (Place(k) /\ Shifting)' \/ Place(j)'
  <2>1. 0 \in Nat /\ 1 \in Nat /\ 1 = 0 + 1
    OBVIOUS
  <2>. QED BY <2>1, AnyMoves
<1>2. Good /\ Stays /\ <<Keeping(Thread)>>_vars => (Place(k) /\ ~Shifting => Place(j)')
  <2>1. 0 \in Nat /\ 1 \in Nat /\ 1 = 0 + 1
    OBVIOUS
  <2>. QED BY <2>1, ThreadMoves DEF Good
<1>3. Running => (Shifting ~> ~Shifting)
  BY ShiftEnds
<1>4. Running => (Place(k) /\ ~Shifting ~> Place(j))
  BY <1>1, <1>2, ThreadLive, PTL DEF Running
<1>5. Running => (Place(k) /\ Shifting ~> Place(j))
  BY <1>1, <1>3, PTL DEF Running
<1>. QED BY <1>4, <1>5, PTL DEF Leaves

\* So the thread pushes again and again.
LEMMA PushesRecur == ASSUME HistoryConfigured PROVE Running => []<>Pushing
<1>. DEFINE Five == PushAt = 5
            Eight == PushAt = 8
<1>1. /\ After(0) = 1 /\ After(1) = 2 /\ After(2) = 3 /\ After(3) = 4
      /\ After(4) = 5 /\ After(5) = 6 /\ After(6) = 7 /\ After(7) = 8 /\ After(8) = 0
      /\ \A k \in {0, 1, 2, 3, 4, 5, 6, 7, 8} : k \in 0..8
  BY DEF After
<1>2. /\ Leaves(0, 1) /\ Leaves(1, 2) /\ Leaves(2, 3) /\ Leaves(3, 4)
      /\ Leaves(4, 5) /\ Leaves(5, 6) /\ Leaves(6, 7) /\ Leaves(7, 8)
      /\ Leaves(8, 0)
  BY <1>1, PlaceLeft
<1>3. Good => \/ Place(0) \/ Place(1) \/ Place(2) \/ Place(3)
              \/ Place(4) \/ Place(5) \/ Place(6) \/ Place(7)
              \/ Place(8)
  BY Numbers DEF Good, IInv, Place
<1>4. /\ Good => Five \/ Eight
      /\ Five /\ Place(5) => Pushing
      /\ Eight /\ Place(8) => Pushing
  BY Numbers DEF Good, IInv, Place, Pushing
<1>5. Good /\ Stays /\ Stays' /\ [Next]_vars => (Five => Five') /\ (Eight => Eight')
  <2>1. 0 \in 0..8 /\ 0 \in Nat /\ 1 \in Nat /\ 1 = 0 + 1
    OBVIOUS
  <2>. QED BY <2>1, AnyMoves
<1>. HIDE DEF Five, Eight
<1>6. Running => []<>Place(5) /\ []<>Place(8)
  BY <1>2, <1>3, PTL DEF Running, Leaves
<1>. QED BY <1>4, <1>5, <1>6, PTL DEF Running

\* Three pushes are made.
Pushes(n, m) == Running => (Pushed(n) ~> Pushed(m))
LEMMA PushedOnce ==
  ASSUME HistoryConfigured, NEW n \in 0..2, NEW m \in 1..3, m = n + 1
  PROVE  Pushes(n, m)
<1>1. 0 \in 0..8 /\ n \in Nat /\ m \in Nat /\ n < 3
  OBVIOUS
<1>2. Good /\ Stays /\ Stays' /\ [Next]_vars =>
        /\ Pushed(n) => Pushed(n)'
        /\ Pushing /\ Pushed(n) => (Pushing /\ Pushed(n))' \/ Pushed(m)'
  BY <1>1, AnyMoves
<1>3. Good /\ Stays /\ <<Keeping(Thread)>>_vars => (Pushing /\ Pushed(n) => Pushed(m)')
  BY <1>1, ThreadMoves DEF Good
<1>4. Running => []<>Pushing
  BY PushesRecur
<1>. QED BY <1>2, <1>3, <1>4, ThreadLive, PTL DEF Running, Pushes

\* Once a policy stays current, the thread goes through its cycle, the third
\* push of the activation leaves action_vec_ fresh for good, and the next run()
\* puts it into low_cmd: for every history of at most 1024 slots, both types of
\* policies and any number of earlier activations.
THEOREM CommandsBecomeFresh ==
  ASSUME HistoryConfigured
  PROVE  FairSpec /\ []GuardsEnable => EventuallyFresh
<1>. DEFINE Fresh == cmd = now
<1>0. /\ 0 \in 0..2 /\ 1 \in 0..2 /\ 2 \in 0..2 /\ 1 \in 1..3 /\ 2 \in 1..3 /\ 3 \in 1..3
      /\ 1 = 0 + 1 /\ 2 = 1 + 1 /\ 3 = 2 + 1
  OBVIOUS
<1>1. Pushes(0, 1) /\ Pushes(1, 2) /\ Pushes(2, 3)
  BY <1>0, PushedOnce
<1>2. Good => Pushed(0)
  BY Numbers DEF Good, IInv, Pushed
<1>3. Good /\ Stays /\ Stays' /\ [Next]_vars => (Pushed(3) => Pushed(3)')
  <2>1. 0 \in 0..8 /\ 3 \in Nat /\ 4 \in Nat /\ 4 = 3 + 1
    OBVIOUS
  <2>. QED BY <2>1, AnyMoves
<1>4. Good /\ Pushed(3) => action = now
  BY Numbers DEF Good, IInv, NothingOlder, Settled, Pushed
<1>5. Good /\ Pushed(3) /\ Fresh /\ Stays /\ Stays' /\ [Next]_vars => Fresh'
  <2>. SUFFICES ASSUME Good, Pushed(3), Fresh, Stays, Stays', [Next]_vars PROVE Fresh'
    OBVIOUS
  <2>1. CASE Keeping(Thread)
    BY <2>1 DEF Keeping, Thread, Begin, Sense, Filter, Observe, CopyInputs, Infer, StoreLast,
       ShiftOne, ShiftDone, Push, loopVars
  <2>2. CASE Keeping(Loop) \/ UNCHANGED vars
    BY <1>4, <2>2, LoopStays
  <2>. QED BY <2>1, <2>2 DEF Next
<1>6. Good /\ Pushed(3) /\ <<Keeping(RunState)>>_vars => Fresh'
  BY <1>4 DEF Keeping, RunState
<1>7. Good /\ Pushed(3) /\ Stays /\ GuardsEnable => Fresh \/ ENABLED <<Keeping(RunState)>>_vars
  BY <1>4 DEF GuardsEnable
<1>8. (loop = "in" <=> Stays) /\ (cmd = now <=> Fresh)
  BY DEF Stays
<1>. HIDE DEF Fresh
<1>9. Running => <>[]Pushed(3)
  BY <1>1, <1>2, <1>3, PTL DEF Running, Pushes
<1>10. Running /\ []Pushed(3) => <>[]Fresh
  BY <1>5, <1>6, <1>7, PTL DEF Running
<1>11. Running => <>[]Fresh
  BY <1>9, <1>10, PTL DEF Running
<1>12. FairSpec => []Good
  BY Invariance, EnteredAlways, PTL DEF FairSpec, Good
<1>. QED BY <1>8, <1>11, <1>12, PTL DEF FairSpec, Spec, Running, EventuallyFresh
-----------------------------------------------------------------------------
(* The window of a cycle that nobody disturbs.                              *)

CONSTANTS Clients, HistoryLen, Window, MaxFrames
VARIABLES client, pc, frame, first, history, input, asked
W == INSTANCE PolicyWindow

\* Types of all variables.
WindowTypes ==
  /\ client \in W!AppendFirst \cup W!InferFirst
  /\ pc \in {"start", "observe", "append", "infer"}
  /\ frame \in Nat /\ first \in Nat /\ asked \in Nat
  /\ history \in [W!Slot -> Nat] /\ input \in [W!Seen -> Nat]

\* The last frame the window holds: the current one is not in it while it
\* waits to be appended, or to be inferred with by a program that infers first.
\* The window of a fresh fill holds the current frame in any case.
Newest == IF pc = "append" \/ (pc = "infer" /\ client \in W!InferFirst)
          THEN frame - 1 ELSE frame
\* The window is the last HistoryLen frames up to Newest, the first one
\* repeated where there are not as many.
WindowRight == \A i \in W!Slot : history[i] = W!Later(first, Newest - HistoryLen + i)
\* The frame of the last inference is never ahead of the current one.
WindowOrder == first <= frame /\ asked <= frame

WindowInv ==
  /\ WindowTypes /\ WindowOrder /\ WindowRight
  /\ client \in W!AppendFirst /\ pc = "append" => first < frame
  /\ client \in W!AppendFirst => W!InputAsTrained
  /\ client \in W!InferFirst => W!FrameBeforeMissing
-----------------------------------------------------------------------------
\* The history starts as copies of frame 0.
LEMMA WindowInit == ASSUME W!Parameters PROVE W!Init => WindowInv
<1>. SUFFICES ASSUME W!Init PROVE WindowInv
  OBVIOUS
<1>. USE DEF W!Parameters, W!Init
<1>1. WindowTypes /\ WindowOrder
  BY DEF WindowTypes, WindowOrder, W!Slot, W!Seen, W!AppendFirst, W!InferFirst
<1>2. WindowRight
  BY DEF WindowRight, Newest, W!Later, W!Slot
<1>3. W!InputAsTrained
  BY DEF W!InputAsTrained, W!Later, W!Seen
<1>4. W!FrameBeforeMissing
  BY DEF W!FrameBeforeMissing, W!Later, W!Seen
<1>. QED BY <1>1, <1>2, <1>3, <1>4 DEF WindowInv

\* In a window that ends at n no frame is older than the first one, f.
LEMMA FirstStands ==
  ASSUME W!Parameters, NEW f \in Nat, NEW n \in Int, n <= f, NEW i \in W!Slot
  PROVE  W!Later(f, n - HistoryLen + i) = f
BY DEF W!Parameters, W!Later, W!Slot

\* What an inference gives the encoder, from what the window holds.
LEMMA WindowInfer ==
  ASSUME W!Parameters, WindowInv, W!Infer
  PROVE  /\ client \in W!AppendFirst => W!InputAsTrained'
         /\ client \in W!InferFirst => W!FrameBeforeMissing'
<1>. USE DEF W!Parameters
<1>1. /\ pc = "infer" /\ asked' = frame /\ first' = first /\ first <= frame
      /\ frame \in Nat /\ first \in Nat
      /\ \A i \in W!Slot : history[i] = W!Later(first, Newest - HistoryLen + i)
  BY DEF WindowInv, W!Infer, WindowTypes, WindowOrder, WindowRight
<1>2. client \in W!AppendFirst => client \notin W!InferFirst
  BY DEF W!AppendFirst, W!InferFirst
<1>3. \A i \in W!Seen : i < Window =>
        W!EndingIn(W!Preceding(history), frame)[i] = history[HistoryLen - Window + i]
  BY DEF W!EndingIn, W!Preceding, W!Seen
<1>4. history[HistoryLen] = W!Later(first, Newest)
  BY <1>1 DEF W!Slot, Newest, W!Later
<1>5. ASSUME NEW i \in W!Seen, i < Window
      PROVE  history[HistoryLen - Window + i] = W!Later(first, Newest - Window + i)
  <2>1. HistoryLen - Window + i \in W!Slot
    BY <1>5 DEF W!Slot, W!Seen
  <2>2. Newest - HistoryLen + (HistoryLen - Window + i) = Newest - Window + i
    BY <1>1, <1>5 DEF Newest, W!Seen
  <2>. QED BY <1>1, <2>1, <2>2
<1>6. CASE client \in W!AppendFirst
  <2>1. Newest = frame
    BY <1>1, <1>2, <1>6 DEF Newest
  <2>2. history[HistoryLen] = frame
    BY <1>1, <1>4, <2>1 DEF W!Later
  <2>3. input' = W!EndingIn(W!Preceding(history), frame)
    BY <2>2 DEF W!Infer, W!TrainedInput, W!ExportedInput
  <2>4. \A i \in W!Seen : input'[i] = W!Later(first, frame - Window + i)
    <3>. SUFFICES ASSUME NEW i \in W!Seen
                  PROVE  input'[i] = W!Later(first, frame - Window + i)
      OBVIOUS
    <3>1. CASE i < Window
      BY <1>3, <1>5, <2>1, <2>3, <3>1
    <3>2. CASE i = Window
      <4>1. input'[i] = frame
        BY <2>3, <3>2 DEF W!EndingIn
      <4>. QED BY <1>1, <3>2, <4>1 DEF W!Later
    <3>. QED BY <3>1, <3>2 DEF W!Seen
  <2>5. input' = [i \in W!Seen |-> W!Later(first, frame - Window + i)]
    BY <2>3, <2>4 DEF W!EndingIn
  <2>. QED BY <1>1, <1>2, <1>6, <2>5 DEF W!InputAsTrained
<1>7. CASE client \in W!InferFirst
  <2>1. Newest = frame - 1 /\ client # "training"
    BY <1>1, <1>7 DEF Newest, W!InferFirst
  <2>2. input' = W!EndingIn(W!Preceding(history), frame)
    BY <2>1 DEF W!Infer, W!ExportedInput
  <2>3. \A i \in W!Seen : input'[i] = IF i < Window THEN W!Later(first, frame - Window - 1 + i)
                                   ELSE frame
    <3>. SUFFICES ASSUME NEW i \in W!Seen
                  PROVE  input'[i] = IF i < Window THEN W!Later(first, frame - Window - 1 + i)
                                     ELSE frame
      OBVIOUS
    <3>1. CASE i < Window
      <4>1. frame - 1 - Window + i = frame - Window - 1 + i
        BY <1>1 DEF W!Seen
      <4>. QED BY <1>3, <1>5, <2>1, <2>2, <3>1, <4>1
    <3>2. CASE ~(i < Window)
      BY <2>2, <3>2 DEF W!EndingIn
    <3>. QED BY <3>1, <3>2
  <2>4. input' = [i \in W!Seen |-> IF i < Window THEN W!Later(first, frame - Window - 1 + i)
                                 ELSE frame]
    BY <2>2, <2>3 DEF W!EndingIn
  <2>. QED BY <1>1, <1>2, <1>7, <2>4 DEF W!FrameBeforeMissing
<1>. QED BY <1>6, <1>7

\* Every program moves the window by one frame per cycle.
LEMMA WindowStep == ASSUME W!Parameters PROVE WindowInv /\ [W!Next]_W!vars => WindowInv'
<1>. SUFFICES ASSUME WindowInv, [W!Next]_W!vars PROVE WindowInv'
  OBVIOUS
<1>. USE DEF W!Parameters
<1>0. client' = client
  BY DEF W!Next, W!Fill, W!Observe, W!AppendFrame, W!Infer, W!vars
<1>1. CASE W!Fill
  <2>1. WindowTypes'
    BY <1>1 DEF WindowInv, WindowTypes, W!Fill, W!Slot, W!Seen
  <2>2. WindowOrder' /\ asked' < first'
    BY <1>1 DEF WindowInv, WindowTypes, WindowOrder, W!Fill
  <2>3. WindowRight'
    <3>1. ASSUME NEW i \in W!Slot
          PROVE  history'[i] = W!Later(first', Newest' - HistoryLen + i)
      <4>1. history'[i] = first' /\ first' = frame'
        BY <1>1 DEF W!Fill
      <4>2. first' \in Nat /\ frame' \in Nat
        BY <2>1 DEF WindowTypes
      <4>3. Newest' = frame' \/ Newest' = frame' - 1
        BY DEF Newest
      <4>4. Newest' \in Int /\ Newest' <= first'
        BY <4>1, <4>2, <4>3
      <4>. QED BY <4>1, <4>2, <4>4, FirstStands
    <3>. QED BY <3>1 DEF WindowRight, W!Slot
  <2>4. W!InputAsTrained' /\ W!FrameBeforeMissing'
    BY <2>1, <2>2 DEF W!InputAsTrained, W!FrameBeforeMissing, WindowTypes
  <2>. QED BY <1>1, <2>1, <2>2, <2>3, <2>4 DEF WindowInv, W!Fill
<1>2. CASE W!Observe
  <2>1. WindowTypes' /\ WindowOrder' /\ first' < frame'
    BY <1>2 DEF WindowInv, WindowTypes, WindowOrder, W!Observe, W!Slot, W!Seen
  <2>2. Newest = frame /\ Newest' = frame
    BY <1>0, <1>2, <2>1 DEF WindowInv, WindowTypes, W!Observe, Newest, W!AppendFirst, W!InferFirst
  <2>3. WindowRight'
    BY <1>2, <2>2 DEF WindowInv, WindowRight, W!Observe, W!Slot
  <2>4. UNCHANGED <<input, asked, first>>
    BY <1>2 DEF W!Observe
  <2>. QED BY <1>0, <2>1, <2>3, <2>4
       DEF WindowInv, W!InputAsTrained, W!FrameBeforeMissing, W!Seen
<1>3. CASE W!AppendFrame
  <2>1. WindowTypes' /\ WindowOrder'
    BY <1>3 DEF WindowInv, WindowTypes, WindowOrder, W!AppendFrame, W!Slot, W!Seen
  <2>2. Newest = frame - 1 /\ Newest' = frame /\ frame \in Nat /\ first \in Nat /\ first <= frame
    BY <1>0, <1>3 DEF WindowInv, WindowTypes, WindowOrder, W!AppendFrame, Newest,
                        W!AppendFirst, W!InferFirst
  <2>3. WindowRight'
    <3>1. ASSUME NEW i \in W!Slot
          PROVE  history'[i] = W!Later(first, frame - HistoryLen + i)
      <4>1. CASE i < HistoryLen
        <5>1. i + 1 \in W!Slot /\ history'[i] = history[i + 1]
          BY <1>3, <4>1 DEF W!AppendFrame, W!Slot
        <5>2. frame - 1 - HistoryLen + (i + 1) = frame - HistoryLen + i
          BY <2>2 DEF W!Slot
        <5>. QED BY <2>2, <5>1, <5>2 DEF WindowInv, WindowRight
      <4>2. CASE i = HistoryLen
        BY <1>3, <2>2, <4>2 DEF W!AppendFrame, W!Later, W!Slot
      <4>. QED BY <4>1, <4>2 DEF W!Slot
    <3>. QED BY <1>3, <2>2, <3>1 DEF WindowRight, W!AppendFrame, W!Slot
  <2>4. UNCHANGED <<input, asked, first>> /\ pc' # "append"
    BY <1>3 DEF W!AppendFrame
  <2>. QED BY <1>0, <2>1, <2>3, <2>4
       DEF WindowInv, W!InputAsTrained, W!FrameBeforeMissing, W!Seen
<1>4. CASE W!Infer
  <2>1. WindowTypes'
    BY <1>4 DEF WindowInv, WindowTypes, W!Infer, W!Slot, W!Seen, W!EndingIn,
                 W!Preceding, W!TrainedInput, W!ExportedInput
  <2>2. WindowOrder'
    BY <1>4 DEF WindowInv, WindowTypes, WindowOrder, W!Infer
  <2>3. Newest' = Newest /\ UNCHANGED <<history, first, frame>>
    BY <1>4 DEF WindowInv, WindowTypes, W!Infer, Newest, W!AppendFirst, W!InferFirst
  <2>4. WindowRight'
    BY <2>3 DEF WindowInv, WindowRight, W!Slot
  <2>5. client \in W!AppendFirst => pc' # "append"
    BY <1>4 DEF W!Infer
  <2>. QED BY <1>0, <1>4, <2>1, <2>2, <2>4, <2>5, WindowInfer DEF WindowInv
<1>5. CASE UNCHANGED W!vars
  BY <1>5 DEF WindowInv, WindowTypes, WindowOrder, WindowRight, Newest,
              W!InputAsTrained, W!FrameBeforeMissing, W!Slot, W!Seen, W!vars
<1>. QED BY <1>1, <1>2, <1>3, <1>4, <1>5 DEF W!Next

\* So the window is right between any two steps.
LEMMA WindowAlways == ASSUME W!Parameters PROVE W!Spec => []WindowInv
  BY WindowInit, WindowStep, PTL DEF W!Spec
-----------------------------------------------------------------------------
\* Training and the scripts that append the observation before they call the
\* policy (d1_rough_mujoco_demo.py 409, tita_mujoco_demo.py 505) give the
\* encoder the last bt_window frames, none left out.
THEOREM AppendersAsTrained ==
  ASSUME W!Parameters
  PROVE  W!Spec => [](client \in W!AppendFirst => W!InputAsTrained)
<1>1. WindowInv => (client \in W!AppendFirst => W!InputAsTrained)
  BY DEF WindowInv
<1>. QED BY <1>1, WindowAlways, PTL

\* rl_controller and the scripts that append it after the call
\* (FSMState_RL.cpp 286-292, mini_flat_mujoco_demo.py 157, andy_height 220) leave
\* out exactly the frame before the current one, at every inference, and give
\* the encoder one older frame instead.
THEOREM InferrersMissOneFrame ==
  ASSUME W!Parameters
  PROVE  W!Spec => [](client \in W!InferFirst => W!FrameBeforeMissing)
<1>1. WindowInv => (client \in W!InferFirst => W!FrameBeforeMissing)
  BY DEF WindowInv
<1>. QED BY <1>1, WindowAlways, PTL
=============================================================================

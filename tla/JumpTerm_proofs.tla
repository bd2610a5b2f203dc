--------------------------- MODULE JumpTerm_proofs -------------------------
(***************************************************************************)
(* Lemmas about the methods that both jump terms share and about the       *)
(* account of the rewards, for all timeouts and reward windows.  They are  *)
(* cited by JumpFsm_proofs and TerrainJump_proofs.                         *)
(***************************************************************************)
EXTENDS JumpRewards, TLAPS

Row == [cmd : {0, 1}, stage : Stage, flown : BOOLEAN, jumped : BOOLEAN,
        last : BOOLEAN, rec : Nat, s1 : Nat, fly : Nat, s3 : Nat, trigger : Nat, prep : Nat]

\* The timers are below their timeouts.
Running(s) == s.rec < RecoverySteps /\ s.s1 < S1Steps /\ s.s3 < S3Steps

\* The methods keep the row's type.
LEMMA ResetType ==
  ASSUME NEW s \in Row, NEW c \in {0, 1}, NEW base \in Nat, NEW d \in Nat
  PROVE  Reset(s, c, base, d) \in Row /\ Running(Reset(s, c, base, d))
<1>1. PICK n \in Nat : n = base + d
  OBVIOUS
<1>2. [s EXCEPT !.cmd = c, !.stage = "RECOVERY", !.flown = FALSE, !.jumped = FALSE,
                !.last = FALSE, !.rec = 0, !.s1 = 0, !.fly = 0, !.s3 = 0, !.trigger = n,
                !.prep = 0] \in Row
  BY DEF Row, Stage
<1>3. Running([s EXCEPT !.cmd = c, !.stage = "RECOVERY", !.flown = FALSE,
                        !.jumped = FALSE, !.last = FALSE, !.rec = 0, !.s1 = 0,
                        !.fly = 0, !.s3 = 0, !.trigger = n, !.prep = 0])
  BY TimeoutAssumption DEF Row, Running
<1> QED
  BY <1>1, <1>2, <1>3 DEF Reset

\* The contacts of a step make rows of rows.
LEMMA ContactType ==
  ASSUME NEW s \in Row, NEW t \in BOOLEAN, NEW fit \in BOOLEAN
  PROVE  Contact(s, t, fit) \in Row
BY DEF Contact, Filtered, MayLeave, Row, Stage

\* So do the timers.
LEMMA CountedType ==
  ASSUME NEW s \in Row, NEW warm \in BOOLEAN
  PROVE  Counted(s, warm) \in Row
<1>1. PICK r \in Nat : r = IF warm /\ s.cmd = 0 /\ s.stage = "RECOVERY" THEN s.rec + 1 ELSE 0
  BY DEF Row
<1>2. PICK a \in Nat : a = IF s.stage = "TAKEOFF" THEN s.s1 + 1 ELSE 0
  BY DEF Row
<1>3. PICK b \in Nat : b = IF s.stage = "LAND" THEN s.s3 + 1 ELSE 0
  BY DEF Row
<1>4. PICK f \in Nat : f = IF s.stage = "FLIGHT" THEN s.fly + 1 ELSE 0
  BY DEF Row
<1>5. [s EXCEPT !.rec = r, !.s1 = a, !.fly = f, !.s3 = b] \in Row
  BY DEF Row
<1> QED
  BY <1>1, <1>2, <1>3, <1>4, <1>5 DEF Counted

\* In one type: a row whose timers run below their time-outs.
LEMMA RunningType ==
  ASSUME NEW s
  PROVE  s \in Row /\ Running(s) <=>
         s \in [cmd : {0, 1}, stage : Stage, flown : BOOLEAN, jumped : BOOLEAN,
                last : BOOLEAN, rec : 0..(RecoverySteps - 1), s1 : 0..(S1Steps - 1),
                fly : Nat, s3 : 0..(S3Steps - 1), trigger : Nat, prep : Nat]
BY TimeoutAssumption DEF Row, Running
-----------------------------------------------------------------------------
(* What the methods do to the stage, the flags and the trigger. *)

\* FlagsAgree, of a row.
Agree(s) ==
  /\ s.stage # "RECOVERY" => s.cmd = 1
  /\ s.flown <=> s.stage \in {"FLIGHT", "LAND"}
  /\ s.jumped <=> s.stage = "LAND"

\* A step of JumpStages, or none, from row s to row u.
Same(s, u) == u.flown = s.flown /\ u.jumped = s.jumped
Moves(s, u) ==
  /\ u.cmd = s.cmd
  /\ \/ u.stage = s.stage /\ Same(s, u)
     \/ s.stage = "RECOVERY" /\ u.stage \in {"PREP", "TAKEOFF"} /\ Same(s, u)
     \/ s.stage = "PREP" /\ u.stage = "TAKEOFF" /\ Same(s, u)
     \/ s.stage = "TAKEOFF" /\ u.stage = "FLIGHT" /\ u.flown = TRUE /\ u.jumped = s.jumped
     \/ s.stage = "FLIGHT" /\ u.stage = "LAND" /\ u.flown = s.flown /\ u.jumped = TRUE

\* A reset leaves a robot that waits, and its delay counted from base.
LEMMA ResetFields ==
  ASSUME NEW s \in Row, NEW c \in {0, 1}, NEW base \in Nat, NEW d \in Nat
  PROVE  LET u == Reset(s, c, base, d) IN
         /\ u.stage = "RECOVERY" /\ u.cmd = c /\ u.flown = FALSE /\ u.jumped = FALSE
         /\ u.trigger = base + d /\ u.s1 = 0 /\ u.fly = 0 /\ u.s3 = 0
BY DEF Reset, Row

\* Only the timer of the stage goes on, all others are cleared.
LEMMA CountedFields ==
  ASSUME NEW s \in Row, NEW warm \in BOOLEAN
  PROVE  LET u == Counted(s, warm) IN
         /\ u.stage = s.stage /\ u.cmd = s.cmd /\ u.flown = s.flown
         /\ u.jumped = s.jumped /\ u.last = s.last /\ u.trigger = s.trigger
         /\ u.prep = s.prep
         /\ u.s1 = IF s.stage = "TAKEOFF" THEN s.s1 + 1 ELSE 0
         /\ u.fly = IF s.stage = "FLIGHT" THEN s.fly + 1 ELSE 0
         /\ u.s3 = IF s.stage = "LAND" THEN s.s3 + 1 ELSE 0
BY DEF Counted, Row

\* Whoever comes out of the contacts in FLIGHT was flying before, or has just
\* left the ground with no wheel touching twice in a row.
LEMMA ContactFields ==
  ASSUME NEW s \in Row, NEW t \in BOOLEAN, NEW fit \in BOOLEAN
  PROVE  LET u == Contact(s, t, fit) IN
         /\ u.cmd = s.cmd /\ u.trigger = s.trigger /\ u.last = t /\ u.prep = s.prep
         /\ u.s1 = s.s1 /\ u.fly = s.fly /\ u.s3 = s.s3
         /\ u.stage = "FLIGHT" =>
              s.stage = "FLIGHT" \/ (s.stage = "TAKEOFF" /\ ~t /\ ~s.last)
BY DEF Contact, Filtered, MayLeave, Row

\* Contacts keep flags and stage in agreement and make one move at most, to
\* FLIGHT or to LAND.
LEMMA ContactMoves ==
  ASSUME NEW s \in Row, Agree(s), NEW t \in BOOLEAN, NEW fit \in BOOLEAN
  PROVE  LET u == Contact(s, t, fit) IN
         /\ Agree(u) /\ Moves(s, u)
         /\ u.stage \in {"RECOVERY", "PREP", "TAKEOFF"} => u.stage = s.stage
         /\ u.stage # s.stage => u.stage \in {"FLIGHT", "LAND"}
<1> DEFINE u == Contact(s, t, fit)
<1>1. CASE Filtered(s, t) /\ s.flown
  <2>1. u.stage = "LAND" /\ u.flown = TRUE /\ u.jumped = TRUE /\ u.cmd = s.cmd
    BY <1>1 DEF Contact, Row
  <2>2. s.stage \in {"FLIGHT", "LAND"} /\ s.cmd = 1
    BY <1>1 DEF Agree
  <2> QED
    BY <2>1, <2>2, <1>1 DEF Agree, Moves, Same, Row
<1>2. CASE ~(Filtered(s, t) /\ s.flown) /\ ~Filtered(s, t) /\ fit /\ s.stage = "TAKEOFF"
  <2>1. u.stage = "FLIGHT" /\ u.flown = TRUE /\ u.jumped = s.jumped /\ u.cmd = s.cmd
    BY <1>2 DEF Contact, MayLeave, Row
  <2> QED
    BY <2>1, <1>2 DEF Agree, Moves, Row
<1>3. CASE ~(Filtered(s, t) /\ s.flown) /\ ~(~Filtered(s, t) /\ fit /\ s.stage = "TAKEOFF")
  <2>1. u.stage = s.stage /\ u.flown = s.flown /\ u.jumped = s.jumped /\ u.cmd = s.cmd
    BY <1>3 DEF Contact, MayLeave, Row
  <2> QED
    BY <2>1 DEF Agree, Moves, Same
<1> QED
  BY <1>1, <1>2, <1>3
-----------------------------------------------------------------------------
(* The account of the rewards. *)

Account == [stage : Stage, bonus : Nat, unposed : Nat]

\* What the account n brings into the stage of row s.
Carried(n, s) == IF n.stage = s.stage THEN n.bonus ELSE 0

\* The account n of a robot that stands in row s, age steps after the draw of
\* its segment: nothing was paid more often than the stage has lasted.
Settled(n, s, prep, age) ==
  /\ n \in Account /\ Bounded(n, prep)
  /\ s.stage = "PREP" => Carried(n, s) <= age /\ n.unposed <= age
  /\ s.stage = "TAKEOFF" => Carried(n, s) < s.s1 /\ n.unposed < prep + s.s1
  /\ s.stage = "FLIGHT" => Carried(n, s) < s.fly
  /\ s.stage = "LAND" => Carried(n, s) < s.s3

\* The empty account is settled.
LEMMA ZeroSettled ==
  ASSUME NEW s \in Row, NEW prep \in Nat, NEW age \in Nat,
         s.stage = "TAKEOFF" => s.s1 > 0, s.stage = "FLIGHT" => s.fly > 0,
         s.stage = "LAND" => s.s3 > 0
  PROVE  Settled(Zero, s, prep, age)
<1>1. Zero \in Account /\ Zero.stage = "RECOVERY" /\ Zero.bonus = 0 /\ Zero.unposed = 0
  BY DEF Zero, Account, Stage
<1>2. Bounded(Zero, prep)
  BY <1>1, TimeoutAssumption DEF Bounded
<1>3. Carried(Zero, s) = 0
  BY <1>1 DEF Carried
<1> QED
  BY <1>1, <1>2, <1>3 DEF Settled, Row

\* One more payment keeps the bounds, if PREP is not older than its delay.
LEMMA PaidBounded ==
  ASSUME NEW n, NEW s \in Row, NEW prep \in Nat, NEW age \in Nat, NEW b \in BOOLEAN,
         Settled(n, s, prep, age), Running(s), s.stage = "PREP" => age < prep,
         s.flown <=> s.stage \in {"FLIGHT", "LAND"}
  PROVE  LET m == Paid(n, s, b) IN
         /\ m \in Account /\ Bounded(m, prep) /\ m.stage = s.stage
         /\ m.bonus <= Carried(n, s) + 1
         /\ m.unposed <= n.unposed + 1
         /\ s.stage = "RECOVERY" => m.unposed = 0
<1> DEFINE m == Paid(n, s, b)
           gain == IF Bonus(s, b) THEN 1 ELSE 0
<1>1. /\ n \in Account /\ n.bonus \in Nat /\ n.unposed \in Nat /\ Carried(n, s) \in Nat
      /\ s.stage \in Stage /\ s.s1 \in Nat /\ s.fly \in Nat /\ s.s3 \in Nat
  BY DEF Settled, Account, Carried, Row
<1>2. /\ m.stage = s.stage /\ m.bonus = Carried(n, s) + gain
      /\ m.unposed = IF Standing(s) \/ s.flown THEN 0 ELSE n.unposed + 1
      /\ m = [stage |-> m.stage, bonus |-> m.bonus, unposed |-> m.unposed]
  BY DEF Paid, Carried
<1>3. gain \in {0, 1}
  OBVIOUS
<1> HIDE DEF m
<1>4. m \in Account
  BY <1>1, <1>2, <1>3 DEF Account
<1>5. m.bonus <= Carried(n, s) + 1 /\ m.unposed <= n.unposed + 1
  BY <1>1, <1>2, <1>3
<1>6. s.stage = "RECOVERY" => m.unposed = 0
  BY <1>2 DEF Standing
<1>7. m.unposed < prep + S1Steps
  BY <1>1, <1>2, TimeoutAssumption DEF Settled, Running, Standing, Stage
<1>8. CASE s.stage = "PREP"
  <2>1. m.bonus <= prep
    BY <1>8, <1>1, <1>2, <1>3 DEF Settled
  <2> QED
    BY <2>1, <1>8, <1>2, <1>4, <1>5, <1>6, <1>7 DEF Bounded, m
<1>9. CASE s.stage = "TAKEOFF"
  <2>1. m.bonus < S1Steps
    BY <1>9, <1>1, <1>2, <1>3, TimeoutAssumption DEF Settled, Running
  <2> QED
    BY <2>1, <1>9, <1>2, <1>4, <1>5, <1>6, <1>7 DEF Bounded, m
<1>10. CASE s.stage = "FLIGHT"
  <2>1. Carried(n, s) <= WindowSteps
    BY <1>10, <1>1, WindowAssumption DEF Settled, Bounded, Carried
  <2>2. m.bonus <= WindowSteps
    <3>1. CASE s.fly <= WindowSteps
      BY <3>1, <1>10, <1>1, <1>2, <1>3, WindowAssumption DEF Settled
    <3>2. CASE ~(s.fly <= WindowSteps)
      <4>1. ~Bonus(s, b)
        BY <3>2, <1>10 DEF Bonus, jump_before_setting, jump_land, jump_flight_height
      <4> QED
        BY <4>1, <2>1, <1>1, <1>2
    <3> QED
      BY <3>1, <3>2
  <2> QED
    BY <2>2, <1>10, <1>2, <1>4, <1>5, <1>6, <1>7 DEF Bounded, m
<1>11. CASE s.stage = "LAND"
  <2>1. m.bonus < S3Steps
    BY <1>11, <1>1, <1>2, <1>3, TimeoutAssumption DEF Settled, Running
  <2> QED
    BY <2>1, <1>11, <1>2, <1>4, <1>5, <1>6, <1>7 DEF Bounded, m
<1>12. CASE s.stage = "RECOVERY"
  <2>1. ~Bonus(s, b)
    BY <1>12 DEF Bonus, jump_before_setting, jump_land, jump_flight_height
  <2>2. Carried(n, s) <= 0
    BY <1>12, <1>1 DEF Settled, Bounded, Carried
  <2>3. m.bonus = 0
    BY <2>1, <2>2, <1>1, <1>2
  <2> QED
    BY <2>3, <1>12, <1>2, <1>4, <1>5, <1>6, <1>7 DEF Bounded, m
<1> QED
  BY <1>1, <1>8, <1>9, <1>10, <1>11, <1>12 DEF Stage

\* A payment for row s settles the account of the row u that follows it: u is
\* in the same stage one step later, or its stage has just begun.
LEMMA PaidSettled ==
  ASSUME NEW n, NEW s \in Row, NEW u \in Row, NEW prep \in Nat, NEW age \in Nat,
         NEW next \in Nat, NEW b \in BOOLEAN,
         Settled(n, s, prep, age), Running(s), s.stage = "PREP" => age < prep,
         s.stage = "PREP" /\ u.stage = "PREP" => next = age + 1,
         s.flown <=> s.stage \in {"FLIGHT", "LAND"},
         u.stage = "PREP" => s.stage \in {"RECOVERY", "PREP"},
         u.stage = "TAKEOFF" => s.stage \in {"RECOVERY", "PREP", "TAKEOFF"},
         u.stage = "TAKEOFF" => u.s1 = IF s.stage = "TAKEOFF" THEN s.s1 + 1 ELSE u.s1,
         u.stage = "TAKEOFF" => u.s1 > 0,
         u.stage = "FLIGHT" => u.fly > 0 /\ (s.stage = "FLIGHT" => u.fly = s.fly + 1),
         u.stage = "LAND" => u.s3 > 0 /\ (s.stage = "LAND" => u.s3 = s.s3 + 1)
  PROVE  Settled(Paid(n, s, b), u, prep, next)
<1> DEFINE m == Paid(n, s, b)
<1>1. /\ m \in Account /\ Bounded(m, prep) /\ m.stage = s.stage
      /\ m.bonus <= Carried(n, s) + 1
      /\ m.unposed <= n.unposed + 1
      /\ s.stage = "RECOVERY" => m.unposed = 0
  BY PaidBounded
<1> HIDE DEF m
<1>2. /\ n.unposed \in Nat /\ Carried(n, s) \in Nat /\ m.bonus \in Nat /\ m.unposed \in Nat
      /\ s.s1 \in Nat /\ u.s1 \in Nat /\ s.fly \in Nat /\ s.s3 \in Nat /\ u.fly \in Nat
      /\ u.s3 \in Nat
  BY <1>1 DEF Settled, Account, Carried, Row
<1>3. Carried(m, u) = IF s.stage = u.stage THEN m.bonus ELSE 0
  BY <1>1 DEF Carried
<1>4. u.stage = "PREP" => Carried(m, u) <= next /\ m.unposed <= next
  BY <1>1, <1>2, <1>3 DEF Settled
<1>5. u.stage = "TAKEOFF" => Carried(m, u) < u.s1 /\ m.unposed < prep + u.s1
  BY <1>1, <1>2, <1>3 DEF Settled
<1>6. u.stage = "FLIGHT" => Carried(m, u) < u.fly
  BY <1>1, <1>2, <1>3 DEF Settled
<1>7. u.stage = "LAND" => Carried(m, u) < u.s3
  BY <1>1, <1>2, <1>3 DEF Settled
<1>8. Settled(m, u, prep, next)
  BY <1>1, <1>4, <1>5, <1>6, <1>7 DEF Settled
<1> QED
  BY <1>8 DEF m
=============================================================================

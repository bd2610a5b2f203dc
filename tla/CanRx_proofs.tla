---------------------------- MODULE CanRx_proofs ----------------------------
(* Proofs about CanRx, for every size of the socket's queue and any number   *)
(* of frames and errors: the order of delivery survives the frames the       *)
(* socket drops, nothing runs once the destructor has returned, it does      *)
(* return, and a silent bus is reported.                                     *)
EXTENDS CanRx, SequenceTheorems, TLAPS

\* The place of a frame in the order of arrival, whatever its type.
Number(f) == IF f < 0 THEN -f ELSE f

\* The frames of q are in the order of arrival, none older than low or
\* younger than high.
Ordered(q, low, high) ==
  /\ \A i \in 1..Len(q) : low < Number(q[i]) /\ Number(q[i]) <= high
  /\ \A i, j \in 1..Len(q) : i < j => Number(q[i]) < Number(q[j])

\* The youngest frame that has left the socket for the callback.
Latest == IF rx = "callback" THEN frame ELSE delivered

\* Why the order survives: what is still in the socket is younger than what
\* has left it, and what waits for the callback is younger than what it got.
Order ==
  /\ delivered <= arrived
  /\ rx = "callback" => delivered < frame /\ frame <= arrived
  /\ rx = "read" => queue # <<>> \/ error
  /\ Ordered(queue, Latest, arrived)

IInv == TypeOK /\ Order /\ QuietAfterDestruction

Frames == -MaxFrames..MaxFrames
-----------------------------------------------------------------------------
\* A frame that arrives is the youngest one.
LEMMA ArrivalOrdered ==
  ASSUME NEW q \in Seq(Frames), NEW low \in Int, NEW high \in Nat,
         low <= high, Ordered(q, low, high), NEW f \in Frames, Number(f) = high + 1
  PROVE  Ordered(Append(q, f), low, high + 1)
<1>. DEFINE r == Append(q, f)
<1>1. Len(r) = Len(q) + 1 /\ Len(q) \in Nat
  OBVIOUS
<1>2. r[Len(q) + 1] = f /\ \A i \in 1..Len(q) : r[i] = q[i]
  OBVIOUS
<1>3. \A i \in 1..Len(q) : Number(q[i]) \in Int
  BY BoundAssumption DEF Number, Frames
<1>. HIDE DEF r
<1>4. \A i \in 1..Len(r) : low < Number(r[i]) /\ Number(r[i]) <= high + 1
  BY <1>1, <1>2, <1>3 DEF Ordered
<1>5. ASSUME NEW i \in 1..Len(r), NEW j \in 1..Len(r), i < j
      PROVE  Number(r[i]) < Number(r[j])
  <2>1. i \in 1..Len(q) /\ r[i] = q[i]
    BY <1>1, <1>2, <1>5
  <2>2. CASE j \in 1..Len(q)
    BY <1>2, <1>5, <2>1, <2>2 DEF Ordered
  <2>3. CASE j = Len(q) + 1
    BY <1>2, <1>3, <2>1, <2>3 DEF Ordered
  <2>. QED BY <1>1, <2>2, <2>3
<1>. QED BY <1>4, <1>5 DEF Ordered, r

\* What is behind the oldest frame is younger than that one.
LEMMA RestOrdered ==
  ASSUME NEW q \in Seq(Frames), q # <<>>, NEW low \in Int, NEW high \in Nat,
         Ordered(q, low, high)
  PROVE  /\ Tail(q) \in Seq(Frames) /\ Len(Tail(q)) = Len(q) - 1
         /\ Head(q) \in Frames /\ low < Number(Head(q)) /\ Number(Head(q)) <= high
         /\ Ordered(Tail(q), Number(Head(q)), high)
<1>. DEFINE r == Tail(q)
<1>1. /\ r \in Seq(Frames) /\ Len(r) = Len(q) - 1 /\ Len(q) \in Nat \ {0}
      /\ Head(q) = q[1] /\ Head(q) \in Frames
  OBVIOUS
<1>2. \A i \in 1..Len(r) : r[i] = q[i + 1]
  OBVIOUS
<1>. HIDE DEF r
<1>3. low < Number(Head(q)) /\ Number(Head(q)) <= high
  BY <1>1 DEF Ordered
<1>4. \A i \in 1..Len(r) : i + 1 \in 1..Len(q) /\ 1 < i + 1
  BY <1>1
<1>5. ASSUME NEW i \in 1..Len(r)
      PROVE  Number(Head(q)) < Number(r[i]) /\ Number(r[i]) <= high
  <2>1. 1 \in 1..Len(q) /\ i + 1 \in 1..Len(q) /\ 1 < i + 1 /\ r[i] = q[i + 1]
    BY <1>1, <1>2, <1>4
  <2>2. Number(q[1]) < Number(q[i + 1]) /\ Number(q[i + 1]) <= high
    BY <2>1 DEF Ordered
  <2>. QED BY <1>1, <2>1, <2>2
<1>6. \A i, j \in 1..Len(r) : i < j => Number(r[i]) < Number(r[j])
  <2>1. \A i, j \in 1..Len(r) : i < j => i + 1 < j + 1
    BY <1>1
  <2>. QED BY <1>2, <1>4, <2>1 DEF Ordered
<1>. QED BY <1>1, <1>3, <1>5, <1>6 DEF Ordered, r
-----------------------------------------------------------------------------
\* A device just constructed satisfies the invariant.
LEMMA InitIInv == Init => IInv
<1>. SUFFICES ASSUME Init PROVE IInv
  OBVIOUS
<1>1. TypeOK
  <2>1. queue \in Seq(-MaxFrames..MaxFrames) /\ Len(queue) <= QueueSize
    BY QueueAssumption, EmptySeq DEF Init
  <2>2. error \in BOOLEAN /\ ready \in BOOLEAN /\ running \in BOOLEAN /\ timedOut \in BOOLEAN
    BY Zenon DEF Init
  <2>3. /\ arrived \in 0..MaxFrames /\ errors \in 0..MaxErrors
        /\ frame \in 0..MaxFrames /\ delivered \in 0..MaxFrames
    BY BoundAssumption DEF Init
  <2>4. rx \in {"check", "wait", "read", "callback", "done"} /\ dtor \in {"none", "running", "join", "gone"}
    BY DEF Init
  <2>. QED BY <2>1, <2>2, <2>3, <2>4 DEF TypeOK
<1>2. Order
  BY DEF Init, Order, Ordered, Latest
<1>. QED BY <1>1, <1>2 DEF IInv, Init, QuietAfterDestruction

\* A frame that arrives, or is lost on a full queue.
LEMMA ArriveIInv == ASSUME IInv, Arrive PROVE IInv'
<1>1. /\ queue \in Seq(Frames) /\ arrived \in Nat /\ Latest \in Int /\ Latest' = Latest
      /\ arrived' = arrived + 1 /\ arrived' \in 0..MaxFrames
  BY BoundAssumption DEF IInv, TypeOK, Arrive, Latest, Frames
<1>2. PICK f \in {arrived + 1, -(arrived + 1)} :
        queue' = IF Len(queue) < QueueSize THEN Append(queue, f) ELSE queue
  BY DEF Arrive
<1>3. f \in Frames /\ Number(f) = arrived + 1
  BY <1>1, BoundAssumption DEF Frames, Number
<1>4. Latest <= arrived
  BY BoundAssumption DEF IInv, TypeOK, Order, Latest, Ordered
<1>5. queue' \in Seq(Frames) /\ Len(queue') <= QueueSize
  BY <1>1, <1>2, <1>3, QueueAssumption DEF IInv, TypeOK
<1>6. Ordered(queue', Latest, arrived + 1)
  <2>1. CASE Len(queue) < QueueSize
    BY <1>1, <1>2, <1>3, <1>4, <2>1, ArrivalOrdered DEF IInv, Order
  <2>2. CASE ~(Len(queue) < QueueSize)
    <3>1. queue' = queue
      BY <1>2, <2>2
    <3>2. \A i \in 1..Len(queue) : Number(queue[i]) \in Int
      BY <1>1, BoundAssumption DEF Number, Frames
    <3>. QED BY <1>1, <3>1, <3>2 DEF IInv, Order, Ordered
  <2>. QED BY <2>1, <2>2
<1>7. TypeOK'
  BY <1>1, <1>5 DEF IInv, TypeOK, Arrive, Frames
<1>8. Order'
  <2>1. UNCHANGED <<rx, frame, delivered, error>>
    BY DEF Arrive
  <2>2. queue # <<>> => queue' # <<>>
    BY <1>1, <1>2
  <2>. QED BY <1>1, <1>6, <2>1, <2>2, BoundAssumption DEF IInv, TypeOK, Order
<1>. QED BY <1>7, <1>8 DEF IInv, Arrive, QuietAfterDestruction

\* A frame is read: a DATA frame waits for the callback, another is dropped.
LEMMA ReadFrameIInv == ASSUME IInv, ReadFrame PROVE IInv'
<1>1. /\ queue \in Seq(Frames) /\ queue # <<>> /\ queue' = Tail(queue)
      /\ arrived \in Nat /\ delivered \in Int /\ Latest = delivered /\ rx = "read"
      /\ UNCHANGED <<arrived, delivered, error, errors, ready, running, dtor>>
  BY BoundAssumption DEF IInv, TypeOK, Order, ReadFrame, Latest, Frames
<1>2. Ordered(queue, delivered, arrived)
  BY <1>1 DEF IInv, Order
<1>3. /\ queue' \in Seq(Frames) /\ Len(queue') = Len(queue) - 1
      /\ Head(queue) \in Frames
      /\ delivered < Number(Head(queue)) /\ Number(Head(queue)) <= arrived
      /\ Ordered(queue', Number(Head(queue)), arrived)
  BY <1>1, <1>2, RestOrdered
<1>4. QuietAfterDestruction'
  BY <1>1 DEF IInv, QuietAfterDestruction
<1>5. CASE IsData(Taken)
  <2>1. rx' = "callback" /\ frame' = Head(queue) /\ timedOut' = FALSE
    BY <1>5 DEF ReadFrame, Taken
  <2>2. Number(Head(queue)) = Head(queue) /\ Head(queue) \in 0..MaxFrames
    BY <1>3, <1>5, BoundAssumption DEF Number, IsData, Taken, Frames
  <2>3. TypeOK'
    <3>1. queue' \in Seq(-MaxFrames..MaxFrames) /\ Len(queue') <= QueueSize
      BY <1>1, <1>3, QueueAssumption DEF IInv, TypeOK, Frames
    <3>2. timedOut' \in BOOLEAN
      BY <2>1, Zenon
    <3>3. rx' \in {"check", "wait", "read", "callback", "done"} /\ frame' \in 0..MaxFrames
      BY <2>1, <2>2
    <3>. QED BY <1>1, <3>1, <3>2, <3>3 DEF IInv, TypeOK
  <2>4. Order'
    BY <1>1, <1>3, <2>1, <2>2 DEF IInv, Order, Latest
  <2>. QED BY <1>4, <2>3, <2>4 DEF IInv
<1>6. CASE ~IsData(Taken)
  <2>1. rx' = "check" /\ UNCHANGED <<frame, timedOut>>
    BY <1>6 DEF ReadFrame
  <2>2. TypeOK'
    BY <1>1, <1>3, <2>1, QueueAssumption DEF IInv, TypeOK, Frames
  <2>3. Ordered(queue', delivered, arrived)
    <3>1. \A i \in 1..Len(queue') : Number(queue'[i]) \in Int
      BY <1>3, BoundAssumption DEF Number, Frames
    <3>2. Number(Head(queue)) \in Int
      BY <1>3, BoundAssumption DEF Number, Frames
    <3>. QED BY <1>1, <1>3, <3>1, <3>2 DEF Ordered
  <2>4. Order'
    BY <1>1, <2>1, <2>3 DEF IInv, Order, Latest
  <2>. QED BY <1>4, <2>2, <2>4 DEF IInv
<1>. QED BY <1>5, <1>6

\* The callback returns: its frame is the last one delivered.
LEMMA CallbackIInv == ASSUME IInv, Callback PROVE IInv' /\ delivered < delivered'
<1>1. Latest' = Latest /\ delivered' = frame /\ rx = "callback" /\ rx' = "check"
      /\ UNCHANGED <<queue, arrived, error, errors, frame, ready, running, timedOut, dtor>>
  BY DEF Callback, Latest, socket
<1>. QED BY <1>1 DEF IInv, TypeOK, Order, QuietAfterDestruction

\* Every step preserves the invariant.
LEMMA StepIInv == IInv /\ [Next]_vars => IInv'
<1>. SUFFICES ASSUME IInv, [Next]_vars PROVE IInv'
  OBVIOUS
<1>. USE DEF IInv, TypeOK, Order, QuietAfterDestruction, Latest
<1>1. CASE Arrive
  BY <1>1, ArriveIInv
<1>2. CASE Fail
  BY <1>2, BoundAssumption DEF Fail
<1>3. CASE Check
  BY <1>3, BoundAssumption DEF Check, socket
<1>4. CASE Select
  BY <1>4 DEF Select, socket
<1>5. CASE SelectTimeout
  BY <1>5 DEF SelectTimeout, Marked, socket
<1>6. CASE ReadError
  BY <1>6 DEF ReadError
<1>7. CASE ReadFrame
  BY <1>7, ReadFrameIInv
<1>8. CASE Callback
  BY <1>8, CallbackIInv
<1>9. CASE ClearReady
  BY <1>9 DEF ClearReady, socket
<1>10. CASE ClearRunning
  BY <1>10 DEF ClearRunning, socket
<1>11. CASE Join
  BY <1>11 DEF Join, Joined, socket
<1>12. CASE UNCHANGED vars
  BY <1>12 DEF vars, socket
<1>. QED BY <1>1, <1>2, <1>3, <1>4, <1>5, <1>6, <1>7, <1>8, <1>9, <1>10, <1>11, <1>12
  DEF Next, Receiver, Destructor
-----------------------------------------------------------------------------
\* The invariant holds at all times, whatever the socket does.
THEOREM Invariance == Spec => []IInv
<1>. QED BY InitIInv, StepIInv, PTL DEF Spec

\* No frame, error or destruction takes a variable out of its type; the
\* socket's queue never outgrows its size.
THEOREM TypeCorrect == Spec => []TypeOK
<1>. QED BY Invariance, PTL DEF IInv

\* The destructor returns only after the receive thread has ended.
THEOREM QuietAfterwards == Spec => []QuietAfterDestruction
<1>. QED BY Invariance, PTL DEF IInv

\* For every queue size and any loss, frames reach the callback in the order
\* of their arrival, each at most once.
THEOREM DeliversInOrder == Spec => InOrder
<1>1. IInv /\ [Next]_vars => [Callback => delivered' > delivered]_vars
  <2>. SUFFICES ASSUME IInv, Callback PROVE delivered' > delivered
    OBVIOUS
  <2>1. delivered' \in Int /\ delivered \in Int
    BY CallbackIInv, BoundAssumption DEF IInv, TypeOK
  <2>. QED BY <2>1, CallbackIInv
<1>. QED BY <1>1, Invariance, PTL DEF Spec, InOrder
-----------------------------------------------------------------------------
(* The destructor returns.  What ENABLED says of an action is opaque to the  *)
(* prover, so it is stated of the fair actions by their guards; that a guard *)
(* holds whenever it has to is proved.                                       *)

\* Some step of the receive thread can be taken.
ReceiverGuard ==
  \/ rx \in {"check", "callback"}
  \/ rx = "wait" /\ (Timed \/ queue # <<>> \/ error)
  \/ rx = "read" /\ (queue # <<>> \/ error)
\* Some step of a started destructor can be taken.
DestructorGuard == dtor = "running" \/ (dtor = "join" /\ Joined)

\* The guards say when the fair actions are enabled.
GuardsEnable ==
  /\ ReceiverGuard => ENABLED <<Receiver>>_vars
  /\ DestructorGuard => ENABLED <<Destructor>>_vars

\* The destructor has begun, and the loop of the thread is told.
Begun == dtor # "none" /\ ~ready
\* The thread is on its way out, at each place of its loop.
AtWait     == Begun /\ rx = "wait"
AtRead     == Begun /\ rx = "read"
AtCallback == Begun /\ rx = "callback"
AtCheck    == Begun /\ rx = "check"
AtDone     == Begun /\ rx = "done"

\* A destructor that has begun has cleared the flag of the loop for good.
LEMMA BegunFlag == Spec => [](dtor # "none" => Begun)
<1>. DEFINE Told == dtor # "none" => Begun
<1>1. Init => Told
  BY DEF Init, Begun
<1>2. Told /\ [Next]_vars => Told'
  BY DEF Begun, Next, Arrive, Fail, Receiver, Check, Select, SelectTimeout, ReadError,
    ReadFrame, Callback, ClearReady, Destructor, ClearRunning, Join, vars, socket
<1>. HIDE DEF Told
<1>3. Told <=> (dtor # "none" => Begun)
  BY DEF Told
<1>. QED BY <1>1, <1>2, <1>3, PTL DEF Spec

\* Where a step of anybody, and where one of the thread, takes a thread that
\* has been told to end.
LEMMA WayOut ==
  ASSUME IInv, [Next]_vars
  PROVE  /\ AtWait => AtWait' \/ AtRead' \/ AtCheck'
         /\ AtRead => AtRead' \/ AtCallback' \/ AtCheck'
         /\ AtCallback => AtCallback' \/ AtCheck'
         /\ AtCheck => AtCheck' \/ AtDone'
         /\ AtDone => AtDone'
<1>. USE DEF AtWait, AtRead, AtCallback, AtCheck, AtDone, Begun
<1>1. CASE Receiver
  BY <1>1 DEF Receiver, Check, GoesOn, Select, SelectTimeout, ReadError, ReadFrame, Callback
<1>2. CASE Arrive \/ Fail \/ ClearReady \/ Destructor \/ UNCHANGED vars
  BY <1>2 DEF Arrive, Fail, ClearReady, Destructor, ClearRunning, Join, vars, socket
<1>. QED BY <1>1, <1>2 DEF Next

\* Each step of the thread takes it one place further.
LEMMA WayOutStep ==
  ASSUME <<Receiver>>_vars
  PROVE  /\ AtWait => AtRead' \/ AtCheck'
         /\ AtRead => AtCallback' \/ AtCheck'
         /\ AtCallback => AtCheck'
         /\ AtCheck => AtDone'
<1>. USE DEF AtWait, AtRead, AtCallback, AtCheck, AtDone, Begun
<1>1. CASE Check
  BY <1>1 DEF Check, GoesOn
<1>2. CASE Select \/ SelectTimeout
  BY <1>2 DEF Select, SelectTimeout
<1>3. CASE ReadError \/ ReadFrame \/ Callback
  BY <1>3 DEF ReadError, ReadFrame, Callback
<1>. QED BY <1>1, <1>2, <1>3 DEF Receiver

\* A thread that has been told to end does: it waits at most one timeout,
\* handles at most one frame more and finds the flag cleared.
THEOREM ThreadEnds ==
  ASSUME Timed
  PROVE  FairSpec /\ []GuardsEnable => (Begun ~> AtDone)
<1>. DEFINE Live == rx # "done" => ENABLED <<Receiver>>_vars
<1>1. IInv /\ GuardsEnable => Live
  BY DEF IInv, TypeOK, Order, GuardsEnable, ReceiverGuard
<1>2. IInv /\ Begun => AtWait \/ AtRead \/ AtCallback \/ AtCheck \/ AtDone
  BY DEF IInv, TypeOK, AtWait, AtRead, AtCallback, AtCheck, AtDone
<1>3. Live /\ (AtWait \/ AtRead \/ AtCallback \/ AtCheck) => ENABLED <<Receiver>>_vars
  BY DEF AtWait, AtRead, AtCallback, AtCheck
<1>. HIDE DEF Live
<1>4. FairSpec /\ []GuardsEnable => []Live
  BY Invariance, <1>1, PTL DEF FairSpec
<1>5. FairSpec /\ []GuardsEnable => (AtCheck ~> AtDone)
  BY <1>3, <1>4, WayOut, WayOutStep, Invariance, PTL DEF FairSpec, Spec
<1>6. FairSpec /\ []GuardsEnable => (AtCallback ~> AtCheck)
  BY <1>3, <1>4, WayOut, WayOutStep, Invariance, PTL DEF FairSpec, Spec
<1>7. FairSpec /\ []GuardsEnable => (AtRead ~> AtCallback \/ AtCheck)
  BY <1>3, <1>4, WayOut, WayOutStep, Invariance, PTL DEF FairSpec, Spec
<1>8. FairSpec /\ []GuardsEnable => (AtWait ~> AtRead \/ AtCheck)
  BY <1>3, <1>4, WayOut, WayOutStep, Invariance, PTL DEF FairSpec, Spec
<1>9. FairSpec => []IInv
  BY Invariance, PTL DEF FairSpec
<1>. QED BY <1>2, <1>5, <1>6, <1>7, <1>8, <1>9, PTL

\* The destructor itself goes from the flag to the join, and returns once the
\* thread has ended.
LEMMA DestructorSteps ==
  /\ dtor = "running" /\ [Next]_vars => (dtor = "running")' \/ (dtor = "join")'
  /\ dtor = "running" /\ <<Destructor>>_vars => (dtor = "join")'
  /\ dtor = "join" /\ [Next]_vars => (dtor = "join")' \/ (dtor = "gone")'
  /\ dtor = "join" /\ <<Destructor>>_vars => (dtor = "gone")'
  /\ dtor = "gone" /\ [Next]_vars => (dtor = "gone")'
BY DEF Next, Arrive, Fail, Receiver, Check, Select, SelectTimeout, ReadError,
    ReadFrame, Callback, ClearReady, Destructor, ClearRunning, Join, vars, socket

\* A destructor that has begun returns, whatever arrives or fails meanwhile,
\* when the thread waits with a timeout.
THEOREM DestructorReturns ==
  ASSUME Timed
  PROVE  FairSpec /\ []GuardsEnable => DestructionEnds
<1>. DEFINE None == dtor = "none"
            Runs == dtor = "running"
            Joins == dtor = "join"
            Gone == dtor = "gone"
            Done == rx = "done"
<1>1. Runs /\ GuardsEnable => ENABLED <<Destructor>>_vars
  BY DEF GuardsEnable, DestructorGuard
<1>2. Joins /\ Done /\ GuardsEnable => ENABLED <<Destructor>>_vars
  BY DEF GuardsEnable, DestructorGuard, Joined
<1>3. IInv => None \/ Runs \/ Joins \/ Gone
  BY DEF IInv, TypeOK
<1>4. AtDone => Done
  BY DEF AtDone
<1>5. IInv /\ [Next]_vars /\ AtDone => AtDone'
  BY WayOut
<1>6. /\ Runs /\ [Next]_vars => Runs' \/ Joins'
      /\ Runs /\ <<Destructor>>_vars => Joins'
      /\ Joins /\ [Next]_vars => Joins' \/ Gone'
      /\ Joins /\ <<Destructor>>_vars => Gone'
  BY DestructorSteps
<1>7. (dtor # "none" => Begun) => None \/ Begun
  OBVIOUS
<1>8. /\ dtor # "none" <=> ~None
      /\ Gone <=> dtor = "gone"
  OBVIOUS
<1>9. Joins => ~None
  OBVIOUS
<1>. HIDE DEF None, Runs, Joins, Gone, Done
<1>10. FairSpec /\ []GuardsEnable => (Begun ~> AtDone)
  BY ThreadEnds
<1>11. FairSpec => [](IInv /\ (None \/ Begun))
  BY Invariance, BegunFlag, <1>7, PTL DEF FairSpec
<1>12. FairSpec /\ []GuardsEnable => (Runs ~> Joins)
  BY <1>1, <1>6, PTL DEF FairSpec, Spec
<1>13. FairSpec /\ []GuardsEnable => (Joins /\ AtDone ~> Gone)
  BY <1>2, <1>4, <1>5, <1>6, <1>11, PTL DEF FairSpec, Spec
<1>14. FairSpec /\ []GuardsEnable => (Joins ~> Gone)
  BY <1>5, <1>6, <1>9, <1>10, <1>11, <1>13, PTL DEF FairSpec, Spec
<1>. QED BY <1>3, <1>8, <1>11, <1>12, <1>14, PTL DEF DestructionEnds
-----------------------------------------------------------------------------
(* A silent bus is reported. *)

\* Until the destructor begins, the loop goes on.
Looping == dtor = "none" => ready /\ running /\ rx # "done"

\* Nothing but the destructor ends it: a failing select or read does not.
LEMMA LoopGoesOn == Spec => []Looping
<1>1. Init => Looping
  BY DEF Init, Looping
<1>2. Looping /\ [Next]_vars => Looping'
  BY DEF Looping, Next, Arrive, Fail, Receiver, Check, GoesOn, Select, SelectTimeout, ReadError,
    ReadFrame, Callback, ClearReady, Destructor, ClearRunning, Join, vars, socket
<1>. QED BY <1>1, <1>2, PTL DEF Spec

\* Nothing is in the socket to be read.
Silent == queue = <<>> /\ ~error
\* What is_timeout() has to say of a silent bus, unless nobody can ask.
Reported == timedOut \/ dtor # "none"
\* It does not say so yet; the thread is somewhere in its loop.
DueAtWait     == ~Reported /\ rx = "wait"
DueAtCheck    == ~Reported /\ rx = "check"
DueAtCallback == ~Reported /\ rx = "callback"

\* Once reported, a silent bus stays reported; until then a step of anybody
\* leaves the thread in its loop.
LEMMA SilentSteps ==
  ASSUME IInv, Looping, Silent, Silent', [Next]_vars
  PROVE  /\ Reported => Reported'
         /\ DueAtWait => Reported' \/ DueAtWait'
         /\ DueAtCheck => Reported' \/ DueAtCheck' \/ DueAtWait'
         /\ DueAtCallback => Reported' \/ DueAtCallback' \/ DueAtCheck'
<1>. USE DEF Looping, Silent, Reported, DueAtWait, DueAtCheck, DueAtCallback
<1>1. rx # "read"
  BY DEF IInv, Order
<1>2. CASE Check
  BY <1>2 DEF Check, GoesOn
<1>3. CASE Select \/ ReadError \/ ReadFrame
  BY <1>1, <1>3 DEF Select, ReadError, ReadFrame
<1>4. CASE SelectTimeout
  BY <1>4, Zenon DEF SelectTimeout, Marked
<1>5. CASE Callback
  BY <1>5 DEF Callback
<1>6. CASE Arrive \/ Fail
  BY <1>6 DEF Arrive, Fail
<1>7. CASE ClearReady \/ Destructor
  BY <1>7 DEF ClearReady, Destructor, ClearRunning, Join
<1>8. CASE UNCHANGED vars
  BY <1>8 DEF vars, socket
<1>. QED BY <1>2, <1>3, <1>4, <1>5, <1>6, <1>7, <1>8 DEF Next, Receiver

\* A step of the thread takes it closer to the timeout of select.
LEMMA SilentReceiverSteps ==
  ASSUME IInv, Looping, Silent, <<Receiver>>_vars
  PROVE  /\ DueAtWait => Reported'
         /\ DueAtCheck => Reported' \/ DueAtWait'
         /\ DueAtCallback => Reported' \/ DueAtCheck'
<1>. USE DEF Looping, Silent, Reported, DueAtWait, DueAtCheck, DueAtCallback
<1>1. CASE Check
  BY <1>1 DEF Check, GoesOn
<1>2. CASE Select \/ ReadError \/ ReadFrame
  BY <1>2 DEF Select, ReadError, ReadFrame, IInv, Order
<1>3. CASE SelectTimeout
  BY <1>3, Zenon DEF SelectTimeout, Marked
<1>4. CASE Callback
  BY <1>4 DEF Callback
<1>. QED BY <1>1, <1>2, <1>3, <1>4 DEF Receiver

\* A bus on which nothing is left to be read, from some time on, is reported
\* for good: also when the last thing that happened on it was an error.
THEOREM SilenceIsReported ==
  ASSUME Timed
  PROVE  FairSpec /\ []GuardsEnable /\ <>[]Silent => SilenceReported
<1>. DEFINE Live == rx # "done" => ENABLED <<Receiver>>_vars
            I == IInv /\ Looping
            Due == DueAtWait \/ DueAtCheck \/ DueAtCallback
<1>1. IInv /\ GuardsEnable => Live
  BY DEF IInv, TypeOK, Order, GuardsEnable, ReceiverGuard
<1>2. Live /\ Due => ENABLED <<Receiver>>_vars
  BY DEF DueAtWait, DueAtCheck, DueAtCallback
<1>3. I /\ Silent => Reported \/ Due
  BY DEF IInv, TypeOK, Order, Looping, Silent, Reported, DueAtWait, DueAtCheck, DueAtCallback
<1>4. I /\ Silent /\ Silent' /\ [Next]_vars =>
        /\ Reported => Reported'
        /\ DueAtWait => Reported' \/ DueAtWait'
        /\ DueAtCheck => Reported' \/ DueAtCheck' \/ DueAtWait'
        /\ DueAtCallback => Reported' \/ DueAtCallback' \/ DueAtCheck'
  BY SilentSteps
<1>5. I /\ Silent /\ DueAtWait /\ <<Receiver>>_vars => Reported'
  BY SilentReceiverSteps
<1>6. I /\ Silent /\ DueAtCheck /\ <<Receiver>>_vars => Reported' \/ DueAtWait'
  BY SilentReceiverSteps
<1>7. I /\ Silent /\ DueAtCallback /\ <<Receiver>>_vars => Reported' \/ DueAtCheck'
  BY SilentReceiverSteps
<1>8. Reported <=> (timedOut \/ dtor # "none")
  BY DEF Reported
<1>9. /\ IInv /\ Looping => I
      /\ Due <=> DueAtWait \/ DueAtCheck \/ DueAtCallback
  OBVIOUS
<1>. HIDE DEF Live, I, Due
<1>10. FairSpec /\ []GuardsEnable => []I /\ []Live
  BY <1>1, <1>9, Invariance, LoopGoesOn, PTL DEF FairSpec
<1>11. [][Next]_vars /\ WF_vars(Receiver) /\ []I /\ []Live /\ []Silent => (DueAtWait ~> Reported)
  BY <1>2, <1>4, <1>5, <1>9, PTL
<1>12. [][Next]_vars /\ WF_vars(Receiver) /\ []I /\ []Live /\ []Silent => (DueAtCheck ~> Reported \/ DueAtWait)
  BY <1>2, <1>4, <1>6, <1>9, PTL
<1>13. [][Next]_vars /\ WF_vars(Receiver) /\ []I /\ []Live /\ []Silent => (DueAtCallback ~> Reported \/ DueAtCheck)
  BY <1>2, <1>4, <1>7, <1>9, PTL
<1>14. [][Next]_vars /\ WF_vars(Receiver) /\ []I /\ []Live /\ []Silent => <>[]Reported
  BY <1>3, <1>4, <1>9, <1>11, <1>12, <1>13, PTL
<1>. QED BY <1>8, <1>10, <1>14, PTL DEF SilenceReported, FairSpec, Spec
=============================================================================

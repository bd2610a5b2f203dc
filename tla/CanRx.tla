-------------------------------- MODULE CanRx --------------------------------
(***************************************************************************)
(* CanRxDev of tita_robot's can_utils.hpp with SocketCanReceiver: the       *)
(* receive thread of one CAN device, from its construction to the end of    *)
(* its destructor.  The socket (external) is the kernel's queue of frames   *)
(* and one pending error.  A frame is its number in the order of arrival;   *)
(* negative numbers are frames that are not of type DATA.                   *)
(***************************************************************************)
EXTENDS Integers, Sequences

CONSTANTS
  Timed,      \* nano_timeout > 0: select has a timeout
  QueueSize,  \* frames the socket keeps
  MaxFrames,  \* bound: frames that arrive
  MaxErrors   \* bound: errors of the socket

ASSUME TimedAssumption == Timed \in BOOLEAN
ASSUME QueueAssumption == QueueSize \in Nat \ {0}
ASSUME BoundAssumption == MaxFrames \in Nat /\ MaxErrors \in Nat

VARIABLES
  queue,      \* frames in the socket, oldest first
  arrived,    \* number of frames that have arrived
  error,      \* read() will fail: the interface went down
  errors,     \* number of errors so far
  rx,         \* the receive thread: see TypeOK
  frame,      \* rx_fd_frame_ (or rx_std_frame_), 0 when empty
  ready, running, timedOut,  \* ready_, isthreadrunning_, is_timeout_
  dtor,       \* the destructor
  delivered   \* history: the frame the callback got last, 0 for none

socket  == <<queue, arrived, error, errors>>
vars    == <<socket, rx, frame, ready, running, timedOut, dtor, delivered>>

\* init: the thread starts after the flags are set.
Init ==
  /\ queue = <<>> /\ arrived = 0 /\ error = FALSE /\ errors = 0
  /\ rx = "check" /\ frame = 0
  /\ ready = TRUE /\ running = TRUE /\ timedOut = FALSE
  /\ dtor = "none" /\ delivered = 0
-----------------------------------------------------------------------------
(* The socket. *)

\* A frame arrives; one too many is lost.
Arrive ==
  /\ arrived < MaxFrames /\ arrived' = arrived + 1
  /\ \E f \in {arrived + 1, -(arrived + 1)} :
       queue' = IF Len(queue) < QueueSize THEN Append(queue, f) ELSE queue
  /\ UNCHANGED <<error, errors, rx, frame, ready, running, timedOut, dtor, delivered>>

Fail ==
  /\ errors < MaxErrors /\ errors' = errors + 1 /\ error' = TRUE
  /\ UNCHANGED <<queue, arrived, rx, frame, ready, running, timedOut, dtor, delivered>>
-----------------------------------------------------------------------------
(* The receive thread. *)

\* Mutant: the loop does not look at the flags.
GoesOnAnyway == TRUE
GoesOn == running /\ ready
\* while (isthreadrunning_ && ready_), and the new frame of wait_for_can_data.
Check ==
  /\ rx = "check"
  /\ rx' = IF GoesOn THEN "wait" ELSE "done"
  /\ frame' = 0
  /\ UNCHANGED <<socket, ready, running, timedOut, dtor, delivered>>

\* select: something can be read, or the timeout has passed.
Select ==
  /\ rx = "wait" /\ (queue # <<>> \/ error) /\ rx' = "read"
  /\ UNCHANGED <<socket, frame, ready, running, timedOut, dtor, delivered>>

\* Mutant: the exception's text does not start with $.
Unmarked == FALSE
Marked == TRUE
\* The exception of wait(timeout).
SelectTimeout ==
  /\ rx = "wait" /\ Timed /\ queue = <<>> /\ ~error
  /\ rx' = "check" /\ timedOut' = (timedOut \/ Marked)
  /\ UNCHANGED <<socket, frame, ready, running, dtor, delivered>>

\* read fails: the exception is printed, the flag stays.
ReadError ==
  /\ rx = "read" /\ error /\ error' = FALSE /\ rx' = "check"
  /\ UNCHANGED <<queue, arrived, errors, frame, ready, running, timedOut, dtor, delivered>>

IsData(f) == f > 0
\* Mutant: the newest frame is taken.
Newest == queue[Len(queue)]
Taken == Head(queue)
\* A frame; only DATA frames reach the callback and clear the flag.
ReadFrame ==
  /\ rx = "read" /\ ~error
  /\ queue' = Tail(queue)
  /\ IF IsData(Taken)
     THEN rx' = "callback" /\ frame' = Taken /\ timedOut' = FALSE
     ELSE rx' = "check" /\ UNCHANGED <<frame, timedOut>>
  /\ UNCHANGED <<arrived, error, errors, ready, running, dtor, delivered>>

Callback ==
  /\ rx = "callback" /\ rx' = "check" /\ delivered' = frame
  /\ UNCHANGED <<socket, frame, ready, running, timedOut, dtor>>
-----------------------------------------------------------------------------
(* The destructor, called by the owner at any time. *)

ClearReady ==
  /\ dtor = "none" /\ dtor' = "running" /\ ready' = FALSE
  /\ UNCHANGED <<socket, rx, frame, running, timedOut, delivered>>
ClearRunning ==
  /\ dtor = "running" /\ dtor' = "join" /\ running' = FALSE
  /\ UNCHANGED <<socket, rx, frame, ready, timedOut, delivered>>
\* Mutant: the thread is detached.
JoinNone == TRUE
Joined == rx = "done"
\* join, then the receiver and its socket go.
Join ==
  /\ dtor = "join" /\ Joined /\ dtor' = "gone"
  /\ UNCHANGED <<socket, rx, frame, ready, running, timedOut, delivered>>

Receiver   == Check \/ Select \/ SelectTimeout \/ ReadError \/ ReadFrame \/ Callback
Destructor == ClearRunning \/ Join
Next == Arrive \/ Fail \/ Receiver \/ ClearReady \/ Destructor

Spec == Init /\ [][Next]_vars

\* The operating system runs the thread and lets a started destructor go on.
FairSpec == Spec /\ WF_vars(Receiver) /\ WF_vars(Destructor)
-----------------------------------------------------------------------------
(* Properties. *)

\* Types of all variables.
TypeOK ==
  /\ queue \in Seq(-MaxFrames..MaxFrames) /\ Len(queue) <= QueueSize
  /\ arrived \in 0..MaxFrames /\ error \in BOOLEAN /\ errors \in 0..MaxErrors
  /\ rx \in {"check", "wait", "read", "callback", "done"}
  /\ frame \in 0..MaxFrames /\ delivered \in 0..MaxFrames
  /\ ready \in BOOLEAN /\ running \in BOOLEAN /\ timedOut \in BOOLEAN
  /\ dtor \in {"none", "running", "join", "gone"}

\* The callback, which uses its owner, never runs once the destructor has
\* returned, and nobody reads the socket that it closed.
QuietAfterDestruction == dtor = "gone" => rx = "done"

\* The motors' data never go backwards: frames are delivered in the order of
\* their arrival, each at most once, whatever was lost in between.
InOrder ==
  [][Callback => delivered' > delivered]_vars

\* is_timeout() is the answer the bridge warns from: a bus that is silent for
\* ever is reported in the end and stays reported, also after an error of the
\* socket, which does not set the flag.
SilenceReported == <>[](timedOut \/ dtor # "none")

\* The destructor returns: the thread waits at most one timeout for a frame.
DestructionEnds == (dtor # "none") ~> (dtor = "gone")
=============================================================================

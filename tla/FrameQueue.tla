----------------------------- MODULE FrameQueue ------------------------------
(***************************************************************************)
(* What the Ethernet driver promises about the frames it stores: they are  *)
(* handled in the order they came, each of them once.  A frame may find    *)
(* reception stopped; it is then as if it had not been sent.               *)
(***************************************************************************)
EXTENDS Integers, Sequences

CONSTANTS Frames, Capacity

VARIABLES queue,     \* frames stored and not yet handled, oldest first
          handled    \* the frame handled last

vars == <<queue, handled>>

Init == queue = <<>> /\ handled \notin Frames

Store(f) ==
  /\ Len(queue) < Capacity
  /\ queue' = Append(queue, f)
  /\ UNCHANGED handled

Handle ==
  /\ queue # <<>>
  /\ handled' = Head(queue) /\ queue' = Tail(queue)

Next == Handle \/ \E f \in Frames : Store(f)

Spec == Init /\ [][Next]_vars
=============================================================================

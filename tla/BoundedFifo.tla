---------------------------- MODULE BoundedFifo ----------------------------
(***************************************************************************)
(* What the ring buffer of the publisher promises: a queue of at most      *)
(* Limit events.  An event enters at the back, leaves at the front, and a  *)
(* full queue turns events away without losing one it holds.               *)
(***************************************************************************)
EXTENDS Naturals, Sequences

CONSTANTS Event, Limit

VARIABLES
  queue,    \* the events held, oldest first
  turned    \* the events turned away

fvars == <<queue, turned>>

FifoInit == queue = << >> /\ turned = {}

Enter(e) ==
  /\ Len(queue) < Limit
  /\ queue' = Append(queue, e)
  /\ UNCHANGED turned

Leave ==
  /\ queue # << >>
  /\ queue' = Tail(queue)
  /\ UNCHANGED turned

TurnAway(e) ==
  /\ Len(queue) = Limit
  /\ turned' = turned \cup {e}
  /\ UNCHANGED queue

FifoNext == Leave \/ \E e \in Event : Enter(e) \/ TurnAway(e)

FifoSpec == FifoInit /\ [][FifoNext]_fvars
=============================================================================

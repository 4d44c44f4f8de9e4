---------------------------- MODULE BoundedFifo ----------------------------
(***************************************************************************)
(* What the lock-free storage of a ring promises to its two endpoints,     *)
(* with neither cursors nor slots: a bounded queue of source samples.  An  *)
(* accepted sample goes to the tail, a sample that is taken leaves from    *)
(* the head, and a reset drops a prefix of what is unread.  Unread samples *)
(* are never overwritten, reordered or duplicated.                         *)
(***************************************************************************)
EXTENDS Naturals, Sequences

CONSTANTS
  Capacity,   \* largest number of unread samples
  Item,       \* the samples
  NoItem      \* value of out before the first sample is taken

VARIABLES
  queue,      \* unread samples, oldest first
  out         \* the sample taken last

vars == <<queue, out>>

Init == queue = <<>> /\ out = NoItem

Put(x) ==
  /\ Len(queue) < Capacity
  /\ queue' = Append(queue, x)
  /\ out' = out

Take ==
  /\ queue # <<>>
  /\ out' = Head(queue)
  /\ queue' = Tail(queue)

Drop(n) ==
  /\ queue' = SubSeq(queue, n + 1, Len(queue))
  /\ out' = out

Next ==
  \/ \E x \in Item : Put(x)
  \/ Take
  \/ \E n \in 1..Len(queue) : Drop(n)

Spec == Init /\ [][Next]_vars
=============================================================================

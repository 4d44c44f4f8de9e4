----------------------------- MODULE BatchFifo -----------------------------
(***************************************************************************)
(* What the mute mailbox promises: a bounded queue to which whole batches  *)
(* of records are appended at once.  The reader sees all of a batch or     *)
(* nothing of it, takes the records in order, and a reset drops everything *)
(* published so far.                                                       *)
(***************************************************************************)
EXTENDS Naturals, Sequences

CONSTANTS
  Bound,      \* largest number of unread records
  BatchMax,   \* largest batch
  Record,     \* the records
  NoRecord    \* value of last before the first record is taken

VARIABLES
  unread,     \* unread records, oldest first
  last        \* the record taken last

vars == <<unread, last>>

Init == unread = <<>> /\ last = NoRecord

Publish(batch) ==
  /\ Len(unread) + Len(batch) <= Bound
  /\ unread' = unread \o batch
  /\ last' = last

Take ==
  /\ unread # <<>>
  /\ last' = Head(unread)
  /\ unread' = Tail(unread)

Drop(n) ==
  /\ unread' = SubSeq(unread, n + 1, Len(unread))
  /\ last' = last

Next ==
  \/ \E n \in 1..BatchMax : \E batch \in [1..n -> Record] : Publish(batch)
  \/ Take
  \/ \E n \in 1..Len(unread) : Drop(n)

Spec == Init /\ [][Next]_vars
=============================================================================

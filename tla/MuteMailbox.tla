---------------------------- MODULE MuteMailbox ----------------------------
(***************************************************************************)
(* The mailbox through which the producer hands mute intervals to the      *)
(* consumer (src/mute.rs, Mailbox).  Records are numbered in the order in  *)
(* which they are written; what an interval covers does not matter here.   *)
(* Slot accesses and accesses to the two cursors are steps of their own.   *)
(***************************************************************************)
EXTENDS Integers, Sequences

CONSTANTS
  MaxSpans,    \* MAX_SPANS: spans of one producer call
  MaxRecords   \* bound: records ever written

ASSUME SpansAssumption == MaxSpans \in Nat \ {0} /\ MaxRecords \in Nat

VARIABLES
  slots, written, read,      \* the shared memory
  pstep, left, next, serial, \* producer: step, spans left, local cursor, records written
  cstep, copy, snapshot,     \* consumer: step, copied record, loaded cursor
  unread, last               \* history variables: published records; the one taken last

producerVars == <<pstep, left, next, serial>>
consumerVars == <<cstep, copy, snapshot>>
vars == <<slots, written, read, producerVars, consumerVars, unread, last>>

Queue    == MaxSpans * 2
Modulus  == Queue * 2
Slot     == 0..(Queue - 1)
NoRecord == 0

Distance(ahead, behind) == (ahead + Modulus - behind) % Modulus

\* Mutant of Free: one record too many.
FreeOneMore == Queue + 1 - Distance(written, read)
Free == Queue - Distance(written, read)

Init ==
  /\ slots = [s \in Slot |-> NoRecord] /\ written = 0 /\ read = 0
  /\ pstep = "idle" /\ left = 0 /\ next = 0 /\ serial = 0
  /\ cstep = "idle" /\ copy = NoRecord /\ snapshot = 0
  /\ unread = <<>> /\ last = NoRecord

\* A tagged push asks for room for all its spans, an interval-only update
\* cuts them to the room there is: either way n spans fit.
Reserve(n) ==
  /\ pstep = "idle"
  /\ n <= Free
  /\ serial + n <= MaxRecords
  /\ pstep' = "write" /\ left' = n /\ next' = written
  /\ UNCHANGED <<slots, written, read, serial, consumerVars, unread, last>>

\* A span clipped to nothing takes no slot.
Clip ==
  /\ pstep = "write" /\ left > 0
  /\ left' = left - 1
  /\ UNCHANGED <<slots, written, read, pstep, next, serial, consumerVars, unread, last>>

WriteRecord ==
  /\ pstep = "write" /\ left > 0
  /\ slots' = [slots EXCEPT ![next % Queue] = serial + 1]
  /\ serial' = serial + 1
  /\ next' = (next + 1) % Modulus
  /\ left' = left - 1
  /\ UNCHANGED <<written, read, pstep, consumerVars, unread, last>>

\* The records in the slots from written to next.
Batch == [i \in 1..Distance(next, written) |-> slots[(written + i - 1) % Queue]]

\* Mutant of StoreWritten: the cursor is stored before the last record is in.
StoreEarly ==
  /\ pstep = "write" /\ left <= 1
  /\ written' = (next + left) % Modulus
  /\ unread' = unread \o Batch
  /\ pstep' = IF left = 0 THEN "idle" ELSE pstep
  /\ UNCHANGED <<slots, read, left, next, serial, consumerVars, last>>
StoreWritten ==
  /\ pstep = "write" /\ left = 0
  /\ written' = next
  /\ unread' = unread \o Batch
  /\ pstep' = "idle"
  /\ UNCHANGED <<slots, read, left, next, serial, consumerVars, last>>

PopLoad ==
  /\ cstep = "idle"
  /\ read # written
  /\ cstep' = "copy"
  /\ UNCHANGED <<slots, written, read, producerVars, copy, snapshot, unread, last>>

PopCopy ==
  /\ cstep = "copy"
  /\ copy' = slots[read % Queue]
  /\ cstep' = "release"
  /\ UNCHANGED <<slots, written, read, producerVars, snapshot, unread, last>>

PopRelease ==
  /\ cstep = "release"
  /\ read' = (read + 1) % Modulus
  /\ last' = copy /\ unread' = Tail(unread)
  /\ copy' = NoRecord
  /\ cstep' = "idle"
  /\ UNCHANGED <<slots, written, producerVars, snapshot>>

ResetLoad ==
  /\ cstep = "idle"
  /\ snapshot' = written
  /\ cstep' = "reset"
  /\ UNCHANGED <<slots, written, read, producerVars, copy, unread, last>>

ResetStore ==
  /\ cstep = "reset"
  /\ read' = snapshot
  /\ unread' = SubSeq(unread, Distance(snapshot, read) + 1, Len(unread))
  /\ cstep' = "idle"
  /\ UNCHANGED <<slots, written, producerVars, copy, snapshot, last>>

Producer == (\E n \in 0..MaxSpans : Reserve(n)) \/ Clip \/ WriteRecord \/ StoreWritten
Consumer == PopLoad \/ PopCopy \/ PopRelease \/ ResetLoad \/ ResetStore
Next == Producer \/ Consumer

Spec == Init /\ [][Next]_vars

-----------------------------------------------------------------------------
(* Properties.                                                             *)

\* The producer never writes a slot the consumer may be copying: the credit
\* it loaded before the batch keeps its promise to the last record.
NoRecordRace ==
  pstep = "write" /\ left > 0 /\ cstep = "copy" => next % Queue # read % Queue

\* The mailbox implements a bounded queue of batches: a batch becomes visible
\* as a whole, and no record is lost, reordered, repeated or overwritten.
Mail == INSTANCE BatchFifo WITH
  Bound <- Queue, BatchMax <- MaxSpans, Record <- 1..MaxRecords, NoRecord <- NoRecord
MailSpec == Mail!Spec
=============================================================================

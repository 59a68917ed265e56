--------------------------- MODULE MessageChannel ---------------------------
(***************************************************************************)
(* What a DebugSender and its DebugReceiver promise together: messages     *)
(* collect in the sender's queue, a whole queue travels at once, at most   *)
(* one packet is under way, and everything that was accepted arrives once  *)
(* and in the order of writing.  Messages are numbered as they are         *)
(* written; the queue refuses what does not fit.                           *)
(***************************************************************************)
EXTENDS Naturals, Sequences

CONSTANTS
  MaxMessages,      \* bound: the number of messages written
  Capacity          \* the number of messages the sender's queue holds

VARIABLES
  written,          \* messages written so far, accepted or refused
  queued,           \* the accepted messages not yet sent
  carried,          \* the content of the packet under way
  delivered         \* what the receiver got, in order

vars == <<written, queued, carried, delivered>>

Init == written = 0 /\ queued = <<>> /\ carried = <<>> /\ delivered = <<>>

Write ==
  /\ written < MaxMessages
  /\ written' = written + 1
  /\ queued' = IF Len(queued) < Capacity THEN Append(queued, written') ELSE queued
  /\ UNCHANGED <<carried, delivered>>

Transmit ==
  /\ carried = <<>> /\ queued # <<>>
  /\ carried' = queued /\ queued' = <<>>
  /\ UNCHANGED <<written, delivered>>

Deliver ==
  /\ carried # <<>>
  /\ delivered' = delivered \o carried /\ carried' = <<>>
  /\ UNCHANGED <<written, queued>>

Next == Write \/ Transmit \/ Deliver
Spec == Init /\ [][Next]_vars

-----------------------------------------------------------------------------
Stream == delivered \o carried \o queued

TypeOK ==
  /\ written \in Nat
  /\ queued \in Seq(1..written) /\ carried \in Seq(1..written)
  /\ delivered \in Seq(1..written)

\* Nothing is reordered or duplicated: the numbers of the accepted messages
\* ascend along the whole way from the receiver back to the sender's queue.
InOrder == \A i, j \in DOMAIN Stream : i < j => Stream[i] < Stream[j]

IInv == TypeOK /\ InOrder
=============================================================================

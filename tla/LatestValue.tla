---------------------------- MODULE LatestValue -----------------------------
(***************************************************************************)
(* Sender<ModulePacket>: at the end of each frame a thread sends its       *)
(* representations to another thread without asking whether the last       *)
(* packet was taken (ModuleContainer::main).  A packet that was not read   *)
(* is replaced; the receiver always works with the most actual one.        *)
(*                                                                         *)
(* A packet's content is the number of the frame that sent it.             *)
(***************************************************************************)
EXTENDS TripleBuffer

CONSTANT MaxSends             \* bound: the number of packets sent

ASSUME MaxSendsAssumption == MaxSends \in Nat \ {0}

VARIABLE received             \* the frame last deserialized, 0 before any
valueVars == <<bufferVars, received>>

ValueInit == BufferInit /\ received = 0

\* Sender::send
SendValue ==
  /\ spc = "idle" /\ sent < MaxSends
  /\ Obtain(sent + 1)
  /\ UNCHANGED received

\* A pointer that is no longer alive yields garbage, here 0.
ReceiveValue ==
  /\ Deserialize
  /\ received' = IF pointer \in live THEN heap[pointer] ELSE 0

ValueSender   == SendValue \/ ((setPacketStep \/ Trigger) /\ UNCHANGED received)
ValueReceiver == ReceiveValue \/ (ReceiverStep /\ UNCHANGED received)
ValueNext == ValueSender \/ ValueReceiver \/ (WakeOtherwise /\ UNCHANGED received)

\* Nothing in the code relates the speeds of the two threads.
UnpacedSpec == ValueInit /\ [][ValueNext]_valueVars

\* The time between the receiver's load of "actual" and its store of "reading"
\* (two adjacent instructions) is shorter than the time from the end of one
\* setPacket to the slot choice of the next one (a frame of the sender).
Pacing == ChooseSlot => ~(rpc = "reserve" /\ latest # actual)
PacedNext == ValueNext /\ Pacing
PacedSpec == ValueInit /\ [][PacedNext]_valueVars
PacedFairSpec ==
  PacedSpec /\ WF_valueVars(ValueSender /\ Pacing) /\ WF_valueVars(ValueReceiver)

-----------------------------------------------------------------------------
ValueTypeOK ==
  /\ BufferTypeOK
  /\ sent <= MaxSends /\ received \in 0..sent

\* Under Pacing, setPacket and checkForPacket never free or read what is no longer
\* alive and lose no packet to the heap, although they take no lock.
BufferSound == ValueTypeOK /\ HeapSound

\* The frame whose packet was published last.
Published == IF Sending THEN sent - 1 ELSE sent

\* A packet is on the heap until the one who may free it has done so; slots hold
\* nothing that was not published, and a packet is what it was when it was sent.
PacketsHeld ==
  /\ IF Sending THEN outgoing = sent /\ outgoing \in live ELSE outgoing = None
  /\ spc = "publish" => packet[writing] = outgoing
  /\ \A i \in Slot :
       /\ packet[i] <= Published \/ (spc = "publish" /\ i = writing)
       /\ packet[i] \in live <=> ~ \/ packet[i] = None
                                   \/ rpc = "clear" /\ i = reading
                                   \/ spc = "store" /\ i = writing
  /\ \A p \in live : heap[p] = p

\* Only the last packet that was published can be in the slot "actual", and only
\* until it was received.
NewestInActual ==
  /\ received <= Published
  /\ packet[actual] \in {None, Published}
  /\ packet[actual] > received \/ packet[actual] = None
       \/ (rpc \in {"free", "clear"} /\ reading = actual)

\* The slot the receiver has decided for holds nothing that it already got.
ReceiverAhead ==
  /\ rpc = "reserve" /\ packet[latest] # None => packet[latest] > received
  /\ rpc = "test" /\ packet[reading] # None => packet[reading] > received
  /\ rpc = "stream" => pointer = packet[reading] /\ packet[reading] > received
  /\ rpc \in {"free", "clear"} => packet[reading] = received /\ received # 0

ValueIInv ==
  BufferSound /\ SlotsDisjoint /\ PacketsHeld /\ NewestInActual /\ ReceiverAhead

\* The receiver never reads a packet twice and never goes back to an older one,
\* however long it sleeps between two steps of checkForPacket.
NeverOlder == [][received' > received]_received

\* The last packet sent before the sender falls silent is not overlooked: a
\* wake-up is always left for it.
LastPacketArrives == <>(received = MaxSends)
=============================================================================

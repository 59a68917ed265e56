---------------------------- MODULE TripleBuffer ----------------------------
(***************************************************************************)
(* The triple buffer between two threads: class ReceiverBase and           *)
(* Receiver::checkForPacket (Tools/Framework/Communication.h) and          *)
(* ReceiverBase::setPacket (Communication.cpp).                            *)
(*                                                                         *)
(* No lock protects the buffer: the sending thread and the receiving       *)
(* thread share packet[3] and the two volatile indices "reading" and       *)
(* "actual".  Every action below contains at most one access to a variable *)
(* the other thread writes, so that the interleavings are those of the     *)
(* machine code: the assignment "reading = actual" is a load and, later, a *)
(* store.  The module holds the steps; LatestValue and DebugChannel add    *)
(* the two kinds of senders and the specifications.                        *)
(***************************************************************************)
EXTENDS Naturals, Functions

VARIABLES
  packet,     \* the three slots, each a pointer or None
  reading,    \* index of the slot reserved for reading (written by receiver)
  actual,     \* index of the most actual slot (written by sender)
  heap,       \* allocated packets: what each live pointer points to
  sent,       \* number of packets allocated so far, the last pointer given out
  spc,        \* control location of the sending thread
  outgoing,   \* the pointer setPacket was called with
  writing,    \* setPacket's local index
  rpc,        \* control location of the receiving thread
  latest,     \* "actual" as the receiving thread loaded it
  pointer,    \* the pointer InBinaryMemory reads from
  signals     \* the count of the receiving thread's semaphore

bufferVars == <<packet, reading, actual, heap, sent, spc, outgoing, writing,
                rpc, latest, pointer, signals>>

Slot == 0..2
None == 0                   \* the null pointer; real pointers count from 1
live == DOMAIN heap

SenderLocation   == {"idle", "blocked", "choose", "reserve", "store", "publish",
                     "trigger"}
ReceiverLocation == {"wait", "load", "reserve", "test", "stream", "free",
                     "clear", "stopped"}

\* ReceiverBase's constructor; both threads have just been started.
BufferInit ==
  /\ packet = [i \in Slot |-> None]
  /\ reading = 0 /\ actual = 0
  /\ heap = <<>> /\ sent = 0
  /\ spc = "idle" /\ outgoing = None /\ writing = 0
  /\ rpc = "load" /\ latest = 0 /\ pointer = None
  /\ signals = 0

Freed(p) == Restrict(heap, live \ {p})

-----------------------------------------------------------------------------
(* The sending thread. *)

\* Mutant: the pending packet is looked for in the receiver's slot.
PendingInReading == packet[reading] # None

hasPendingPacket == packet[actual] # None

\* stream << data; receiver.setPacket(stream.obtainData())
Obtain(data) ==
  /\ sent' = sent + 1
  /\ outgoing' = sent'
  /\ heap' = [p \in live \cup {sent'} |-> IF p = sent' THEN data ELSE heap[p]]
  /\ spc' = "choose"
  /\ UNCHANGED <<packet, reading, actual, writing, rpc, latest, pointer, signals>>

\* The first slot that is neither "actual" (which only this thread writes) nor
\* "reading", of which the cascade of tests takes a single look.
ChooseSlot ==
  /\ spc = "choose"
  /\ writing' = CHOOSE w \in Slot :
                  /\ w \notin {actual, reading}
                  /\ \A v \in Slot : v \notin {actual, reading} => w <= v
  /\ spc' = "reserve"
  /\ UNCHANGED <<packet, reading, actual, heap, sent, outgoing, rpc, latest,
                 pointer, signals>>

\* Mutant: the packet that was never read is forgotten.
FreeOldForgotten ==
  /\ spc = "reserve"
  /\ spc' = "store"
  /\ UNCHANGED <<packet, reading, actual, heap, sent, outgoing, writing, rpc, latest,
                 pointer, signals>>

\* Past the two assertions: if(packet[writing]) std::free(packet[writing]);
FreeOld ==
  /\ spc = "reserve"
  /\ heap' = Freed(packet[writing])
  /\ spc' = "store"
  /\ UNCHANGED <<packet, reading, actual, sent, outgoing, writing, rpc, latest,
                 pointer, signals>>

StorePacket ==
  /\ spc = "store"
  /\ packet' = [packet EXCEPT ![writing] = outgoing]
  /\ spc' = "publish"
  /\ UNCHANGED <<reading, actual, heap, sent, outgoing, writing, rpc, latest,
                 pointer, signals>>

Publish ==
  /\ spc = "publish"
  /\ actual' = writing
  /\ outgoing' = None
  /\ spc' = "trigger"
  /\ UNCHANGED <<packet, reading, heap, sent, writing, rpc, latest, pointer,
                 signals>>

\* Mutant: only a thread that is waiting already is triggered.
TriggerIfWaiting ==
  /\ spc = "trigger"
  /\ signals' = IF rpc = "wait" THEN signals + 1 ELSE signals
  /\ spc' = "idle"
  /\ UNCHANGED <<packet, reading, actual, heap, sent, outgoing, writing, rpc,
                 latest, pointer>>

\* thread->trigger(), then the return to the sender's own code.
Trigger ==
  /\ spc = "trigger"
  /\ signals' = signals + 1
  /\ spc' = "idle"
  /\ UNCHANGED <<packet, reading, actual, heap, sent, outgoing, writing, rpc,
                 latest, pointer>>

setPacketStep == ChooseSlot \/ FreeOld \/ StorePacket \/ Publish

-----------------------------------------------------------------------------
(* The receiving thread: ThreadFrame::wait and Receiver::checkForPacket.   *)

Wake ==
  /\ rpc = "wait" /\ signals > 0
  /\ signals' = signals - 1
  /\ rpc' = "load"
  /\ UNCHANGED <<packet, reading, actual, heap, sent, spc, outgoing, writing,
                 latest, pointer>>

\* The wait also ends without a packet of this sender: after 100 ms on the
\* robot, and whenever another sender of the same thread triggers it.
WakeOtherwise ==
  /\ rpc = "wait"
  /\ rpc' = "load"
  /\ UNCHANGED <<packet, reading, actual, heap, sent, spc, outgoing, writing,
                 latest, pointer, signals>>

LoadActual ==
  /\ rpc = "load"
  /\ latest' = actual
  /\ rpc' = "reserve"
  /\ UNCHANGED <<packet, reading, actual, heap, sent, spc, outgoing, writing,
                 pointer, signals>>

\* Mutant: without a packet in the latest slot any other one will do.
StoreReadingFilled ==
  /\ rpc = "reserve"
  /\ reading' \in {i \in Slot : packet[latest] = None /\ packet[i] # None} \cup {latest}
  /\ rpc' = "test"
  /\ UNCHANGED <<packet, actual, heap, sent, spc, outgoing, writing, latest,
                 pointer, signals>>

StoreReading ==
  /\ rpc = "reserve"
  /\ reading' = latest
  /\ rpc' = "test"
  /\ UNCHANGED <<packet, actual, heap, sent, spc, outgoing, writing, latest,
                 pointer, signals>>

\* if(packet[reading]) { InBinaryMemory memory(packet[reading]);
\* Without a packet the frame goes on and the thread waits again.
TestPacket ==
  /\ rpc = "test"
  /\ pointer' = packet[reading]
  /\ rpc' = IF packet[reading] = None THEN "wait" ELSE "stream"
  /\ UNCHANGED <<packet, reading, actual, heap, sent, spc, outgoing, writing,
                 latest, signals>>

\* memory >> data; the receivers of packets say where the data goes.
Deserialize ==
  /\ rpc = "stream"
  /\ rpc' = "free"
  /\ UNCHANGED <<packet, reading, actual, heap, sent, spc, outgoing, writing,
                 latest, pointer, signals>>

\* std::free(packet[reading]); the slot is loaded again.
FreePacket ==
  /\ rpc = "free"
  /\ heap' = Freed(packet[reading])
  /\ rpc' = "clear"
  /\ UNCHANGED <<packet, reading, actual, sent, spc, outgoing, writing, latest,
                 pointer, signals>>

\* Mutant: the pointer to the freed packet stays in its slot.
ClearForgotten ==
  /\ rpc = "clear"
  /\ pointer' = None
  /\ rpc' = "wait"
  /\ UNCHANGED <<packet, reading, actual, heap, sent, spc, outgoing, writing, latest,
                 signals>>

\* packet[reading] = 0; the frame is executed and the thread waits again.
ClearPacket ==
  /\ rpc = "clear"
  /\ packet' = [packet EXCEPT ![reading] = None]
  /\ pointer' = None
  /\ rpc' = "wait"
  /\ UNCHANGED <<reading, actual, heap, sent, spc, outgoing, writing, latest,
                 signals>>

ReceiverStep == Wake \/ LoadActual \/ StoreReading \/ TestPacket
                \/ FreePacket \/ ClearPacket

-----------------------------------------------------------------------------
(* What the buffer has to guarantee to whoever sends through it.           *)

BufferTypeOK ==
  /\ packet \in [Slot -> Nat]
  /\ reading \in Slot /\ actual \in Slot
  /\ sent \in Nat /\ live \subseteq 1..sent
  /\ spc \in SenderLocation /\ outgoing \in 0..sent /\ writing \in Slot
  /\ rpc \in ReceiverLocation /\ latest \in Slot /\ pointer \in Nat
  /\ signals \in Nat

\* A packet was obtained, but not published yet.
Sending == spc \in {"choose", "reserve", "store", "publish"}

\* The slot setPacket works at belongs to the sender until it is published.
SlotsDisjoint ==
  spc \in {"reserve", "store", "publish"} =>
    writing # actual /\ writing # reading /\ (rpc = "reserve" => latest # writing)

\* The slot setPacket is about to free and to overwrite is not the one
\* reserved for reading: ASSERT(writing != reading) in Communication.cpp, for
\* as long as it has to stay true.
SlotNotReserved == spc \in {"reserve", "store"} => writing # reading

\* No packet is used after it was freed and none is freed twice: what the
\* receiver streams from and what either thread passes to std::free is alive.
MemorySafe ==
  /\ rpc = "stream" => pointer \in live
  /\ rpc = "free" => packet[reading] \in live
  /\ spc = "reserve" /\ packet[writing] # None => packet[writing] \in live

\* Every allocated packet is in exactly one place, in a slot or in the hands of
\* the sender, so none leaks when setPacket overwrites a slot.
NoLeak ==
  /\ \A p \in live : \/ p = outgoing /\ spc # "idle"
                     \/ \E i \in Slot : packet[i] = p
  /\ \A i, j \in Slot : i # j /\ packet[i] # None => packet[i] # packet[j]

\* Every packet is freed exactly once, and not while somebody uses it.
HeapSound == MemorySafe /\ NoLeak
=============================================================================

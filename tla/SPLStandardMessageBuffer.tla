---------------------- MODULE SPLStandardMessageBuffer ----------------------
(***************************************************************************)
(* The ring buffer of received team messages                               *)
(* (Tools/Communication/SPLStandardMessageBuffer.h) and the loop that      *)
(* reads the socket into it (SPLMessageHandler::receive).  A slot is       *)
(* reserved before it is known whether there is a packet for it.           *)
(***************************************************************************)
EXTENDS Naturals, Sequences

CONSTANT Capacity       \* MAX_NUMBER_OF_PARALLEL_RECEIVABLE_SPLSTDMSG

ASSUME CapacityAssumption == Capacity \in Nat \ {0}

\* Messages are numbers; a slot that is not in use counts as empty.
Nothing == 0

EmptyBuffer ==
  [buffer |-> [i \in 0..(Capacity - 1) |-> Nothing], head |-> 0, entries |-> 0]

\* The next slot; if all were in use, it is that of the oldest message.
setForward(b) ==
  [b EXCEPT !.entries = IF @ < Capacity THEN @ + 1 ELSE Capacity,
            !.head = (@ + 1) % Capacity]

\* Mutant: the head stays.
removeFrontOnlyCounted(b) == [b EXCEPT !.entries = @ - 1, !.buffer[b.head] = Nothing]

removeFront(b) ==
  [b EXCEPT !.entries = @ - 1,
            !.head = (@ + Capacity - 1) % Capacity,
            !.buffer[b.head] = Nothing]

\* One packet: a message, or one with a wrong size (Nothing).
Read(b, packet) ==
  IF packet = Nothing THEN removeFront(setForward(b))
                      ELSE [setForward(b) EXCEPT !.buffer[setForward(b).head] = packet]

\* The buffer after 0, 1, 2... of the packets that have arrived.
Buffers(b, packets) ==
  LET after[i \in 0..Len(packets)] ==
        IF i = 0 THEN b ELSE Read(after[i - 1], packets[i])
  IN  after

\* All packets that have arrived; the last call of the socket fails.
receive(b, packets) == Read(Buffers(b, packets)[Len(packets)], Nothing)

\* What takeBack() returns until the buffer is empty.
TakenBack(b) ==
  [i \in 1..b.entries |-> b.buffer[(Capacity + b.head - (b.entries - i)) % Capacity]]

Taken(b) == [EmptyBuffer EXCEPT !.head = b.head]
=============================================================================

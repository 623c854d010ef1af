------------------------------ MODULE RxQueue ------------------------------
(***************************************************************************)
(* A receive ring between an interrupt handler, which fills it, and the    *)
(* main loop's FlushMIDIRx, which drains it.  The I2C, Select Bus and MIDI *)
(* queues of app.c are the same code over different arrays; this module is *)
(* one of them, named after the MIDI one.                                  *)
(*                                                                         *)
(* The handler runs to completion before the main loop resumes, so it is   *)
(* one step.  The main loop can be interrupted between any two of its      *)
(* accesses to shared memory, so FlushMIDIRx is three: compare the next    *)
(* read position with the write cursor, publish the new read cursor, and   *)
(* only then fetch the byte from the slot that cursor names.               *)
(***************************************************************************)
EXTENDS Integers, Sequences, SequencesExt

CONSTANTS
  Byte,        \* the byte values of interest
  ZeroByte,    \* what the slots hold at reset
  QueueSize,   \* kMIDIRxQueueSize and its two siblings (a power of two)
  BootRx,      \* the most bytes that arrive before the first one is taken
  MaxRx        \* bound: the most bytes that ever arrive

ASSUME QueueSizeAssumption == QueueSize \in Nat /\ QueueSize > 1
ASSUME ByteAssumption == ZeroByte \in Byte
ASSUME BoundAssumption == BootRx \in Nat /\ MaxRx \in Nat

VARIABLES
  rxQueue,     \* the slots
  rxRead,      \* the last slot taken; -1 until one has been
  rxWrite,     \* the slot the next byte goes to
  pc,          \* where FlushMIDIRx is in its loop
  nextRead,    \* FlushMIDIRx's local of that name
  accepted,    \* history: the bytes the handler stored, in order
  delivered,   \* history: the bytes handed to the parser, in order
  lost         \* history: how many bytes met the overflow branch

ring == <<rxQueue, rxRead, rxWrite>>
vars == <<rxQueue, rxRead, rxWrite, pc, nextRead, accepted, delivered, lost>>

Slots == 0 .. QueueSize - 1

\* ( i + 1 ) & ( QueueSize - 1 ), for a cursor between -1 and QueueSize - 1
Advance(i) == IF i + 1 = QueueSize THEN 0 ELSE i + 1

Init ==
  /\ rxQueue = [i \in Slots |-> ZeroByte]
  /\ rxRead = -1
  /\ rxWrite = 0
  /\ pc = "check"
  /\ nextRead = 0
  /\ accepted = << >>
  /\ delivered = << >>
  /\ lost = 0
-----------------------------------------------------------------------------
(***************************************************************************)
(* The interrupt handler.  BootRx and MaxRx bound what the wire delivers;  *)
(* the handler itself takes whatever comes.                                *)
(***************************************************************************)
ByteArrives ==
  /\ Len(accepted) + lost < MaxRx
  /\ rxRead = -1 => Len(accepted) < BootRx

\* Mutant of Overflow: full one slot early.
OverflowEarly ==
  /\ rxRead = Advance(rxWrite)
  /\ lost' = lost + 1
  /\ UNCHANGED <<ring, accepted>>

Overflow ==
  /\ rxRead = rxWrite
  /\ lost' = lost + 1
  /\ UNCHANGED <<ring, accepted>>

\* Mutant of Store: no overflow check.
StoreUnchecked(b) ==
  /\ rxQueue' = [rxQueue EXCEPT ![rxWrite] = b]
  /\ rxWrite' = Advance(rxWrite)
  /\ accepted' = Append(accepted, b)
  /\ UNCHANGED <<rxRead, lost>>

Store(b) ==
  /\ rxRead # rxWrite
  /\ rxQueue' = [rxQueue EXCEPT ![rxWrite] = b]
  /\ rxWrite' = Advance(rxWrite)
  /\ accepted' = Append(accepted, b)
  /\ UNCHANGED <<rxRead, lost>>

RxInterrupt(b) ==
  /\ ByteArrives
  /\ Overflow \/ Store(b)
  /\ UNCHANGED <<pc, nextRead, delivered>>
-----------------------------------------------------------------------------
(***************************************************************************)
(* One round of FlushMIDIRx's loop.  Finding the queue empty leaves the    *)
(* loop with nothing changed, and the next call starts at Check again.     *)
(***************************************************************************)
Check ==
  /\ pc = "check"
  /\ Advance(rxRead) # rxWrite
  /\ nextRead' = Advance(rxRead)
  /\ pc' = "publish"
  /\ UNCHANGED <<ring, accepted, delivered, lost>>

Publish ==
  /\ pc = "publish"
  /\ rxRead' = nextRead
  /\ pc' = "fetch"
  /\ UNCHANGED <<rxQueue, rxWrite, nextRead, accepted, delivered, lost>>

Fetch ==
  /\ pc = "fetch"
  /\ delivered' = Append(delivered, rxQueue[nextRead])
  /\ pc' = "check"
  /\ UNCHANGED <<ring, nextRead, accepted, lost>>

Next ==
  \/ \E b \in Byte : RxInterrupt(b)
  \/ Check
  \/ Publish
  \/ Fetch

Spec == Init /\ [][Next]_vars
-----------------------------------------------------------------------------
\* The bytes FlushMIDIRx has claimed: those delivered, and one in hand
\* between the publication of the read cursor and the fetch.
Taken == Len(delivered) + (IF pc = "fetch" THEN 1 ELSE 0)

\* How many unread bytes the two cursors say the ring holds.
Occupied ==
  IF rxWrite > rxRead THEN rxWrite - rxRead - 1
                      ELSE rxWrite - rxRead - 1 + QueueSize

\* The slot of the i-th unread byte, counting from 1.
Slot(i) ==
  IF rxRead + i < QueueSize THEN rxRead + i ELSE rxRead + i - QueueSize

TypeOK ==
  /\ rxQueue \in [Slots -> Byte]
  /\ rxRead \in -1 .. QueueSize - 1
  /\ rxWrite \in Slots
  /\ pc \in {"check", "publish", "fetch"}
  /\ nextRead \in Slots
  /\ accepted \in Seq(Byte)
  /\ delivered \in Seq(Byte)
  /\ lost \in Nat

(***************************************************************************)
(* The parser is given the accepted bytes in the order they arrived: none  *)
(* skipped, doubled or overtaken (app.c, FlushMIDIRx against the UART      *)
(* handlers).                                                              *)
(***************************************************************************)
InOrder == IsPrefix(delivered, accepted)

(***************************************************************************)
(* FlushMIDIRx frees the slot (the new read cursor) before it reads it.    *)
(* No interrupt in between can put another byte there: what it fetches is  *)
(* still the byte whose turn it is.                                        *)
(***************************************************************************)
SlotStable ==
  pc = "fetch" => rxQueue[nextRead] = accepted[Taken]

(***************************************************************************)
(* The cursors never lose count: the unread bytes they describe are the    *)
(* bytes accepted and not yet taken.  A ring that fills up unnoticed, and  *)
(* so looks empty, breaks this.                                            *)
(***************************************************************************)
NothingVanishes == Len(accepted) - Taken = Occupied

(***************************************************************************)
(* The ring keeps its bytes whatever interrupts FlushMIDIRx: in order,     *)
(* undisturbed where they are, and all accounted for.                      *)
(***************************************************************************)
RingSafe == InOrder /\ SlotStable /\ NothingVanishes

(***************************************************************************)
(* A byte is dropped only when the ring holds all it can, which is one     *)
(* byte less than it has slots (the "queue overflow" branches).            *)
(***************************************************************************)
DropOnlyWhenFull ==
  [][lost' # lost => Len(accepted) - Taken = QueueSize - 1]_vars

(***************************************************************************)
(* Every byte accepted reaches the parser.  What makes FlushMIDIRx run is  *)
(* the audio service (Audio), whose fairness this needs.                   *)
(***************************************************************************)
EveryByteDelivered ==
  \A k \in 1 .. MaxRx : Len(accepted) >= k ~> Len(delivered) >= k

(***************************************************************************)
(* The ring implements the bounded line.  The byte in hand counts as taken *)
(* from the moment its slot is released.                                   *)
(***************************************************************************)
Fifo == INSTANCE BoundedFifo WITH
  Item <- {<<b>> : b \in Byte},
  Capacity <- QueueSize - 1,
  fifo <- [i \in 1 .. Occupied |-> rxQueue[Slot(i)]],
  out <- IF pc = "fetch" THEN Append(delivered, rxQueue[nextRead])
                         ELSE delivered,
  dropped <- lost

ImplementsFifo == Fifo!Spec
=============================================================================

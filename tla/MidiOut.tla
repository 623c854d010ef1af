------------------------------ MODULE MidiOut ------------------------------
(***************************************************************************)
(* The MIDI output queue of midi.c.  Callers queue messages, all or none   *)
(* (QueueMIDI1, QueueMIDI2, QueueMIDI3), or insist, piece by piece, and    *)
(* help the queue along while it is full (BlockingQueueMIDI1..3); the      *)
(* audio service hands a byte to the transmitter after a block when        *)
(* midiOutPending says there may be one.  All of that is the main loop, so *)
(* a call is one step up to where it waits for the transmitter, and only   *)
(* the transmitter itself moves in between.                                *)
(***************************************************************************)
EXTENDS Integers, SequencesExt

CONSTANTS
  Message,         \* what callers queue: sequences of one to three bytes
  EmptyByte,       \* what the slots hold at reset
  kMidiQueueSize,  \* slots of the queue
  TxDepth,         \* bytes the UART's transmitter can hold
  BootQueued,      \* the most bytes queued before the first is handed over
  MaxQueued        \* bound: the most bytes callers offer

ASSUME QueueAssumption == kMidiQueueSize \in Nat /\ kMidiQueueSize > 3
ASSUME TxAssumption == TxDepth \in Nat \ {0}
ASSUME MessageAssumption ==
  \A m \in Message : m \in Seq(Range(m)) /\ Len(m) \in 1 .. 3
ASSUME MidiOutBounds == BootQueued \in Nat /\ MaxQueued \in Nat

VARIABLES
  midiQueue,          \* the slots
  midiQueueReadPos,   \* the last slot handed over; -1 until one has been
  midiQueueWritePos,  \* the slot the next byte goes to
  midiOutPending,     \* whether the service is to look at the queue
  pieces,             \* what a blocking caller still has to queue
  tx,                 \* the bytes in the transmitter
  line,               \* history: the bytes sent
  queued,             \* history: the bytes queued
  refused             \* history: the messages refused

ring == <<midiQueue, midiQueueReadPos, midiQueueWritePos>>
vars == <<ring, midiOutPending, pieces, tx, line, queued, refused>>

Slots == 0 .. kMidiQueueSize - 1

\* The slot after slot i.
Following(i) == IF i + 1 >= kMidiQueueSize THEN 0 ELSE i + 1

\* The slot k places on from the write position.
Place(k) ==
  LET p == midiQueueWritePos + k IN
  IF p >= kMidiQueueSize THEN p - kMidiQueueSize ELSE p

Init ==
  /\ midiQueue = [i \in Slots |-> EmptyByte]
  /\ midiQueueReadPos = -1
  /\ midiQueueWritePos = 0
  /\ midiOutPending = FALSE
  /\ pieces = << >>
  /\ tx = << >> /\ line = << >> /\ queued = << >> /\ refused = 0
-----------------------------------------------------------------------------
(***************************************************************************)
(* QueueMIDI1, 2 and 3.  They write into the ring as they go and stop at   *)
(* the read position; only a message that got all the way in moves the     *)
(* write position.                                                         *)
(***************************************************************************)
\* Mutant of Fits: does not look past the first byte.
FitsFirst(m) == Place(0) # midiQueueReadPos

Fits(m) == \A k \in 0 .. Len(m) - 1 : Place(k) # midiQueueReadPos

Scribbled(m) ==
  LET room == {k \in 0 .. Len(m) - 1 :
                 \A j \in 0 .. k : Place(j) # midiQueueReadPos} IN
  [s \in Slots |-> IF \E k \in room : s = Place(k)
                   THEN m[(CHOOSE k \in room : s = Place(k)) + 1]
                   ELSE midiQueue[s]]

\* Mutant of Queue: the service is not told.
QueueUntold(m) ==
  /\ Fits(m)
  /\ midiQueue' = Scribbled(m)
  /\ midiQueueWritePos' = Place(Len(m))
  /\ queued' = queued \o m
  /\ UNCHANGED <<midiQueueReadPos, midiOutPending>>

Queue(m) ==
  /\ Fits(m)
  /\ midiQueue' = Scribbled(m)
  /\ midiQueueWritePos' = Place(Len(m))
  /\ midiOutPending' = TRUE
  /\ queued' = queued \o m
  /\ UNCHANGED midiQueueReadPos

NoRoom(m) ==
  /\ ~Fits(m)
  /\ midiQueue' = Scribbled(m)
  /\ UNCHANGED <<midiQueueReadPos, midiQueueWritePos, midiOutPending, queued>>

UTXBF == Len(tx) = TxDepth

Empty == Following(midiQueueReadPos) = midiQueueWritePos

\* Mutant of HandleMIDIOut: a single byte left is taken for none.
HandleMIDIOutEarly ==
  /\ ~UTXBF
  /\ IF Following(Following(midiQueueReadPos)) = midiQueueWritePos
     THEN midiOutPending' = FALSE /\ UNCHANGED <<ring, tx>>
     ELSE /\ midiQueueReadPos' = Following(midiQueueReadPos)
          /\ tx' = Append(tx, midiQueue[Following(midiQueueReadPos)])
          /\ UNCHANGED <<midiQueue, midiQueueWritePos, midiOutPending>>

\* HandleMIDIOut; with the transmitter full it does nothing at all.
HandleMIDIOut ==
  /\ ~UTXBF
  /\ IF Empty
     THEN midiOutPending' = FALSE /\ UNCHANGED <<ring, tx>>
     ELSE /\ midiQueueReadPos' = Following(midiQueueReadPos)
          /\ tx' = Append(tx, midiQueue[Following(midiQueueReadPos)])
          /\ UNCHANGED <<midiQueue, midiQueueWritePos, midiOutPending>>
-----------------------------------------------------------------------------
(***************************************************************************)
(* Callers.  MaxQueued bounds what they offer, and BootQueued how much of  *)
(* it comes before the service has handed over a byte.                     *)
(***************************************************************************)
Offered == Len(queued) + refused

MayOffer(m) ==
  /\ pieces = << >>
  /\ Offered + Len(m) <= MaxQueued
  /\ midiQueueReadPos = -1 => Offered + Len(m) <= BootQueued

\* A caller of QueueMIDI1, 2 or 3.
Offer(m) ==
  /\ MayOffer(m)
  /\ \/ Queue(m) /\ UNCHANGED refused
     \/ NoRoom(m) /\ refused' = refused + 1
  /\ UNCHANGED <<pieces, tx, line>>

\* A caller that insists: on the message as a whole, as BlockingQueueMIDI2
\* and 3 do, or on one byte after the other, as ProcessI2CMIDICommand does.
Insist(m) ==
  /\ MayOffer(m)
  /\ pieces' \in {<<m>>, [i \in 1 .. Len(m) |-> <<m[i]>>]}
  /\ UNCHANGED <<ring, midiOutPending, tx, line, queued, refused>>

\* One round of BlockingQueueMIDI1, 2 or 3: the message is queued, or the
\* caller waits for the transmitter and makes room.
PieceQueued ==
  /\ pieces # << >>
  /\ Queue(Head(pieces))
  /\ pieces' = Tail(pieces)
  /\ UNCHANGED <<tx, line, refused>>

\* Mutant of MakeRoom: waits for the service, which is waiting for it.
MakeRoomOnlyWaits ==
  /\ pieces # << >> /\ ~Fits(Head(pieces))
  /\ ~UTXBF
  /\ UNCHANGED vars

MakeRoom ==
  /\ pieces # << >> /\ ~Fits(Head(pieces))
  /\ HandleMIDIOut
  /\ UNCHANGED <<pieces, line, queued, refused>>

\* serviceAudioInternalSingle, as far as MIDI output goes.
Service ==
  /\ pieces = << >> /\ midiOutPending
  /\ HandleMIDIOut
  /\ UNCHANGED <<pieces, line, queued, refused>>

\* The transmitter: a byte has gone out.
Sent ==
  /\ tx # << >>
  /\ line' = Append(line, Head(tx))
  /\ tx' = Tail(tx)
  /\ UNCHANGED <<ring, midiOutPending, pieces, queued, refused>>

Next ==
  \/ \E m \in Message : Offer(m) \/ Insist(m)
  \/ PieceQueued \/ MakeRoom
  \/ Service
  \/ Sent

Spec == Init /\ [][Next]_vars

(***************************************************************************)
(* A blocking caller does nothing else, audio blocks keep coming, and the  *)
(* transmitter sends what it holds.  Nobody need queue anything.           *)
(***************************************************************************)
FairSpec ==
  Spec /\ WF_vars(PieceQueued) /\ WF_vars(MakeRoom) /\ WF_vars(Service) /\ WF_vars(Sent)
-----------------------------------------------------------------------------
\* How many bytes the two positions say are waiting, and where they are.
Occupied ==
  IF midiQueueWritePos > midiQueueReadPos
  THEN midiQueueWritePos - midiQueueReadPos - 1
  ELSE midiQueueWritePos - midiQueueReadPos - 1 + kMidiQueueSize

Slot(i) ==
  LET p == midiQueueReadPos + i IN
  IF p < kMidiQueueSize THEN p ELSE p - kMidiQueueSize

Waiting == [i \in 1 .. Occupied |-> midiQueue[Slot(i)]]

Byte == {EmptyByte} \cup UNION {Range(m) : m \in Message}

\* Bytes never wait in the ring with nobody told to look there.
PendingWhenWaiting == Occupied > 0 => midiOutPending

(***************************************************************************)
(* Whatever is queued is sent in the end, and a caller that insists gets   *)
(* away: room is made for the longest message.                             *)
(***************************************************************************)
AllSent == \A k \in 1 .. MaxQueued : Len(queued) >= k ~> Len(line) >= k
CallersReturn == pieces # << >> ~> pieces = << >>

(***************************************************************************)
(* The ring implements the bounded line, whose items are messages: a       *)
(* message is refused only when it really has no room.                     *)
(***************************************************************************)
Fifo == INSTANCE BoundedFifo WITH
  Item <- Message \cup {<<b>> : b \in Byte},
  Capacity <- kMidiQueueSize - 1,
  fifo <- Waiting,
  out <- line \o tx,
  dropped <- refused

ImplementsFifo == Fifo!Spec
=============================================================================

--------------------------- MODULE MidiOutProofs ---------------------------
(***************************************************************************)
(* Proofs about MidiOut, for every size of the queue, every depth of the   *)
(* transmitter and every set of messages.  They rest on one assumption,    *)
(* that fewer bytes are queued before the first is handed over than the    *)
(* queue has slots: its read position is declared as -1, which the test    *)
(* for room can never meet.                                                *)
(***************************************************************************)
EXTENDS MidiOut, TLAPS

\* What is queued at once: a message, or one byte of it.
Piece == Message \cup {<<b>> : b \in Byte}

TypeOK ==
  /\ midiQueue \in [Slots -> Byte]
  /\ midiQueueReadPos \in Slots \cup {-1}
  /\ midiQueueWritePos \in Slots
  /\ midiOutPending \in BOOLEAN
  /\ pieces \in Seq(Piece)
  /\ tx \in Seq(Byte) /\ line \in Seq(Byte) /\ queued \in Seq(Byte)
  /\ refused \in Nat

\* The bytes a blocking caller still has to queue: a message in one piece or
\* a byte at a time.
ToGo == IF Len(pieces) = 1 THEN Len(pieces[1]) ELSE Len(pieces)

InPieces ==
  Len(pieces) > 1 => \A i \in 1 .. Len(pieces) : Len(pieces[i]) = 1

\* Before the first byte is handed over the queue has not come round.
Boot ==
  midiQueueReadPos = -1 =>
    midiQueueWritePos = Len(queued) /\ Len(queued) + ToGo <= BootQueued

\* The inductive invariant.  A full queue must not look empty, and at boot
\* only Boot keeps it from that.
IInv ==
  /\ TypeOK
  /\ InPieces
  /\ Boot
  /\ PendingWhenWaiting

USE QueueAssumption, TxAssumption, MidiOutBounds
-----------------------------------------------------------------------------
(* The positions' arithmetic. *)

\* A piece is one to three bytes.
LEMMA PieceType ==
  ASSUME NEW m \in Piece
  PROVE  m \in Seq(Byte) /\ Len(m) \in 1 .. 3
<1>1. CASE m \in Message
  <2>1. m \in Seq(Range(m)) /\ Len(m) \in 1 .. 3
    BY <1>1, MessageAssumption
  <2>2. Range(m) \subseteq Byte
    BY <1>1 DEF Byte
  <2> QED
    BY <2>1, <2>2
<1>2. CASE \E b \in Byte : m = <<b>>
  BY <1>2
<1> QED
  BY <1>1, <1>2 DEF Piece

\* The count is short of all the slots.
LEMMA OccupiedType ==
  ASSUME TypeOK
  PROVE  Occupied \in 0 .. kMidiQueueSize - 1
BY DEF TypeOK, Occupied, Slots

\* The places ahead of the read position are different slots.
LEMMA SlotsDiffer ==
  ASSUME TypeOK, NEW i \in 1 .. kMidiQueueSize - 1
  PROVE  /\ Slot(i) \in Slots
         /\ \A j \in 1 .. kMidiQueueSize - 1 : Slot(i) = Slot(j) => i = j
BY DEF TypeOK, Slot, Slots

\* The write position meets the read position where the queue is full.
LEMMA PlaceMeets ==
  ASSUME TypeOK, NEW k \in 0 .. 2,
         midiQueueReadPos = -1 => midiQueueWritePos + k + 1 < kMidiQueueSize
  PROVE  Place(k) = midiQueueReadPos <=> Occupied + k = kMidiQueueSize - 1
BY DEF TypeOK, Occupied, Place, Slots

\* So it does for the bytes of a message that does not come round at boot.
LEMMA PlacesMeet ==
  ASSUME TypeOK, NEW l \in 1 .. 3, NEW k \in 0 .. l - 1,
         midiQueueReadPos = -1 => midiQueueWritePos + l < kMidiQueueSize
  PROVE  Place(k) = midiQueueReadPos <=> Occupied + k = kMidiQueueSize - 1
<1>1. k \in 0 .. 2 /\ k + 1 <= l
  OBVIOUS
<1>2. midiQueueReadPos = -1 => midiQueueWritePos + k + 1 < kMidiQueueSize
  BY <1>1 DEF TypeOK, Slots
<1> QED
  BY <1>1, <1>2, PlaceMeets

\* With room for it the k-th place to write is the k-th behind those waiting.
LEMMA PlaceBehind ==
  ASSUME TypeOK, NEW k \in 0 .. 2, Occupied + k + 1 <= kMidiQueueSize - 1
  PROVE  Place(k) = Slot(Occupied + (k + 1))
BY DEF TypeOK, Occupied, Place, Slot, Slots

\* The test for room is right, but for a queue that comes round at boot.
LEMMA FitsIsRoom ==
  ASSUME TypeOK, NEW m, Len(m) \in 1 .. 3,
         midiQueueReadPos = -1 => midiQueueWritePos + Len(m) < kMidiQueueSize
  PROVE  Fits(m) <=> Occupied + Len(m) <= kMidiQueueSize - 1
<1> DEFINE l == Len(m)
<1>1. Occupied \in 0 .. kMidiQueueSize - 1 /\ l \in 1 .. 3
  BY OccupiedType
<1>2. Fits(m) <=> \A k \in 0 .. l - 1 : Place(k) # midiQueueReadPos
  BY DEF Fits
<1>3. midiQueueReadPos = -1 => midiQueueWritePos + l < kMidiQueueSize
  OBVIOUS
<1> HIDE DEF l
<1>4. ASSUME NEW k \in 0 .. l - 1
      PROVE  Place(k) = midiQueueReadPos <=> Occupied + k = kMidiQueueSize - 1
  BY <1>1, <1>3, PlacesMeet
<1>5. CASE Occupied + l <= kMidiQueueSize - 1
  BY <1>1, <1>2, <1>4, <1>5 DEF l
<1>6. CASE Occupied + l > kMidiQueueSize - 1
  <2>1. kMidiQueueSize - 1 - Occupied \in 0 .. l - 1
    BY <1>1, <1>6
  <2>2. Place(kMidiQueueSize - 1 - Occupied) = midiQueueReadPos
    BY <1>1, <1>4, <2>1
  <2>3. ~(Occupied + l <= kMidiQueueSize - 1)
    BY <1>1, <1>6
  <2> QED
    BY <1>2, <2>1, <2>2, <2>3 DEF l
<1> QED
  BY <1>1, <1>5, <1>6

\* What a call writes into the ring, n bytes of the message: they go behind
\* those waiting, which stay what they are.
LEMMA ScribbledBehind ==
  ASSUME TypeOK, NEW m \in Seq(Byte), Len(m) \in 1 .. 3,
         midiQueueReadPos = -1 => midiQueueWritePos + Len(m) < kMidiQueueSize,
         NEW n \in 0 .. Len(m),
         n = Len(m) \/ Occupied + n = kMidiQueueSize - 1,
         Occupied + n <= kMidiQueueSize - 1
  PROVE  /\ Scribbled(m) \in [Slots -> Byte]
         /\ \A i \in 1 .. Occupied : Scribbled(m)[Slot(i)] = midiQueue[Slot(i)]
         /\ \A i \in 1 .. n : Scribbled(m)[Slot(Occupied + i)] = m[i]
<1> DEFINE room == {k \in 0 .. Len(m) - 1 :
                      \A j \in 0 .. k : Place(j) # midiQueueReadPos}
<1>1. Occupied \in 0 .. kMidiQueueSize - 1 /\ n \in 0 .. 3
  <2>1. ASSUME NEW l, l \in 1 .. 3, n \in 0 .. l PROVE n \in 0 .. 3
    BY <2>1
  <2> QED
    BY <2>1, OccupiedType
<1>2. ASSUME NEW k \in 0 .. Len(m) - 1
      PROVE  Place(k) = midiQueueReadPos <=> Occupied + k = kMidiQueueSize - 1
  BY PlacesMeet
<1>3. room = 0 .. n - 1
  <2>1. ASSUME NEW k \in 0 .. n - 1 PROVE k \in room
    BY <1>1, <1>2
  <2>2. ASSUME NEW k \in room PROVE k \in 0 .. n - 1
    <3>1. CASE n = Len(m)
      BY <3>1
    <3>2. CASE n # Len(m)
      <4>1. Place(n) = midiQueueReadPos
        BY <1>1, <1>2, <3>2
      <4> QED
        BY <4>1
    <3> QED
      BY <3>1, <3>2
  <2> QED
    BY <2>1, <2>2
<1>4. Scribbled(m) = [s \in Slots |->
                        IF \E k \in room : s = Place(k)
                        THEN m[(CHOOSE k \in room : s = Place(k)) + 1]
                        ELSE midiQueue[s]]
  BY DEF Scribbled
<1> HIDE DEF room
<1>5. ASSUME NEW k \in room PROVE Place(k) = Slot(Occupied + (k + 1))
  <2>1. k \in 0 .. 2 /\ Occupied + k + 1 <= kMidiQueueSize - 1
    BY <1>1, <1>3
  <2> QED
    BY <2>1, PlaceBehind
<1>6. ASSUME NEW k \in room PROVE (CHOOSE l \in room : Place(k) = Place(l)) = k
  <2> DEFINE l == CHOOSE l \in room : Place(k) = Place(l)
  <2>1. l \in room /\ Place(k) = Place(l)
    OBVIOUS
  <2> HIDE DEF l
  <2>2. /\ Occupied + (k + 1) \in 1 .. kMidiQueueSize - 1
        /\ Occupied + (l + 1) \in 1 .. kMidiQueueSize - 1
    BY <1>1, <1>3, <2>1
  <2>3. Slot(Occupied + (k + 1)) = Slot(Occupied + (l + 1))
    BY <1>5, <2>1
  <2>4. Occupied + (k + 1) = Occupied + (l + 1)
    BY <2>2, <2>3, SlotsDiffer
  <2>5. k = l
    BY <1>1, <1>3, <2>1, <2>4
  <2> QED
    BY <2>5 DEF l
<1>7. ASSUME NEW s \in Slots PROVE Scribbled(m)[s] \in Byte
  <2>1. CASE \E k \in room : s = Place(k)
    <3>1. PICK k \in room : s = Place(k)
      BY <2>1
    <3>2. Scribbled(m)[s] = m[k + 1]
      BY <1>4, <1>6, <3>1
    <3>3. k + 1 \in 1 .. Len(m)
      BY <1>3
    <3> QED
      BY <3>2, <3>3
  <2>2. CASE ~\E k \in room : s = Place(k)
    BY <1>4, <2>2 DEF TypeOK
  <2> QED
    BY <2>1, <2>2
<1>8. Scribbled(m) \in [Slots -> Byte]
  BY <1>4, <1>7
<1>9. ASSUME NEW i \in 1 .. Occupied
      PROVE  Scribbled(m)[Slot(i)] = midiQueue[Slot(i)]
  <2>1. i \in 1 .. kMidiQueueSize - 1
    BY <1>1
  <2>2. Slot(i) \in Slots
    BY <2>1, SlotsDiffer
  <2>3. ASSUME NEW k \in room PROVE Slot(i) # Place(k)
    <3>1. Occupied + (k + 1) \in 1 .. kMidiQueueSize - 1 /\ i # Occupied + (k + 1)
      BY <1>1, <1>3
    <3> QED
      BY <1>5, <2>1, <3>1, SlotsDiffer
  <2> QED
    BY <1>4, <2>2, <2>3
<1>10. ASSUME NEW i \in 1 .. n PROVE Scribbled(m)[Slot(Occupied + i)] = m[i]
  <2>1. i - 1 \in room /\ (i - 1) + 1 = i
    BY <1>3
  <2>2. Place(i - 1) = Slot(Occupied + i)
    BY <1>5, <2>1
  <2>3. Slot(Occupied + i) \in Slots
    <3>1. Occupied + i \in 1 .. kMidiQueueSize - 1
      BY <1>1
    <3> QED
      BY <3>1, SlotsDiffer
  <2>4. (CHOOSE l \in room : Place(i - 1) = Place(l)) = i - 1
    BY <1>6, <2>1
  <2> QED
    BY <1>4, <2>1, <2>2, <2>3, <2>4
<1> QED
  BY <1>8, <1>9, <1>10

\* A message queued moves the write position past its bytes.
LEMMA QueueCount ==
  ASSUME TypeOK, NEW l \in 1 .. 3, Occupied + l <= kMidiQueueSize - 1,
         midiQueueWritePos' = Place(l), UNCHANGED midiQueueReadPos
  PROVE  /\ Occupied' = Occupied + l
         /\ midiQueueWritePos' \in Slots
         /\ midiQueueReadPos = -1 => midiQueueWritePos' = midiQueueWritePos + l
BY DEF TypeOK, Occupied, Place, Slots

\* The test for an empty queue is right, and a byte handed over takes one
\* from the count and moves the others up.
LEMMA HandOverCount ==
  ASSUME TypeOK
  PROVE  /\ Empty <=> Occupied = 0
         /\ Following(midiQueueReadPos) \in Slots
         /\ Following(midiQueueReadPos) = Slot(1)
         /\ Occupied > 0 /\ midiQueueReadPos' = Following(midiQueueReadPos)
              /\ UNCHANGED midiQueueWritePos =>
              /\ Occupied' = Occupied - 1
              /\ \A i \in 1 .. Occupied - 1 : Slot(i)' = Slot(i + 1)
BY DEF TypeOK, Occupied, Empty, Following, Slot, Slots

\* What a blocking caller has yet to queue shrinks by the piece it queues.
LEMMA ToGoShrinks ==
  ASSUME TypeOK, InPieces, pieces # << >>, pieces' = Tail(pieces)
  PROVE  /\ Head(pieces) \in Piece /\ pieces' \in Seq(Piece)
         /\ ToGo \in Nat /\ ToGo' = ToGo - Len(Head(pieces)) /\ ToGo' >= 0
         /\ InPieces'
<1> DEFINE L == Len(pieces)
<1>1. /\ L \in Nat /\ L > 0 /\ Head(pieces) = pieces[1]
      /\ pieces' \in Seq(Piece) /\ Len(pieces') = L - 1
      /\ \A i \in 1 .. L - 1 : pieces'[i] = pieces[i + 1]
      /\ \A i \in 1 .. L : pieces[i] \in Piece
  BY DEF TypeOK
<1>2. ASSUME NEW i \in 1 .. L PROVE Len(pieces[i]) \in 1 .. 3
  BY <1>1, <1>2, PieceType
<1> HIDE DEF L
<1>3. CASE L = 1
  BY <1>1, <1>2, <1>3 DEF ToGo, InPieces, L
<1>4. CASE L > 1
  <2>1. \A i \in 1 .. L : Len(pieces[i]) = 1
    BY <1>4 DEF InPieces, L
  <2>2. ToGo = L
    BY <1>4 DEF ToGo, L
  <2>3. \A i \in 1 .. L - 1 : Len(pieces'[i]) = 1
    <3> SUFFICES ASSUME NEW i \in 1 .. L - 1 PROVE Len(pieces'[i]) = 1
      OBVIOUS
    <3>1. i + 1 \in 1 .. L
      BY <1>1
    <3> QED
      BY <1>1, <2>1, <3>1
  <2>4. ToGo' = L - 1
    <3>1. L \in Nat /\ Len(pieces') = L - 1
      BY <1>1
    <3>2. L - 1 = 1 => Len(pieces'[1]) = 1
      BY <3>1, <2>3
    <3> QED
      BY <3>1, <3>2 DEF ToGo
  <2>5. InPieces'
    BY <1>1, <2>3 DEF InPieces
  <2>6. Len(Head(pieces)) = 1
    BY <1>1, <2>1
  <2>7. /\ L \in Nat /\ Head(pieces) \in Piece /\ pieces' \in Seq(Piece)
    BY <1>1
  <2>8. L - 1 >= 0
    BY <2>7, <1>4
  <2> QED
    BY <2>2, <2>4, <2>5, <2>6, <2>7, <2>8
<1> QED
  BY <1>1, <1>3, <1>4
-----------------------------------------------------------------------------
(* What the operations of the queue do to it. *)

\* The ring of a message queued: behind the bytes that wait come its own.
LEMMA QueueRing ==
  ASSUME TypeOK, NEW m \in Seq(Byte), Len(m) \in 1 .. 3, Queue(m),
         midiQueueReadPos = -1 => midiQueueWritePos + Len(m) < kMidiQueueSize
  PROVE  /\ Occupied + Len(m) <= kMidiQueueSize - 1
         /\ Occupied' = Occupied + Len(m)
         /\ midiQueueWritePos' \in Slots
         /\ midiQueueReadPos = -1 =>
              midiQueueWritePos' = midiQueueWritePos + Len(m)
         /\ midiQueue' \in [Slots -> Byte]
         /\ \A i \in 1 .. Occupied : midiQueue'[Slot(i)] = midiQueue[Slot(i)]
         /\ \A i \in 1 .. Len(m) : midiQueue'[Slot(Occupied + i)] = m[i]
<1>1. Occupied + Len(m) <= kMidiQueueSize - 1
  BY FitsIsRoom DEF Queue
<1>2. /\ Occupied' = Occupied + Len(m)
      /\ midiQueueWritePos' \in Slots
      /\ midiQueueReadPos = -1 =>
           midiQueueWritePos' = midiQueueWritePos + Len(m)
  BY <1>1, QueueCount DEF Queue
<1>3. Len(m) \in 0 .. Len(m)
  OBVIOUS
<1>4. midiQueue' = Scribbled(m)
  BY DEF Queue
<1> QED
  BY <1>1, <1>2, <1>3, <1>4, ScribbledBehind

\* A message refused had no room, and leaves the bytes that wait alone
\* whatever it has written.
LEMMA NoRoomRing ==
  ASSUME TypeOK, NEW m \in Seq(Byte), Len(m) \in 1 .. 3, NoRoom(m),
         midiQueueReadPos = -1 => midiQueueWritePos + Len(m) < kMidiQueueSize
  PROVE  /\ Occupied + Len(m) > kMidiQueueSize - 1
         /\ midiQueue' \in [Slots -> Byte]
         /\ \A i \in 1 .. Occupied : midiQueue'[Slot(i)] = midiQueue[Slot(i)]
<1> DEFINE n == kMidiQueueSize - 1 - Occupied
<1>1. ~(Occupied + Len(m) <= kMidiQueueSize - 1)
  BY FitsIsRoom DEF NoRoom
<1>2. Occupied \in 0 .. kMidiQueueSize - 1
  BY OccupiedType
<1>3. ASSUME NEW l \in 1 .. 3, ~(Occupied + l <= kMidiQueueSize - 1)
      PROVE  n \in 0 .. l /\ Occupied + l > kMidiQueueSize - 1
  BY <1>2, <1>3
<1>4. /\ n \in 0 .. Len(m) /\ Occupied + Len(m) > kMidiQueueSize - 1
      /\ Occupied + n = kMidiQueueSize - 1 /\ Occupied + n <= kMidiQueueSize - 1
  BY <1>1, <1>2, <1>3
<1>5. midiQueue' = Scribbled(m)
  BY DEF NoRoom
<1> HIDE DEF n
<1> QED
  BY <1>4, <1>5, ScribbledBehind
-----------------------------------------------------------------------------
(* The invariant, operation by operation. *)

LEMMA InvInit == Init => IInv
<1> SUFFICES ASSUME Init PROVE IInv
  OBVIOUS
<1>1. TypeOK
  <2>1. midiQueue \in [Slots -> Byte]
    BY DEF Init, Byte
  <2>2. pieces \in Seq(Piece)
    BY DEF Init
  <2>3. midiOutPending \in BOOLEAN
    BY DEF Init
  <2>4. tx \in Seq(Byte) /\ line \in Seq(Byte) /\ queued \in Seq(Byte)
    BY DEF Init
  <2>5. /\ midiQueueReadPos \in Slots \cup {-1}
        /\ midiQueueWritePos \in Slots /\ refused \in Nat
    BY DEF Init, Slots
  <2> QED
    BY <2>1, <2>2, <2>3, <2>4, <2>5 DEF TypeOK
<1>2. ToGo = 0 /\ InPieces
  BY DEF Init, ToGo, InPieces
<1>3. Occupied = 0
  BY DEF Init, Occupied
<1> QED
  BY <1>1, <1>2, <1>3 DEF IInv, Boot, PendingWhenWaiting, Init

\* A message for which there is room at boot keeps the queue's part of the
\* invariant when it is queued.
LEMMA InvQueue ==
  ASSUME IInv, NEW m \in Seq(Byte), Len(m) \in 1 .. 3, Queue(m),
         midiQueueReadPos = -1 => midiQueueWritePos + Len(m) < kMidiQueueSize,
         pieces' \in Seq(Piece), InPieces', UNCHANGED <<tx, line, refused>>,
         midiQueueReadPos = -1 => Len(queued) + Len(m) + ToGo' <= BootQueued
  PROVE  IInv'
<1>0. TypeOK /\ Boot
  BY DEF IInv
<1>1. /\ midiQueueWritePos' \in Slots
      /\ midiQueueReadPos = -1 =>
           midiQueueWritePos' = midiQueueWritePos + Len(m)
      /\ midiQueue' \in [Slots -> Byte]
  BY <1>0, QueueRing
<1>2. queued' \in Seq(Byte) /\ Len(queued') = Len(queued) + Len(m)
  BY <1>0 DEF Queue, TypeOK
<1>3. UNCHANGED midiQueueReadPos /\ midiOutPending' = TRUE
  BY DEF Queue
<1>4. TypeOK'
  BY <1>0, <1>1, <1>2, <1>3 DEF TypeOK, Slots
<1>5. Boot'
  BY <1>0, <1>1, <1>2, <1>3 DEF Boot
<1>6. PendingWhenWaiting'
  BY <1>3 DEF PendingWhenWaiting
<1> QED
  BY <1>4, <1>5, <1>6 DEF IInv

\* What may be offered at boot has room.
LEMMA OfferRoom ==
  ASSUME BootQueued < kMidiQueueSize, IInv, NEW m \in Message, MayOffer(m),
         midiQueueReadPos = -1
  PROVE  /\ midiQueueWritePos + Len(m) < kMidiQueueSize
         /\ Len(queued) + Len(m) <= BootQueued
<1>1. m \in Seq(Byte) /\ Len(m) \in 1 .. 3
  BY PieceType DEF Piece
<1>2. Len(queued) \in Nat /\ refused \in Nat
  BY DEF IInv, TypeOK
<1>3. Len(queued) + refused + Len(m) <= BootQueued
  BY DEF MayOffer, Offered
<1>4. midiQueueWritePos = Len(queued)
  BY DEF IInv, Boot
<1> QED
  BY <1>1, <1>2, <1>3, <1>4

\* A caller of QueueMIDI1, 2 or 3.
LEMMA InvOffer ==
  ASSUME BootQueued < kMidiQueueSize, IInv, NEW m \in Message, Offer(m)
  PROVE  IInv'
<1>1. m \in Seq(Byte) /\ Len(m) \in 1 .. 3
  BY PieceType DEF Piece
<1>2. MayOffer(m) /\ pieces = << >> /\ UNCHANGED <<pieces, tx, line>>
  BY DEF Offer, MayOffer
<1>3. ToGo' = 0 /\ InPieces' /\ pieces' \in Seq(Piece)
  BY <1>2 DEF ToGo, InPieces
<1>4. TypeOK /\ Boot /\ PendingWhenWaiting
  BY DEF IInv
<1>5. CASE Queue(m) /\ UNCHANGED refused
  <2>1. midiQueueReadPos = -1 => Len(queued) + Len(m) + ToGo' <= BootQueued
    BY <1>1, <1>2, <1>3, <1>4, OfferRoom DEF TypeOK
  <2> QED
    BY <1>1, <1>2, <1>3, <1>5, <2>1, OfferRoom, InvQueue
<1>6. CASE NoRoom(m) /\ refused' = refused + 1
  <2>1. midiQueue' \in [Slots -> Byte]
    BY <1>1, <1>2, <1>4, <1>6, OfferRoom, NoRoomRing
  <2>2. /\ UNCHANGED <<midiQueueReadPos, midiQueueWritePos, midiOutPending, queued>>
        /\ UNCHANGED <<pieces, tx, line>> /\ refused' \in Nat
    BY <1>2, <1>4, <1>6 DEF NoRoom, TypeOK
  <2>3. TypeOK'
    BY <1>4, <2>1, <2>2 DEF TypeOK, Slots
  <2>4. Boot' /\ PendingWhenWaiting'
    BY <1>4, <2>2 DEF Boot, PendingWhenWaiting, Occupied, ToGo
  <2> QED
    BY <1>3, <2>3, <2>4 DEF IInv
<1> QED
  BY <1>5, <1>6 DEF Offer

\* A caller that insists counts as having queued all of its message.
LEMMA InvInsist ==
  ASSUME BootQueued < kMidiQueueSize, IInv, NEW m \in Message, Insist(m)
  PROVE  IInv'
<1>1. m \in Seq(Byte) /\ Len(m) \in 1 .. 3 /\ m \in Piece
  BY PieceType DEF Piece
<1>2. /\ MayOffer(m)
      /\ UNCHANGED <<ring, midiOutPending, tx, line, queued, refused>>
  BY DEF Insist
<1>3. pieces' \in Seq(Piece) /\ ToGo' = Len(m) /\ InPieces'
  <2>1. CASE pieces' = <<m>>
    BY <1>1, <2>1 DEF ToGo, InPieces
  <2>2. CASE pieces' = [i \in 1 .. Len(m) |-> <<m[i]>>]
    <3>1. Len(pieces') = Len(m) /\ \A i \in 1 .. Len(m) : pieces'[i] = <<m[i]>>
      BY <1>1, <2>2
    <3>2. \A i \in 1 .. Len(m) : m[i] \in Byte
      BY <1>1
    <3>3. \A i \in 1 .. Len(m) : Len(pieces'[i]) = 1 /\ pieces'[i] \in Piece
      <4> SUFFICES ASSUME NEW i \in 1 .. Len(m)
                   PROVE  Len(pieces'[i]) = 1 /\ pieces'[i] \in Piece
        OBVIOUS
      <4>1. pieces'[i] = <<m[i]>> /\ m[i] \in Byte
        BY <3>1, <3>2
      <4>2. pieces'[i] \in Piece
        BY <4>1, Zenon DEF Piece
      <4>3. Len(<<m[i]>>) = 1
        OBVIOUS
      <4> QED
        BY <4>1, <4>2, <4>3
    <3>4. pieces' \in Seq(Piece)
      BY <1>1, <2>2, <3>1, <3>3
    <3>5. InPieces'
      BY <3>1, <3>3 DEF InPieces
    <3>6. 1 \in 1 .. Len(m)
      BY <1>1
    <3>7. Len(pieces'[1]) = 1
      BY <3>3, <3>6
    <3>8. ToGo' = Len(m)
      BY <3>1, <3>7 DEF ToGo
    <3> QED
      BY <3>4, <3>5, <3>8
  <2> QED
    BY <2>1, <2>2 DEF Insist
<1>4. TypeOK'
  BY <1>2, <1>3 DEF IInv, TypeOK, ring, Slots
<1>5. Boot'
  BY <1>2, <1>3, OfferRoom DEF IInv, Boot, ring
<1>6. PendingWhenWaiting'
  BY <1>2 DEF IInv, PendingWhenWaiting, Occupied, ring
<1> QED
  BY <1>3, <1>4, <1>5, <1>6 DEF IInv

\* A piece to be queued has room at boot.
LEMMA PieceRoom ==
  ASSUME BootQueued < kMidiQueueSize, IInv, PieceQueued
  PROVE  LET m == Head(pieces) IN
         /\ m \in Piece /\ m \in Seq(Byte) /\ Len(m) \in 1 .. 3
         /\ pieces' \in Seq(Piece) /\ InPieces'
         /\ midiQueueReadPos = -1 =>
              /\ midiQueueWritePos + Len(m) < kMidiQueueSize
              /\ Len(queued) + Len(m) + ToGo' <= BootQueued
<1> DEFINE m == Head(pieces)
<1>1. /\ m \in Piece /\ pieces' \in Seq(Piece) /\ InPieces'
      /\ ToGo \in Nat /\ ToGo' = ToGo - Len(m) /\ ToGo' >= 0
  BY ToGoShrinks DEF IInv, PieceQueued
<1> HIDE DEF m
<1>2. m \in Seq(Byte) /\ Len(m) \in 1 .. 3
  BY <1>1, PieceType
<1>3. midiQueueReadPos = -1 => /\ midiQueueWritePos = Len(queued)
                               /\ Len(queued) + ToGo <= BootQueued
  BY DEF IInv, Boot
<1>4. Len(queued) \in Nat
  BY DEF IInv, TypeOK
<1>5. midiQueueReadPos = -1 => /\ midiQueueWritePos + Len(m) < kMidiQueueSize
                               /\ Len(queued) + Len(m) + ToGo' <= BootQueued
  BY <1>1, <1>2, <1>3, <1>4
<1> QED
  BY <1>1, <1>2, <1>5 DEF m

LEMMA InvPieceQueued ==
  ASSUME BootQueued < kMidiQueueSize, IInv, PieceQueued
  PROVE  IInv'
BY PieceRoom, InvQueue DEF PieceQueued

\* HandleMIDIOut, whoever calls it.
LEMMA InvHandleMIDIOut ==
  ASSUME IInv, HandleMIDIOut, UNCHANGED <<pieces, line, queued, refused>>
  PROVE  IInv'
<1>1. TypeOK /\ Boot /\ PendingWhenWaiting /\ InPieces
  BY DEF IInv
<1>2. Occupied \in 0 .. kMidiQueueSize - 1
  BY <1>1, OccupiedType
<1>3. InPieces' /\ ToGo' = ToGo
  BY <1>1 DEF InPieces, ToGo
<1>4. CASE Empty
  <2>1. midiOutPending' = FALSE /\ UNCHANGED <<ring, tx>>
    BY <1>4 DEF HandleMIDIOut
  <2>2. Occupied' = 0
    BY <1>1, <1>4, <2>1, HandOverCount DEF Occupied, ring
  <2>3. TypeOK'
    BY <1>1, <2>1 DEF TypeOK, ring, Slots
  <2>4. Boot'
    BY <1>1, <1>3, <2>1 DEF Boot, ring
  <2> QED
    BY <1>3, <2>2, <2>3, <2>4 DEF IInv, PendingWhenWaiting
<1>5. CASE ~Empty
  <2>1. /\ midiQueueReadPos' = Following(midiQueueReadPos)
        /\ tx' = Append(tx, midiQueue[Following(midiQueueReadPos)])
        /\ UNCHANGED <<midiQueue, midiQueueWritePos, midiOutPending>>
    BY <1>5 DEF HandleMIDIOut
  <2>2. Following(midiQueueReadPos) \in Slots
    BY <1>1, HandOverCount
  <2>3. tx' \in Seq(Byte)
    BY <1>1, <2>1, <2>2 DEF TypeOK
  <2>4. TypeOK'
    BY <1>1, <2>1, <2>2, <2>3 DEF TypeOK, Slots
  <2>5. Boot'
    BY <2>1, <2>2 DEF Boot, Slots
  <2>6. Occupied > 0
    BY <1>1, <1>2, <1>5, HandOverCount
  <2>7. midiOutPending'
    BY <1>1, <2>1, <2>6 DEF PendingWhenWaiting
  <2> QED
    BY <1>3, <2>4, <2>5, <2>7 DEF IInv, PendingWhenWaiting
<1> QED
  BY <1>4, <1>5

\* The transmitter touches neither the queue nor its callers.
LEMMA InvSent ==
  ASSUME IInv, Sent
  PROVE  IInv'
<1>1. TypeOK'
  BY DEF IInv, TypeOK, Sent, ring, Slots
<1> QED
  BY <1>1 DEF IInv, Sent, ring, Boot, ToGo, InPieces, PendingWhenWaiting, Occupied

LEMMA InvNext ==
  ASSUME BootQueued < kMidiQueueSize, IInv, [Next]_vars
  PROVE  IInv'
<1>1. CASE \E m \in Message : Offer(m) \/ Insist(m)
  BY <1>1, InvOffer, InvInsist
<1>2. CASE PieceQueued
  BY <1>2, InvPieceQueued
<1>3. CASE MakeRoom \/ Service
  BY <1>3, InvHandleMIDIOut DEF MakeRoom, Service
<1>4. CASE Sent
  BY <1>4, InvSent
<1>5. CASE UNCHANGED vars
  BY <1>5 DEF vars, ring, IInv, TypeOK, InPieces, Boot, ToGo,
              PendingWhenWaiting, Occupied
<1> QED
  BY <1>1, <1>2, <1>3, <1>4, <1>5 DEF Next

LEMMA Invariant == ASSUME BootQueued < kMidiQueueSize PROVE Spec => []IInv
<1>1. IInv /\ [Next]_vars => IInv'
  BY InvNext
<1> QED
  BY InvInit, <1>1, PTL DEF Spec

\* For every size of the queue bytes never wait in it with nobody told to
\* look there.
THEOREM NeverForgotten ==
  ASSUME BootQueued < kMidiQueueSize
  PROVE  Spec => []PendingWhenWaiting
<1>1. IInv => PendingWhenWaiting
  BY DEF IInv
<1> QED
  BY Invariant, <1>1, PTL

\* The positions stay in the queue and every byte queued is one of a message.
THEOREM TypeCorrect == ASSUME BootQueued < kMidiQueueSize PROVE Spec => []TypeOK
<1>1. IInv => TypeOK
  BY DEF IInv
<1> QED
  BY Invariant, <1>1, PTL
-----------------------------------------------------------------------------
(* The queue implements the bounded line. *)

\* Three ways to recognise a sequence by its elements.
LEMMA ConcatByIndex ==
  ASSUME NEW S, NEW s \in Seq(S), NEW t \in Seq(S), NEW u \in Seq(S),
         Len(u) = Len(s) + Len(t), \A i \in 1 .. Len(s) : u[i] = s[i],
         \A i \in 1 .. Len(t) : u[Len(s) + i] = t[i]
  PROVE  u = s \o t
<1>1. ASSUME NEW i \in 1 .. Len(u) PROVE u[i] = (s \o t)[i]
  <2>1. CASE i <= Len(s)
    BY <2>1
  <2>2. CASE i > Len(s)
    <3>1. i - Len(s) \in 1 .. Len(t) /\ Len(s) + (i - Len(s)) = i
      BY <2>2
    <3>2. u[i] = t[i - Len(s)]
      BY <3>1
    <3> QED
      BY <2>2, <3>1, <3>2
  <2> QED
    BY <2>1, <2>2
<1>2. s \o t \in Seq(S) /\ Len(s \o t) = Len(u)
  OBVIOUS
<1> QED
  BY <1>1, <1>2

LEMMA TailByIndex ==
  ASSUME NEW S, NEW s \in Seq(S), NEW t \in Seq(S),
         Len(s) > 0, Len(t) = Len(s) - 1, \A i \in 1 .. Len(t) : t[i] = s[i + 1]
  PROVE  t = Tail(s)
OBVIOUS

LEMMA MoveHead ==
  ASSUME NEW S, NEW s \in Seq(S), NEW t \in Seq(S), t # << >>
  PROVE  Append(s, Head(t)) \o Tail(t) = s \o t
OBVIOUS

LEMMA AppendConcat ==
  ASSUME NEW S, NEW s \in Seq(S), NEW t \in Seq(S), NEW b \in S
  PROVE  s \o Append(t, b) = Append(s \o t, b)
OBVIOUS

\* The line the queue stands for.
IsLine ==
  /\ Occupied \in Nat
  /\ Waiting \in Seq(Byte) /\ Len(Waiting) = Occupied
  /\ \A i \in 1 .. Occupied : Waiting[i] = midiQueue[Slot(i)]

LEMMA WaitingType == TypeOK => IsLine
<1> SUFFICES ASSUME TypeOK PROVE IsLine
  OBVIOUS
<1>1. Occupied \in 0 .. kMidiQueueSize - 1
  BY OccupiedType
<1>2. ASSUME NEW i \in 1 .. Occupied PROVE midiQueue[Slot(i)] \in Byte
  <2>1. i \in 1 .. kMidiQueueSize - 1
    BY <1>1
  <2> QED
    BY <2>1, SlotsDiffer DEF TypeOK
<1> QED
  BY <1>1, <1>2 DEF Waiting, IsLine

LEMMA WaitingTypeNext == TypeOK' => IsLine'
BY WaitingType, PTL

\* The line is the ring as far as the count goes.
LEMMA WaitingSame ==
  ASSUME TypeOK, UNCHANGED <<midiQueueReadPos, midiQueueWritePos>>,
         \A i \in 1 .. Occupied : midiQueue'[Slot(i)] = midiQueue[Slot(i)]
  PROVE  Waiting' = Waiting
<1>1. Occupied' = Occupied /\ \A i \in 1 .. Occupied : Slot(i)' = Slot(i)
  BY DEF Occupied, Slot
<1> QED
  BY <1>1 DEF Waiting

\* A message queued joins the line as a whole.
LEMMA QueueJoins ==
  ASSUME IInv, IInv', NEW m \in Piece, Queue(m), UNCHANGED <<tx, line, refused>>,
         midiQueueReadPos = -1 => midiQueueWritePos + Len(m) < kMidiQueueSize
  PROVE  Fifo!Join(m)
<1>1. m \in Seq(Byte) /\ Len(m) \in 1 .. 3
  BY PieceType
<1>2. TypeOK /\ TypeOK'
  BY DEF IInv
<1>3. /\ Occupied + Len(m) <= kMidiQueueSize - 1
      /\ Occupied' = Occupied + Len(m)
      /\ \A i \in 1 .. Occupied : midiQueue'[Slot(i)] = midiQueue[Slot(i)]
      /\ \A i \in 1 .. Len(m) : midiQueue'[Slot(Occupied + i)] = m[i]
  BY <1>1, <1>2, QueueRing
<1>4. /\ Waiting \in Seq(Byte) /\ Len(Waiting) = Occupied
      /\ \A i \in 1 .. Occupied : Waiting[i] = midiQueue[Slot(i)]
  BY <1>2, WaitingType DEF IsLine
<1>5. /\ Waiting' \in Seq(Byte) /\ Len(Waiting') = Occupied'
      /\ \A i \in 1 .. Occupied' : Waiting'[i] = midiQueue'[Slot(i)]
  <2>1. \A i \in Nat : Slot(i)' = Slot(i)
    BY DEF Slot, Queue
  <2>2. /\ Occupied' \in Nat
        /\ Waiting' \in Seq(Byte) /\ Len(Waiting') = Occupied'
        /\ \A i \in 1 .. Occupied' : Waiting'[i] = midiQueue'[Slot(i)']
    BY <1>2, WaitingTypeNext DEF IsLine
  <2> QED
    BY <2>1, <2>2
<1>6. Waiting' = Waiting \o m
  <2>1. Occupied \in Nat
    BY <1>2, OccupiedType
  <2>2. ASSUME NEW l \in Nat, Occupied' = Occupied + l
        PROVE  /\ \A i \in 1 .. Occupied : i \in 1 .. Occupied'
               /\ \A i \in 1 .. l : Occupied + i \in 1 .. Occupied'
    BY <2>1, <2>2
  <2>3. Len(m) \in Nat
    BY <1>1
  <2>4. /\ \A i \in 1 .. Occupied : i \in 1 .. Occupied'
        /\ \A i \in 1 .. Len(m) : Occupied + i \in 1 .. Occupied'
    BY <1>3, <2>2, <2>3
  <2>5. \A i \in 1 .. Len(Waiting) : Waiting'[i] = Waiting[i]
    BY <1>3, <1>4, <1>5, <2>4
  <2>6. \A i \in 1 .. Len(m) : Waiting'[Len(Waiting) + i] = m[i]
    BY <1>3, <1>4, <1>5, <2>4
  <2>7. Len(Waiting') = Len(Waiting) + Len(m)
    BY <1>3, <1>4, <1>5
  <2> QED
    BY <1>1, <1>4, <1>5, <2>5, <2>6, <2>7, ConcatByIndex
<1> QED
  BY <1>3, <1>4, <1>6 DEF Fifo!Join

\* A message is refused only when it really has no room, and the bytes it has
\* written do not touch the line.
LEMMA NoRoomRefuses ==
  ASSUME IInv, NEW m \in Piece, NoRoom(m), refused' = refused + 1,
         UNCHANGED <<tx, line>>,
         midiQueueReadPos = -1 => midiQueueWritePos + Len(m) < kMidiQueueSize
  PROVE  Fifo!Refuse(m)
<1>1. m \in Seq(Byte) /\ Len(m) \in 1 .. 3
  BY PieceType
<1>2. TypeOK
  BY DEF IInv
<1>3. /\ Occupied + Len(m) > kMidiQueueSize - 1
      /\ \A i \in 1 .. Occupied : midiQueue'[Slot(i)] = midiQueue[Slot(i)]
  BY <1>1, <1>2, NoRoomRing
<1>4. Len(Waiting) = Occupied
  BY <1>2, WaitingType DEF IsLine
<1>5. Waiting' = Waiting
  BY <1>2, <1>3, WaitingSame DEF NoRoom
<1> QED
  BY <1>3, <1>4, <1>5 DEF Fifo!Refuse

\* The byte handed over is the head of the line.
LEMMA HandOverTakes ==
  ASSUME IInv, HandleMIDIOut, UNCHANGED <<line, refused>>
  PROVE  Fifo!Take \/ UNCHANGED Fifo!vars
<1>1. TypeOK
  BY DEF IInv
<1>2. Occupied \in 0 .. kMidiQueueSize - 1
  BY <1>1, OccupiedType
<1>3. /\ Waiting \in Seq(Byte) /\ Len(Waiting) = Occupied
      /\ \A i \in 1 .. Occupied : Waiting[i] = midiQueue[Slot(i)]
  BY <1>1, WaitingType DEF IsLine
<1>4. CASE Empty
  <2>1. UNCHANGED <<ring, tx>>
    BY <1>4 DEF HandleMIDIOut
  <2>2. Waiting' = Waiting
    BY <1>1, <2>1, WaitingSame DEF ring
  <2> QED
    BY <2>1, <2>2 DEF Fifo!vars
<1>5. CASE ~Empty
  <2>1. /\ midiQueueReadPos' = Following(midiQueueReadPos)
        /\ tx' = Append(tx, midiQueue[Following(midiQueueReadPos)])
        /\ UNCHANGED <<midiQueue, midiQueueWritePos>>
    BY <1>5 DEF HandleMIDIOut
  <2>2. Occupied > 0 /\ Following(midiQueueReadPos) = Slot(1)
    BY <1>1, <1>2, <1>5, HandOverCount
  <2>3. /\ Occupied' = Occupied - 1
        /\ \A i \in 1 .. Occupied - 1 : Slot(i)' = Slot(i + 1)
    BY <1>1, <2>1, <2>2, HandOverCount
  <2>4. Waiting # << >> /\ Head(Waiting) = midiQueue[Slot(1)]
    BY <1>2, <1>3, <2>2
  <2>5. Waiting' = Tail(Waiting)
    <3>1. Waiting' = [i \in 1 .. Occupied - 1 |-> midiQueue[Slot(i + 1)]]
      BY <2>1, <2>3 DEF Waiting
    <3>2. \A i \in 1 .. Occupied - 1 :
            Waiting[i + 1] = midiQueue[Slot(i + 1)] /\ Waiting[i + 1] \in Byte
      BY <1>2, <1>3
    <3>3. Waiting' \in Seq(Byte) /\ Len(Waiting') = Occupied - 1
      BY <1>2, <2>2, <3>1, <3>2
    <3>4. \A i \in 1 .. Len(Waiting') : Waiting'[i] = Waiting[i + 1]
      BY <3>1, <3>2, <3>3
    <3> QED
      BY <1>3, <2>2, <3>3, <3>4, TailByIndex
  <2>6. (line \o tx)' = Append(line \o tx, Head(Waiting))
    <3>1. Head(Waiting) \in Byte
      BY <1>3, <2>4
    <3>2. line' = line /\ tx' = Append(tx, Head(Waiting))
      BY <2>1, <2>2, <2>4
    <3>3. line \in Seq(Byte) /\ tx \in Seq(Byte)
      BY <1>1 DEF TypeOK
    <3> QED
      BY <3>1, <3>2, <3>3, AppendConcat
  <2> QED
    BY <2>4, <2>5, <2>6 DEF Fifo!Take
<1> QED
  BY <1>4, <1>5

\* A byte sent was taken already.
LEMMA SentSame ==
  ASSUME IInv, Sent
  PROVE  UNCHANGED Fifo!vars
<1>1. line \in Seq(Byte) /\ tx \in Seq(Byte) /\ TypeOK
  BY DEF IInv, TypeOK
<1>2. line' \o tx' = line \o tx
  BY <1>1, MoveHead DEF Sent
<1>3. Waiting' = Waiting
  BY <1>1, WaitingSame DEF Sent, ring
<1> QED
  BY <1>2, <1>3 DEF Fifo!vars, Sent

LEMMA InsistSame ==
  ASSUME IInv, UNCHANGED <<ring, tx, line, refused>>
  PROVE  UNCHANGED Fifo!vars
<1>1. Waiting' = Waiting
  BY WaitingSame DEF IInv, ring
<1> QED
  BY <1>1 DEF Fifo!vars

\* For every size of the queue, messages are queued whole and in order, or
\* refused when they have no room, and their bytes are sent in that order: the
\* queue, its callers and the service implement the bounded line.
THEOREM QueueImplementsFifo ==
  ASSUME BootQueued < kMidiQueueSize
  PROVE  Spec => ImplementsFifo
<1>1. Init => Fifo!Init
  <2> SUFFICES ASSUME Init PROVE Fifo!Init
    OBVIOUS
  <2>1. Occupied = 0
    BY DEF Init, Occupied
  <2>2. Waiting = << >>
    BY <2>1 DEF Waiting
  <2>3. line \o tx = << >>
    BY DEF Init
  <2> QED
    BY <2>2, <2>3 DEF Fifo!Init, Init
<1>2. IInv /\ [Next]_vars => [Fifo!Next]_(Fifo!vars)
  <2> SUFFICES ASSUME IInv, [Next]_vars PROVE [Fifo!Next]_(Fifo!vars)
    OBVIOUS
  <2>0. IInv'
    BY InvNext
  <2>1. ASSUME NEW m \in Message, Offer(m) PROVE Fifo!Next
    <3>1. m \in Piece
      BY DEF Piece
    <3>2. midiQueueReadPos = -1 => midiQueueWritePos + Len(m) < kMidiQueueSize
      BY <2>1, OfferRoom DEF Offer
    <3>3. Fifo!Join(m) \/ Fifo!Refuse(m)
      BY <2>0, <2>1, <3>1, <3>2, QueueJoins, NoRoomRefuses DEF Offer
    <3> QED
      BY <3>1, <3>3 DEF Fifo!Next, Piece
  <2>2. ASSUME NEW m \in Message, Insist(m) PROVE UNCHANGED Fifo!vars
    BY <2>2, InsistSame DEF Insist
  <2>3. CASE PieceQueued
    <3>1. Fifo!Join(Head(pieces)) /\ Head(pieces) \in Piece
      BY <2>0, <2>3, PieceRoom, QueueJoins DEF PieceQueued
    <3> QED
      BY <3>1 DEF Fifo!Next, Piece
  <2>4. CASE MakeRoom \/ Service
    BY <2>4, HandOverTakes DEF MakeRoom, Service, Fifo!Next
  <2>5. CASE Sent
    BY <2>5, SentSame
  <2>6. CASE UNCHANGED vars
    BY <2>6, InsistSame DEF vars
  <2> QED
    BY <2>1, <2>2, <2>3, <2>4, <2>5, <2>6 DEF Next
<1> QED
  BY Invariant, <1>1, <1>2, PTL DEF Spec, ImplementsFifo, Fifo!Spec
=============================================================================

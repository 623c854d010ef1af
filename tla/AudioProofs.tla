---------------------------- MODULE AudioProofs ----------------------------
(***************************************************************************)
(* Proofs about RxQueue, for every ring size and every set of bytes, and   *)
(* about the audio service (Audio), every step of which is a step of the   *)
(* ring's loop, of its handler, or none of its business.  All that is said *)
(* of the ring but its typing rests on one assumption, that fewer bytes    *)
(* arrive before the first one is taken than the ring has slots: the rings *)
(* are declared with a read cursor of -1, which the overflow test can      *)
(* never meet.  The service's phase does not depend on the ring; that only *)
(* hold-ups lose bytes needs a ring that takes longer to fill than four    *)
(* half buffers last.                                                      *)
(***************************************************************************)
EXTENDS Audio, TLAPS

\* Between its steps FlushMIDIRx's local agrees with the read cursor, and the
\* byte it has seen waiting cannot go away.
Claim ==
  /\ pc = "publish" => nextRead = Advance(rxRead) /\ Occupied > 0
  /\ pc = "fetch" => nextRead = rxRead /\ Taken > 0

\* The slots ahead of the read cursor hold the accepted bytes not yet taken.
Unread == \A i \in 1 .. Occupied : rxQueue[Slot(i)] = accepted[Taken + i]

\* InOrder, byte by byte.
Agreement ==
  /\ Len(delivered) <= Len(accepted)
  /\ \A k \in 1 .. Len(delivered) : delivered[k] = accepted[k]

\* The inductive invariant.  NothingVanishes needs Claim (Publish relies on a
\* comparison made earlier), SlotStable and Agreement need Unread.
IInv ==
  /\ TypeOK
  /\ NothingVanishes
  /\ Claim
  /\ Unread
  /\ SlotStable
  /\ Agreement

USE QueueSizeAssumption, ByteAssumption, BoundAssumption
-----------------------------------------------------------------------------
(* The ring's arithmetic. *)

\* A cursor advances within the slots.
LEMMA AdvanceType ==
  ASSUME NEW i \in -1 .. QueueSize - 1
  PROVE  Advance(i) \in Slots
BY DEF Advance, Slots

\* The cursors start in range.
LEMMA TypeInit == Init => TypeOK
BY DEF Init, TypeOK, Slots

\* Every step keeps the types.
LEMMA TypeNext == ASSUME TypeOK, [Next]_vars PROVE TypeOK'
<1>1. ASSUME NEW b \in Byte, RxInterrupt(b) PROVE TypeOK'
  <2>1. CASE Overflow
    BY <1>1, <2>1 DEF RxInterrupt, Overflow, TypeOK, ring
  <2>2. CASE Store(b)
    <3>1. rxWrite' \in Slots
      BY <2>2 DEF Store, TypeOK, Advance, Slots
    <3>2. rxQueue' \in [Slots -> Byte]
      BY <2>2 DEF Store, TypeOK
    <3>3. accepted' \in Seq(Byte)
      BY <2>2 DEF Store, TypeOK
    <3> QED
      BY <1>1, <2>2, <3>1, <3>2, <3>3 DEF RxInterrupt, Store, TypeOK
  <2> QED
    BY <1>1, <2>1, <2>2 DEF RxInterrupt
<1>2. CASE Check
  BY <1>2, AdvanceType DEF Check, TypeOK, ring
<1>3. CASE Publish
  BY <1>3 DEF Publish, TypeOK, Slots
<1>4. CASE Fetch
  BY <1>4 DEF Fetch, TypeOK, ring
<1>5. CASE UNCHANGED vars
  BY <1>5 DEF vars, TypeOK
<1> QED
  BY <1>1, <1>2, <1>3, <1>4, <1>5 DEF Next

\* The type invariant: the cursors stay inside the array whatever arrives and
\* whenever, the boot case included.
THEOREM TypeCorrect == Spec => []TypeOK
<1>1. Init => TypeOK
  BY TypeInit
<1>2. TypeOK /\ [Next]_vars => TypeOK'
  BY TypeNext
<1> QED
  BY <1>1, <1>2, PTL DEF Spec
-----------------------------------------------------------------------------
(* How the cursors' count moves. *)

\* Storing a byte at a write cursor that has not met the read cursor adds one
\* to the count, puts the byte behind the others, and touches no other.
LEMMA StoreCount ==
  ASSUME TypeOK, NEW b \in Byte, Store(b),
         rxRead = -1 => rxWrite + 1 < QueueSize
  PROVE  /\ Occupied' = Occupied + 1
         /\ Slot(Occupied + 1) = rxWrite
         /\ \A i \in 1 .. Occupied : Slot(i) \in Slots /\ Slot(i) # rxWrite
BY DEF TypeOK, Store, Advance, Occupied, Slot, Slots

\* Publishing the next read cursor takes one from the count, and the bytes
\* behind it move up one place.
LEMMA PublishCount ==
  ASSUME TypeOK, Claim, Publish
  PROVE  /\ Occupied' = Occupied - 1
         /\ Slot(1) = nextRead
         /\ \A i \in 1 .. Occupied' : Slot(i)' = Slot(i + 1)
BY DEF TypeOK, Claim, Publish, Advance, Occupied, Slot, Slots

\* The count is a number of slots, short of all of them.
LEMMA OccupiedType ==
  ASSUME TypeOK
  PROVE  Occupied \in 0 .. QueueSize /\ Taken \in Nat
BY DEF TypeOK, Occupied, Slots, Taken

\* Before the first byte is taken the ring still has a slot to spare.
LEMMA BootRoom ==
  ASSUME BootRx < QueueSize, IInv, ByteArrives, rxRead = -1
  PROVE  rxWrite + 1 < QueueSize
<1>1. Occupied = rxWrite
  <2>1. rxWrite \in Nat
    BY DEF IInv, TypeOK, Slots
  <2>2. rxWrite > rxRead
    BY <2>1
  <2>3. Occupied = rxWrite - rxRead - 1
    BY <2>2 DEF Occupied
  <2> QED
    BY <2>1, <2>3
<1>2. Taken \in Nat
  BY OccupiedType DEF IInv
<1>3. Len(accepted) < BootRx
  BY DEF ByteArrives
<1> QED
  BY <1>1, <1>2, <1>3 DEF IInv, NothingVanishes, TypeOK, Slots

LEMMA InvInit == Init => IInv
BY DEF Init, IInv, TypeOK, Slots, NothingVanishes, Taken, Occupied, Claim,
       Unread, SlotStable, Agreement
-----------------------------------------------------------------------------
(* One lemma per action: the inductive invariant is preserved. *)

\* The overflow branch touches neither the ring nor the histories.
LEMMA InvOverflow ==
  ASSUME IInv, NEW b \in Byte, RxInterrupt(b), Overflow
  PROVE  IInv'
<1>1. TypeOK'
  BY DEF IInv, TypeOK, RxInterrupt, Overflow, ring
<1>2. /\ UNCHANGED <<rxQueue, rxRead, rxWrite, pc, nextRead>>
      /\ UNCHANGED <<accepted, delivered>>
  BY DEF RxInterrupt, Overflow, ring
<1> QED
  BY <1>1, <1>2 DEF IInv, NothingVanishes, Taken, Occupied, Claim, Advance,
                    Unread, Slot, SlotStable, Agreement

\* A byte stored between any two of FlushMIDIRx's steps joins the line behind
\* the others and leaves the byte in hand alone.
LEMMA InvStore ==
  ASSUME BootRx < QueueSize, IInv, NEW b \in Byte, RxInterrupt(b), Store(b)
  PROVE  IInv'
<1> USE DEF IInv
<1>1. TypeOK'
  <2>1. rxWrite' \in Slots
    BY DEF Store, TypeOK, Advance, Slots
  <2>2. rxQueue' \in [Slots -> Byte]
    BY DEF Store, TypeOK
  <2>3. accepted' \in Seq(Byte)
    BY DEF Store, TypeOK
  <2> QED
    BY <2>1, <2>2, <2>3 DEF RxInterrupt, Store, TypeOK
<1>2. Occupied \in 0 .. QueueSize /\ Taken \in Nat
  BY OccupiedType
<1>3. rxRead = -1 => rxWrite + 1 < QueueSize
  BY BootRoom DEF RxInterrupt
<1>4. /\ Occupied' = Occupied + 1
      /\ Slot(Occupied + 1) = rxWrite
      /\ \A i \in 1 .. Occupied : Slot(i) \in Slots /\ Slot(i) # rxWrite
  BY <1>3, StoreCount
<1>5. Taken' = Taken
  BY DEF Taken, RxInterrupt
<1>6. /\ accepted' = Append(accepted, b)
      /\ Len(accepted') = Len(accepted) + 1
      /\ accepted'[Len(accepted) + 1] = b
      /\ \A k \in 1 .. Len(accepted) : accepted'[k] = accepted[k]
  BY DEF Store, TypeOK
<1>7. NothingVanishes'
  BY <1>2, <1>4, <1>5, <1>6 DEF NothingVanishes, TypeOK
<1>8. Claim'
  BY <1>2, <1>4, <1>5 DEF Claim, RxInterrupt, Store, Advance
<1>9. Unread'
  <2> SUFFICES ASSUME NEW i \in 1 .. Occupied + 1
               PROVE  rxQueue'[Slot(i)] = accepted'[Taken + i]
    BY <1>4, <1>5 DEF Unread, Slot, Store
  <2>1. CASE i = Occupied + 1
    BY <2>1, <1>1, <1>2, <1>4, <1>6 DEF NothingVanishes, Store, TypeOK
  <2>2. CASE i \in 1 .. Occupied
    <3>1. rxQueue'[Slot(i)] = rxQueue[Slot(i)]
      BY <2>2, <1>4 DEF Store, TypeOK
    <3>2. Taken + i \in 1 .. Len(accepted)
      BY <2>2, <1>2 DEF NothingVanishes, TypeOK
    <3> QED
      BY <3>1, <3>2, <2>2, <1>6 DEF Unread
  <2> QED
    BY <2>1, <2>2, <1>2
<1>10. SlotStable'
  <2> SUFFICES ASSUME pc = "fetch"
               PROVE  rxQueue'[nextRead] = accepted'[Taken]
    BY <1>5 DEF SlotStable, RxInterrupt
  <2>1. nextRead # rxWrite
    BY DEF Claim, Store
  <2>2. Taken \in 1 .. Len(accepted)
    BY <1>2 DEF Claim, NothingVanishes, TypeOK
  <2> QED
    BY <2>1, <2>2, <1>6 DEF SlotStable, Store, TypeOK
<1>11. Agreement'
  BY <1>6 DEF Agreement, RxInterrupt, TypeOK
<1> QED
  BY <1>1, <1>7, <1>8, <1>9, <1>10, <1>11

\* Seeing a byte waiting is remembered in nextRead.
LEMMA InvCheck ==
  ASSUME IInv, Check
  PROVE  IInv'
<1> USE DEF IInv
<1>1. TypeOK'
  BY AdvanceType DEF Check, TypeOK, ring
<1>2. UNCHANGED <<rxQueue, rxRead, rxWrite, accepted, delivered>>
  BY DEF Check, ring
<1>3. Taken' = Taken /\ Occupied' = Occupied
  BY <1>2 DEF Check, Taken, Occupied
<1>4. Occupied > 0
  BY DEF Check, Occupied, Advance, TypeOK, Slots
<1>5. Claim'
  BY <1>2, <1>3, <1>4 DEF Claim, Check, Advance
<1>6. Unread'
  BY <1>2, <1>3 DEF Unread, Slot
<1> QED
  BY <1>1, <1>2, <1>3, <1>5, <1>6 DEF NothingVanishes, SlotStable, Agreement, Check

\* Releasing the slot takes its byte from the line into FlushMIDIRx's hand.
LEMMA InvPublish ==
  ASSUME IInv, Publish
  PROVE  IInv'
<1> USE DEF IInv
<1>1. TypeOK'
  BY DEF Publish, TypeOK, Slots
<1>2. Occupied \in 0 .. QueueSize /\ Taken \in Nat
  BY OccupiedType
<1>3. /\ Occupied' = Occupied - 1
      /\ Slot(1) = nextRead
      /\ \A i \in 1 .. Occupied' : Slot(i)' = Slot(i + 1)
  BY PublishCount
<1>4. Taken' = Taken + 1
  BY DEF Taken, Publish, TypeOK
<1>5. Occupied > 0
  BY DEF Claim, Publish
<1>6. NothingVanishes'
  BY <1>2, <1>3, <1>4 DEF NothingVanishes, Publish, TypeOK
<1>7. Claim'
  BY <1>2, <1>4 DEF Claim, Publish
<1>8. Unread'
  <2> SUFFICES ASSUME NEW i \in 1 .. Occupied - 1
               PROVE  rxQueue[Slot(i + 1)] = accepted[Taken + 1 + i]
    BY <1>3, <1>4 DEF Unread, Publish
  <2> QED
    BY <1>2 DEF Unread
<1>9. SlotStable'
  BY <1>2, <1>3, <1>4, <1>5 DEF SlotStable, Unread, Publish
<1>10. Agreement'
  BY DEF Agreement, Publish
<1> QED
  BY <1>1, <1>6, <1>7, <1>8, <1>9, <1>10

\* The byte fetched is the one whose turn it is.
LEMMA InvFetch ==
  ASSUME IInv, Fetch
  PROVE  IInv'
<1> USE DEF IInv
<1>1. TypeOK'
  BY DEF Fetch, TypeOK, ring
<1>2. UNCHANGED <<rxQueue, rxRead, rxWrite, accepted>>
  BY DEF Fetch, ring
<1>3. Taken' = Taken /\ Taken = Len(delivered) + 1
  BY DEF Fetch, Taken, TypeOK
<1>4. Occupied' = Occupied
  BY <1>2 DEF Occupied
<1>5. Agreement'
  <2>1. Taken <= Len(accepted)
    BY OccupiedType DEF NothingVanishes, TypeOK
  <2> QED
    BY <1>2, <1>3, <2>1 DEF Agreement, Fetch, SlotStable, TypeOK
<1>6. Unread'
  BY <1>2, <1>3, <1>4 DEF Unread, Slot
<1> QED
  BY <1>1, <1>2, <1>3, <1>4, <1>5, <1>6 DEF NothingVanishes, SlotStable, Claim, Fetch

LEMMA InvNext ==
  ASSUME BootRx < QueueSize, IInv, [Next]_vars
  PROVE  IInv'
<1>1. ASSUME NEW b \in Byte, RxInterrupt(b) PROVE IInv'
  BY <1>1, InvOverflow, InvStore DEF RxInterrupt
<1>2. CASE UNCHANGED vars
  BY <1>2 DEF vars, IInv, TypeOK, NothingVanishes, Taken, Occupied, Claim,
              Advance, Unread, Slot, SlotStable, Agreement
<1> QED
  BY <1>1, <1>2, InvCheck, InvPublish, InvFetch DEF Next
-----------------------------------------------------------------------------
(* The results. *)

LEMMA Invariant == ASSUME BootRx < QueueSize PROVE Spec => []IInv
<1>1. IInv /\ [Next]_vars => IInv'
  BY InvNext
<1> QED
  BY InvInit, <1>1, PTL DEF Spec

\* The cursors never lose count of the bytes accepted and not yet taken.
THEOREM CountCorrect == ASSUME BootRx < QueueSize PROVE Spec => []NothingVanishes
<1>1. IInv => NothingVanishes
  BY DEF IInv
<1> QED
  BY Invariant, <1>1, PTL

\* The byte in the released slot survives until it is fetched.
THEOREM SlotSafe == ASSUME BootRx < QueueSize PROVE Spec => []SlotStable
<1>1. IInv => SlotStable
  BY DEF IInv
<1> QED
  BY Invariant, <1>1, PTL

\* The parser is given the accepted bytes in the order they arrived.
THEOREM OrderKept == ASSUME BootRx < QueueSize PROVE Spec => []InOrder
<1>1. IInv => InOrder
  <2> SUFFICES ASSUME IInv PROVE InOrder
    OBVIOUS
  <2>1. delivered \in Seq(Byte) /\ accepted \in Seq(Byte)
    BY DEF IInv, TypeOK
  <2>2. SubSeq(delivered, 1, Len(delivered)) = SubSeq(accepted, 1, Len(delivered))
    BY <2>1 DEF IInv, Agreement
  <2> QED
    BY <2>1, <2>2 DEF InOrder, IsPrefix, IInv, Agreement
<1> QED
  BY Invariant, <1>1, PTL

\* In order, undisturbed and all accounted for, whatever interrupts the loop.
THEOREM RingIsSafe == ASSUME BootRx < QueueSize PROVE Spec => []RingSafe
<1>1. InOrder /\ SlotStable /\ NothingVanishes => RingSafe
  BY DEF RingSafe
<1> QED
  BY CountCorrect, SlotSafe, OrderKept, <1>1, PTL

\* A byte is dropped only when the ring is full.
THEOREM DropsJustified == ASSUME BootRx < QueueSize PROVE Spec => DropOnlyWhenFull
<1>1. IInv /\ [Next]_vars => [lost' # lost => Len(accepted) - Taken = QueueSize - 1]_vars
  <2> SUFFICES ASSUME IInv, Next, lost' # lost
               PROVE  Len(accepted) - Taken = QueueSize - 1
    OBVIOUS
  <2>1. PICK b \in Byte : RxInterrupt(b)
    BY DEF Next, Check, Publish, Fetch, IInv, TypeOK
  <2>2. rxRead = rxWrite
    BY <2>1 DEF RxInterrupt, Store, Overflow
  <2> QED
    BY <2>2 DEF IInv, NothingVanishes, Occupied, TypeOK, Slots
<1> QED
  BY Invariant, <1>1, PTL DEF Spec, DropOnlyWhenFull
-----------------------------------------------------------------------------
(* The ring implements the bounded line. *)

\* Two ways to recognise a sequence by its elements.
LEMMA AppendByIndex ==
  ASSUME NEW S, NEW s \in Seq(S), NEW u \in Seq(S), NEW b \in S,
         Len(u) = Len(s) + 1, \A i \in 1 .. Len(s) : u[i] = s[i],
         u[Len(s) + 1] = b
  PROVE  u = Append(s, b)
OBVIOUS

LEMMA TailByIndex ==
  ASSUME NEW S, NEW s \in Seq(S), NEW u \in Seq(S),
         Len(s) > 0, Len(u) = Len(s) - 1, \A i \in 1 .. Len(u) : u[i] = s[i + 1]
  PROVE  u = Tail(s)
OBVIOUS

\* The line the ring stands for, as the refinement mapping builds it.
Line == [i \in 1 .. Occupied |-> rxQueue[Slot(i)]]

LEMMA LineType ==
  ASSUME IInv
  PROVE  Line \in Seq(Byte) /\ Len(Line) = Occupied /\ Occupied \in Nat
<1>1. Occupied \in Nat
  BY OccupiedType DEF IInv, TypeOK
<1>2. ASSUME NEW i \in 1 .. Occupied PROVE rxQueue[Slot(i)] \in Byte
  BY <1>2 DEF Occupied, Slot, IInv, TypeOK, Slots
<1> QED
  BY <1>1, <1>2 DEF Line

\* A stored byte joins the line, which had room for it.
LEMMA StoreJoins ==
  ASSUME BootRx < QueueSize, IInv, NEW b \in Byte, RxInterrupt(b), Store(b)
  PROVE  Fifo!Join(<<b>>)
<1>1. IInv'
  BY InvStore
<1>2. Occupied' = Occupied + 1
  BY <1>1, OccupiedType DEF IInv, NothingVanishes, Store, TypeOK, Taken, RxInterrupt
<1>3. /\ Line \in Seq(Byte) /\ Len(Line) = Occupied /\ Occupied \in Nat
  BY LineType
<1>4. Line' = Append(Line, b)
  <2>0. Line' \in Seq(Byte) /\ Len(Line') = Occupied + 1
    <3>1. ASSUME NEW i \in 1 .. Occupied + 1 PROVE Slot(i)' \in Slots
      <4>1. Slot(i)' = Slot(i)
        BY DEF Slot, Store
      <4> QED
        BY <4>1, <1>3, StoreCount, BootRoom DEF IInv, RxInterrupt, TypeOK
    <3>2. rxQueue' \in [Slots -> Byte]
      BY <1>1 DEF IInv, TypeOK
    <3> QED
      BY <1>2, <1>3, <3>1, <3>2 DEF Line
  <2>1. ASSUME NEW i \in 1 .. Occupied PROVE Line'[i] = Line[i]
    <3>1. Line[i] = accepted[Taken + i] /\ Line'[i] = accepted'[Taken + i]
      BY <1>1, <1>2, <1>3 DEF Line, IInv, Unread, Taken, RxInterrupt
    <3>2. Taken + i \in 1 .. Len(accepted)
      BY <1>3, OccupiedType DEF IInv, NothingVanishes, TypeOK
    <3> QED
      BY <3>1, <3>2 DEF Store, IInv, TypeOK
  <2>2. Line'[Occupied + 1] = b
    <3>1. Line'[Occupied + 1] = accepted'[Taken + Occupied + 1]
      BY <1>1, <1>2, <1>3, OccupiedType DEF Line, IInv, Unread, Taken, RxInterrupt
    <3>2. Taken + Occupied = Len(accepted)
      BY <1>3, OccupiedType DEF IInv, NothingVanishes, TypeOK
    <3> QED
      BY <3>1, <3>2 DEF Store, IInv, TypeOK
  <2> QED
    BY <1>3, <2>0, <2>1, <2>2, AppendByIndex
<1>5. Len(Line) < QueueSize - 1
  BY <1>3, BootRoom DEF RxInterrupt, Occupied, Store, IInv, TypeOK, Slots
<1>6. pc = "fetch" => rxQueue'[nextRead] = rxQueue[nextRead]
  BY DEF IInv, Claim, Store, TypeOK
<1>7. UNCHANGED <<pc, nextRead, delivered, lost>>
  BY DEF Store, RxInterrupt
<1>8. Line' = Line \o <<b>>
  BY <1>3, <1>4
<1>9. Len(<<b>>) = 1
  OBVIOUS
<1> QED
  BY <1>3, <1>5, <1>6, <1>7, <1>8, <1>9 DEF Fifo!Join, Line

\* The overflow branch is a drop from a full line.
LEMMA OverflowDrops ==
  ASSUME IInv, NEW b \in Byte, RxInterrupt(b), Overflow
  PROVE  Fifo!Refuse(<<b>>)
<1>1. Len(Line) = QueueSize - 1
  BY LineType DEF Occupied, Overflow, IInv, TypeOK, Slots
<1>2. UNCHANGED <<rxQueue, rxRead, rxWrite, pc, nextRead, delivered>>
  BY DEF RxInterrupt, Overflow, ring
<1> QED
  <2>1. Len(Line) + Len(<<b>>) > QueueSize - 1
    BY <1>1, QueueSizeAssumption
  <2> QED
    BY <1>2, <2>1 DEF Fifo!Refuse, Line, Overflow, Occupied, Slot

\* Publishing the cursor takes the head of the line.
LEMMA PublishTakes ==
  ASSUME IInv, Publish
  PROVE  Fifo!Take
<1>1. /\ Line \in Seq(Byte) /\ Len(Line) = Occupied /\ Occupied \in Nat
      /\ Occupied > 0
  BY LineType DEF IInv, Claim, Publish
<1>2. /\ Occupied' = Occupied - 1
      /\ Slot(1) = nextRead
      /\ \A i \in 1 .. Occupied' : Slot(i)' = Slot(i + 1)
  BY PublishCount DEF IInv
<1>3. Head(Line) = rxQueue[nextRead] /\ Line # << >>
  BY <1>1, <1>2 DEF Line
<1>4. Line' = Tail(Line)
  <2>1. Line' = [i \in 1 .. Occupied - 1 |-> rxQueue[Slot(i + 1)]]
    BY <1>2 DEF Line, Publish
  <2>2. \A i \in 1 .. Occupied - 1 : Line[i + 1] = rxQueue[Slot(i + 1)]
    BY <1>1 DEF Line
  <2>3. \A i \in 1 .. Occupied : Line[i] \in Byte
    BY <1>1
  <2>4. Line' \in Seq(Byte) /\ Len(Line') = Occupied - 1
    BY <1>1, <2>1, <2>2, <2>3
  <2> QED
    BY <1>1, <2>1, <2>2, <2>4, TailByIndex
<1> QED
  BY <1>3, <1>4 DEF Fifo!Take, Line, Publish

\* Check and Fetch do not move the line: the byte in hand was taken already.
LEMMA QuietSteps ==
  ASSUME IInv, Check \/ Fetch \/ UNCHANGED vars
  PROVE  UNCHANGED Fifo!vars
BY DEF Fifo!vars, Check, Fetch, vars, ring, Occupied, Slot

\* For every ring size, the ring and its two users implement the bounded line.
THEOREM RingImplementsFifo == ASSUME BootRx < QueueSize PROVE Spec => ImplementsFifo
<1>1. Init => Fifo!Init
  BY DEF Init, Fifo!Init, Occupied
<1>2. IInv /\ [Next]_vars => [Fifo!Next]_(Fifo!vars)
  <2> SUFFICES ASSUME IInv, [Next]_vars PROVE [Fifo!Next]_(Fifo!vars)
    OBVIOUS
  <2>1. ASSUME NEW b \in Byte, RxInterrupt(b) PROVE Fifo!Next
    <3>1. Fifo!Join(<<b>>) \/ Fifo!Refuse(<<b>>)
      BY <2>1, StoreJoins, OverflowDrops DEF RxInterrupt
    <3> QED
      BY <3>1 DEF Fifo!Next
  <2>2. CASE Publish
    BY <2>2, PublishTakes DEF Fifo!Next
  <2>3. CASE Check \/ Fetch \/ UNCHANGED vars
    BY <2>3, QuietSteps
  <2> QED
    BY <2>1, <2>2, <2>3 DEF Next
<1> QED
  BY Invariant, <1>1, <1>2, PTL DEF Spec, ImplementsFifo, Fifo!Spec
-----------------------------------------------------------------------------
(* The audio service drives the ring as its specification allows. *)

LEMMA StepOfRing == ASSUME TypeOK, [AudioNext]_audioVars PROVE [Next]_vars
<1>1. CASE ByteInterrupt
  <2> DEFINE i == Len(accepted) + lost + 1
  <2>1. RxInterrupt(Wire[i])
    BY <1>1 DEF ByteInterrupt
  <2>2. i \in 1 .. Len(Wire)
    <3>1. Len(accepted) \in Nat /\ lost \in Nat
      BY DEF TypeOK
    <3>2. Len(accepted) + lost < MaxRx
      BY <2>1 DEF RxInterrupt, ByteArrives
    <3> QED
      BY <3>1, <3>2, BoundAssumption, TicksAssumption
  <2>3. Wire[i] \in Byte
    BY <2>2, TicksAssumption
  <2> QED
    BY <2>1, <2>3 DEF Next
<1>2. CASE FlushMIDIRx
  BY <1>2 DEF FlushMIDIRx, Next
<1>3. CASE Tick \/ HoldUp
  BY <1>3 DEF Tick, HoldUp
<1>4. CASE OtherWork \/ CheckServiceAudio \/ HalfDone
  BY <1>4 DEF OtherWork, CheckServiceAudio, HalfDone
<1>5. CASE WriteOutput \/ StepDone \/ ClearForHalf \/ ServiceDone
  BY <1>5 DEF WriteOutput, StepDone, ClearForHalf, ServiceDone
<1>6. CASE UNCHANGED audioVars
  BY <1>6 DEF audioVars
<1> QED
  BY <1>1, <1>2, <1>3, <1>4, <1>5, <1>6 DEF AudioNext, Loop

\* The service is a caller the ring's module allows for: every behaviour of
\* the audio service is one of the ring.
THEOREM ServiceDrivesRing == AudioSpec => Spec
<1>1. AudioInit => Init
  BY DEF AudioInit
<1>2. Init => TypeOK
  BY TypeInit
<1>3. TypeOK /\ [AudioNext]_audioVars => [Next]_vars
  BY StepOfRing
<1>4. TypeOK /\ [Next]_vars => TypeOK'
  BY TypeNext
<1> QED
  BY <1>1, <1>2, <1>3, <1>4, PTL DEF AudioSpec, Spec

\* In the audio service the ring keeps its bytes in order, undisturbed and
\* all accounted for, for every ring size, load, arrival and hold-up.
THEOREM ServiceKeepsBytes ==
  ASSUME BootRx < QueueSize PROVE AudioSpec => []RingSafe
BY ServiceDrivesRing, RingIsSafe, PTL

\* In the audio service the ring is a bounded line of one byte less than it
\* has slots.
THEOREM ServiceImplementsFifo ==
  ASSUME BootRx < QueueSize PROVE AudioSpec => ImplementsFifo
BY ServiceDrivesRing, RingImplementsFifo, PTL
-----------------------------------------------------------------------------
(***************************************************************************)
(* Whatever a hold-up did to the service, a few half buffers later it is   *)
(* in phase with the DMA.  A state out of phase is on one of a few ways    *)
(* back into phase, each with so many ticks still to go; Slack is how many *)
(* it may take, and the invariant is that the way always fits.             *)
(***************************************************************************)
InFirst == pos < Half
Lag(p) == \E d \in OtherTicks : p <= d

\* A step of the processing, and that nothing has held it up.
Enough(n) == n \in 0 .. Half /\ (n \in StepTicks \/ ~CpuLoadOK(n - 1))
Stepping == at \in {"compute", "load"}
OnSchedule ==
  IF at = "compute" THEN t + busy \in StepTicks ELSE busy = 0 /\ Enough(t)

\* In the first half of the service while the DMA is in the first half
\* buffer, in the second while it is in the second, and done in time.
Early ==
  /\ InFirst
  /\ \/ at = "poll" /\ "whole" \in int /\ Lag(pos + busy)
     \/ Stepping /\ round = 0 /\ OnSchedule /\ Lag(pos - t)
     \/ at = "flush" /\ round = 0 /\ busy = 0
     \/ at = "wait" /\ int = {} /\ busy = 0
Late ==
  /\ ~InFirst /\ "whole" \notin int
  /\ \/ at = "wait" /\ "half" \in int /\ pos = Half /\ busy = 0
     \/ (Stepping \/ at = "flush") /\ round = 1 /\ OnSchedule /\ pos = Half + t
     \/ at = "poll" /\ Lag(pos + busy - 2 * Half)

\* The same, with the ages of what is read and written as they should be.
EarlyAges ==
  /\ at = "poll" => inAge[Second] = 0
  /\ at = "compute" => block = 0
  /\ at \in {"load", "flush", "wait"} => outAge[Second] = 0
LateAges ==
  /\ at = "wait" => inAge[First] = 0
  /\ at = "compute" => block = 0
  /\ at \in {"load", "flush", "poll"} => outAge[First] = 0
InPhase == heard = 1 /\ ((Early /\ EarlyAges) \/ (Late /\ LateAges))

\* The second half of a service in the second half buffer, on which a first
\* half follows at once: together they last into the next first half buffer.
Redo ==
  /\ ~InFirst
  /\ \/ at = "wait" /\ "half" \in int /\ pos = Half /\ busy = 0
     \/ /\ Stepping \/ at = "flush"
        /\ round = 1 /\ OnSchedule /\ pos = Half + t
        /\ at = "flush" => CpuLoadOK(t)
     \/ /\ at = "poll" /\ "whole" \in int
        /\ pos + busy < 2 * Half /\ 2 * (pos + busy) > 3 * Half
     \/ Stepping /\ round = 0 /\ OnSchedule /\ 2 * (pos - t) > 3 * Half

\* A loop that will see the flag when it goes up; one that waits for the
\* other flag.
Fresh ==
  at = "poll" /\ "whole" \notin int /\ Lag(pos + busy - 2 * Half)
Waiting == at = "wait" /\ "half" \notin int /\ busy = 0

\* The most ticks until a step's load is reached.
WorkOf(n, b) == IF n + b >= Half THEN b ELSE Half - n
Work == WorkOf(t, busy)

\* Nine half buffers, less the ticks since the hold-up was over.
Slack ==
  9 * Half - quiet * Half - (IF InFirst THEN pos ELSE pos - Half)

Recovers ==
  \/ InPhase
  \/ (Early \/ (Late /\ LateAges)) /\ 2 * Half - pos < Slack
  \/ (Redo \/ Fresh \/ (Waiting /\ InFirst)) /\ 4 * Half - pos < Slack
  \/ Waiting /\ 6 * Half - pos < Slack
  \/ Stepping /\ round = 0 /\ Work + 5 * Half < Slack
  \/ at = "flush" /\ round = 0 /\ busy + 5 * Half < Slack
  \/ at = "poll" /\ busy + 6 * Half < Slack
  \/ at = "flush" /\ round = 1 /\ busy + 7 * Half < Slack
  \/ Stepping /\ round = 1 /\ Work + 7 * Half < Slack
  \/ at = "wait" /\ busy + 8 * Half < Slack

AudioTypeOK ==
  /\ pos \in 0 .. 2 * Half - 1
  /\ int \subseteq {"half", "whole"}
  /\ at \in {"poll", "compute", "load", "flush", "wait"}
  /\ busy \in Nat /\ t \in Nat
  /\ sinceByte \in 0 .. ByteTicks
  /\ delays \in Nat
  /\ round \in {0, 1}
  /\ quiet \in Int
  /\ inAge \in [Halves -> 0 .. Torn]
  /\ outAge \in [Halves -> 0 .. Torn]
  /\ block \in 0 .. Torn

PhaseInv == AudioTypeOK /\ Recovers

LEMMA HalfType == Half \in Nat /\ Half > 0
BY TicksAssumption

LEMMA LoadReached ==
  ASSUME NEW n \in Nat, ~CpuLoadOK(n)
  PROVE  n < Half
<1> DEFINE q == (n * 100) \div Half
<1> SUFFICES ASSUME n >= Half PROVE FALSE
  BY TicksAssumption
<1>1. Half \in Nat /\ Half > 0
  BY TicksAssumption
<1>2. q \in Int /\ q <= 50
  BY <1>1 DEF CpuLoadOK
<1>3. n * 100 < (q + 1) * Half
  BY <1>1
<1>4. (q + 1) * Half <= 51 * Half
  <2> HIDE DEF q
  <2> QED BY <1>1, <1>2
<1> QED
  BY <1>1, <1>3, <1>4

LEMMA OthersShort ==
  ASSUME NEW d \in OtherTicks
  PROVE  d \in Nat /\ d < Half
<1>1. Half \in Nat /\ Half > 0 /\ d \in Nat
  BY TicksAssumption
<1>2. ~CpuLoadOK(0 - 1)
  <2>1. (0 - 1) * 100 = 0 - 100
    OBVIOUS
  <2>2. ASSUME NEW q \in Int, q * Half <= 0 - 100 PROVE q <= 0
    BY <2>2, <1>1
  <2>3. ((0 - 100) \div Half) * Half <= 0 - 100 /\ (0 - 100) \div Half \in Int
    BY <1>1
  <2> QED
    BY <2>1, <2>2, <2>3 DEF CpuLoadOK
<1> QED
  BY <1>1, <1>2, LoadAssumption

LEMMA StepsShort ==
  ASSUME NEW s, Enough(s) \/ s \in StepTicks, NEW d \in OtherTicks
  PROVE  s \in Nat /\ s <= Half /\ s + d < Half
<1>1. s \in 0 .. Half
  <2>1. CASE Enough(s)
    BY <2>1 DEF Enough
  <2>2. CASE s \in StepTicks
    BY <2>2, TicksAssumption, HalfType
  <2> QED
    BY <2>1, <2>2
<1> QED
  BY <1>1, LoadAssumption, HalfType DEF Enough

LEMMA StepInHalf ==
  ASSUME NEW s, Enough(s) \/ s \in StepTicks
  PROVE  s \in Nat /\ s < Half
<1>1. PICK d \in OtherTicks : TRUE
  BY TicksAssumption
<1> QED
  BY <1>1, StepsShort, OthersShort, HalfType

\* Two steps outlast a half.
LEMMA OverHalf ==
  ASSUME NEW n \in Nat, CpuLoadOK(n)
  PROVE  2 * n > Half
<1> DEFINE q == (n * 100) \div Half
<1>1. q \in Int /\ q >= 51 /\ q * Half <= n * 100
  BY HalfType DEF CpuLoadOK
<1>2. q * Half >= 51 * Half
  <2> HIDE DEF q
  <2> QED BY <1>1, HalfType
<1> QED
  BY <1>1, <1>2, HalfType

\* The work of a step that has just begun, and of any.
LEMMA WorkWhole == ASSUME NEW b \in Nat, b < Half PROVE WorkOf(0, b) = Half
BY HalfType DEF WorkOf

LEMMA WorkBound ==
  ASSUME NEW n \in Nat, NEW b \in Nat
  PROVE  WorkOf(n, b) \in Nat /\ WorkOf(n, b) <= b + Half
BY HalfType DEF WorkOf

LEMMA SlackType == ASSUME AudioTypeOK PROVE Slack \in Int
BY HalfType DEF AudioTypeOK, Slack

\* What a tick does to the DMA and to what it carries.
LEMMA TickMoves ==
  ASSUME AudioTypeOK, Tick
  PROVE  /\ pos # Half - 1 /\ pos # 2 * Half - 1 =>
              /\ pos' = pos + 1 /\ InFirst' = InFirst
              /\ UNCHANGED <<int, block, inAge, outAge, heard>>
         /\ pos = Half - 1 =>
              /\ InFirst /\ pos' = Half /\ ~InFirst'
              /\ int' = int \cup {"half"}
              /\ inAge'[First] = 0
              /\ heard' = Older(outAge[Second])
         /\ pos = 2 * Half - 1 =>
              /\ ~InFirst /\ pos' = 0 /\ InFirst'
              /\ int' = int \cup {"whole"}
              /\ inAge'[Second] = 0
              /\ heard' = Older(outAge[First])
         /\ Slack' >= Slack - 1
         /\ AudioTypeOK'
<1> USE HalfType DEF AudioTypeOK
<1>1. pos \in 0 .. 2 * Half - 1 /\ pos' = (pos + 1) % (2 * Half)
  BY DEF Tick
<1>8. /\ UNCHANGED <<at, round, delays>>
      /\ busy' \in Nat /\ t' \in Nat /\ sinceByte' \in 0 .. ByteTicks
      /\ block' \in 0 .. Torn
  BY TicksAssumption DEF Tick, Older, Torn
<1>2. CASE pos # Half - 1 /\ pos # 2 * Half - 1
  <2>1. pos' = pos + 1
    BY <1>1, <1>2
  <2>2. DmaHalf(pos) = DmaHalf(pos')
    BY <1>1, <1>2, <2>1 DEF DmaHalf
  <2>3. UNCHANGED <<int, block, inAge, outAge, heard, quiet>>
    BY <2>2 DEF Tick
  <2>4. InFirst' = InFirst
    BY <1>1, <1>2, <2>1 DEF InFirst
  <2>5. Slack' >= Slack - 1
    BY <1>1, <1>2, <2>1, <2>3 DEF Slack, InFirst
  <2>6. AudioTypeOK'
    BY <1>1, <1>2, <1>8, <2>1, <2>3
  <2> QED
    BY <1>2, <2>1, <2>3, <2>4, <2>5, <2>6
<1>3. ASSUME NEW a \in 0 .. Torn PROVE Older(a) \in 0 .. Torn
  BY <1>3 DEF Older, Torn
<1>4. ASSUME DmaHalf(pos) # DmaHalf(pos')
      PROVE  /\ inAge'[DmaHalf(pos)] = 0 /\ heard' = Older(outAge[DmaHalf(pos')])
             /\ int' = int \cup {IF DmaHalf(pos') = Second THEN "half" ELSE "whole"}
             /\ inAge' \in [Halves -> 0 .. Torn] /\ outAge' \in [Halves -> 0 .. Torn]
             /\ quiet' \in Int /\ quiet' <= quiet + 1
             /\ pos' \in 0 .. 2 * Half - 1 => AudioTypeOK'
  <2>1. DmaHalf(pos) \in Halves /\ DmaHalf(pos') \in Halves
    BY DEF DmaHalf, Halves
  <2>2. inAge' = [h \in Halves |-> IF h = DmaHalf(pos) THEN 0 ELSE Older(inAge[h])]
        /\ outAge' = [h \in Halves |-> Older(outAge[h])]
        /\ heard' = outAge'[DmaHalf(pos')]
        /\ int' = int \cup {IF DmaHalf(pos') = Second THEN "half" ELSE "whole"}
        /\ quiet' = IF quiet < Recovery THEN quiet + 1 ELSE quiet
    BY <1>4 DEF Tick
  <2>3. inAge' \in [Halves -> 0 .. Torn] /\ outAge' \in [Halves -> 0 .. Torn]
    BY <1>3, <2>2 DEF Torn
  <2>4. quiet' \in Int /\ quiet' <= quiet + 1
    BY <2>2
  <2>5. pos' \in 0 .. 2 * Half - 1 => AudioTypeOK'
    BY <1>8, <2>2, <2>3, <2>4
  <2> QED
    BY <2>1, <2>2, <2>3, <2>4, <2>5
<1>5. ASSUME NEW q \in Int, q <= quiet + 1 PROVE q * Half <= quiet * Half + Half
  BY <1>5
<1>6. CASE pos = Half - 1
  <2>1. pos' = Half
    BY <1>1, <1>6
  <2>2. DmaHalf(pos) = First /\ DmaHalf(pos') = Second
    BY <1>1, <1>6, <2>1 DEF DmaHalf
  <2>3. Slack' >= Slack - 1
    BY <1>4, <1>5, <1>6, <2>1, <2>2 DEF Slack, InFirst, First, Second
  <2> QED
    BY <1>4, <1>6, <2>1, <2>2, <2>3 DEF InFirst, First, Second
<1>7. CASE pos = 2 * Half - 1
  <2>1. pos' = 0
    BY <1>1, <1>7
  <2>2. DmaHalf(pos) = Second /\ DmaHalf(pos') = First
    BY <1>1, <1>7, <2>1 DEF DmaHalf
  <2>3. Slack' >= Slack - 1
    BY <1>4, <1>5, <1>7, <2>1, <2>2 DEF Slack, InFirst, First, Second
  <2> QED
    BY <1>4, <1>7, <2>1, <2>2, <2>3 DEF InFirst, First, Second
<1> QED
  BY <1>2, <1>6, <1>7

\* And what it does to the loop, which has no decision to make.
LEMMA TickLoop ==
  ASSUME AudioTypeOK, Tick
  PROVE  /\ UNCHANGED <<at, round>>
         /\ busy' = IF busy > 0 THEN busy - 1 ELSE 0
         /\ at \in {"compute", "load"} => t' = t + 1
BY DEF Tick

LEMMA TickIdle ==
  ASSUME Tick, busy = 0
  PROVE  /\ at # "compute" /\ at # "flush"
         /\ at = "poll" => "whole" \notin int
         /\ at = "wait" => "half" \notin int
         /\ at = "load" => ~CpuLoadOK(t)
BY DEF Tick, Urgent

LEMMA ScheduleTick ==
  ASSUME AudioTypeOK, Tick, Stepping, OnSchedule
  PROVE  OnSchedule' /\ \A d \in OtherTicks : t + 1 + d < Half
<1>1. t \in Nat /\ busy \in Nat /\ Half \in Nat
  BY HalfType DEF AudioTypeOK
<1>2. CASE at = "compute"
  <2>1. busy > 0 /\ busy' = busy - 1 /\ t' = t + 1 /\ at' = at
    BY <1>1, <1>2, TickLoop, TickIdle
  <2>2. t' + busy' = t + busy /\ t + busy \in StepTicks
    BY <1>1, <1>2, <2>1 DEF OnSchedule
  <2>3. OnSchedule'
    BY <1>2, <2>1, <2>2 DEF OnSchedule
  <2>4. ASSUME NEW d \in OtherTicks PROVE t + 1 + d < Half
    BY <1>1, <2>1, <2>2, StepsShort, OthersShort
  <2> QED
    BY <2>3, <2>4
<1>3. CASE at = "load"
  <2>1. busy = 0 /\ busy' = 0 /\ t' = t + 1 /\ at' = at /\ Enough(t)
        /\ ~CpuLoadOK(t)
    BY <1>1, <1>3, TickLoop, TickIdle DEF OnSchedule
  <2>2. Enough(t + 1)
    <3>1. t < Half /\ t + 1 - 1 = t
      BY <1>1, <2>1, LoadReached
    <3>2. ASSUME NEW n, n = t + 1 PROVE Enough(n)
      <4>1. n \in 0 .. Half /\ n - 1 = t
        BY <1>1, <3>1, <3>2
      <4> QED
        BY <2>1, <4>1 DEF Enough
    <3> QED
      BY <3>2
  <2>3. OnSchedule'
    BY <1>3, <2>1, <2>2 DEF OnSchedule, Enough, CpuLoadOK
  <2>4. ASSUME NEW d \in OtherTicks PROVE t + 1 + d < Half
    BY <2>2, StepsShort
  <2> QED
    BY <2>3, <2>4
<1> QED
  BY <1>2, <1>3 DEF Stepping

LEMMA TickEarly ==
  ASSUME AudioTypeOK, Early, Tick
  PROVE  /\ pos # Half - 1 => /\ Early' /\ pos' = pos + 1 /\ heard' = heard
                              /\ EarlyAges => EarlyAges'
         /\ pos = Half - 1 => /\ Late' /\ LateAges' /\ pos' = pos + 1
                              /\ EarlyAges => heard' = 1
<1>1. /\ pos \in 0 .. Half - 1 /\ busy \in Nat /\ t \in Nat
      /\ Half \in Nat /\ Half > 0
  BY HalfType DEF AudioTypeOK, Early, InFirst
<1>2. /\ UNCHANGED <<at, round>> /\ busy' = IF busy > 0 THEN busy - 1 ELSE 0
      /\ at \in {"compute", "load"} => t' = t + 1
  BY TickLoop
<1>3. CASE pos # Half - 1
  <2>1. pos' = pos + 1 /\ InFirst' /\ UNCHANGED <<int, block, inAge, outAge, heard>>
    BY <1>1, <1>3, TickMoves DEF Early
  <2>2. EarlyAges => EarlyAges'
    BY <1>2, <2>1 DEF EarlyAges
  <2>3. CASE at = "poll" /\ "whole" \in int /\ Lag(pos + busy)
    <3>1. busy > 0
      BY <1>1, <2>3, TickIdle
    <3>2. pos' + busy' = pos + busy
      BY <1>1, <1>2, <2>1, <3>1
    <3> QED
      BY <1>2, <1>3, <2>1, <2>2, <2>3, <3>2 DEF Early, Lag
  <2>4. CASE Stepping /\ round = 0 /\ OnSchedule /\ Lag(pos - t)
    <3>1. OnSchedule' /\ pos' - t' = pos - t
      BY <1>1, <1>2, <2>1, <2>4, ScheduleTick DEF Stepping
    <3> QED
      BY <1>2, <1>3, <2>1, <2>2, <2>4, <3>1 DEF Early, Lag, Stepping
  <2>5. CASE at = "flush" /\ round = 0 /\ busy = 0
    BY <2>5, TickIdle
  <2>6. CASE at = "wait" /\ int = {} /\ busy = 0
    BY <1>2, <1>3, <2>1, <2>2, <2>6 DEF Early
  <2> QED
    BY <2>3, <2>4, <2>5, <2>6 DEF Early
<1>4. CASE pos = Half - 1
  <2>1. at = "wait" /\ int = {} /\ busy = 0
    <3>1. CASE at = "poll" /\ "whole" \in int /\ Lag(pos + busy)
      <4>1. busy > 0
        BY <1>1, <3>1, TickIdle
      <4> QED
        BY <1>1, <1>4, <3>1, <4>1, OthersShort DEF Lag
    <3>2. CASE Stepping /\ round = 0 /\ OnSchedule /\ Lag(pos - t)
      <4>1. PICK d \in OtherTicks : pos - t <= d
        BY <3>2 DEF Lag
      <4>2. t + 1 + d < Half /\ d \in Nat
        BY <3>2, ScheduleTick, OthersShort
      <4> QED
        BY <1>1, <1>4, <4>1, <4>2
    <3>3. CASE at = "flush" /\ round = 0 /\ busy = 0
      BY <3>3, TickIdle
    <3> QED
      BY <3>1, <3>2, <3>3 DEF Early
  <2>2. /\ pos' = Half /\ ~InFirst' /\ int' = int \cup {"half"}
        /\ inAge'[First] = 0 /\ heard' = Older(outAge[Second])
    BY <1>4, TickMoves
  <2>3. Late' /\ LateAges'
    BY <1>1, <1>2, <2>1, <2>2 DEF Late, LateAges
  <2>4. EarlyAges => heard' = 1
    BY <2>1, <2>2 DEF EarlyAges, Older, Torn
  <2> QED
    BY <1>1, <1>4, <2>2, <2>3, <2>4
<1> QED
  BY <1>3, <1>4

LEMMA TickLate ==
  ASSUME AudioTypeOK, Late, LateAges, Tick
  PROVE  /\ pos # 2 * Half - 1 => /\ Late' /\ LateAges'
                                  /\ pos' = pos + 1 /\ heard' = heard
         /\ pos = 2 * Half - 1 => /\ Early' /\ EarlyAges' /\ pos' = 0
                                  /\ heard' = 1
<1>1. /\ pos \in Half .. 2 * Half - 1 /\ busy \in Nat /\ t \in Nat
      /\ Half \in Nat /\ Half > 0
  BY HalfType DEF AudioTypeOK, Late, InFirst
<1>2. /\ UNCHANGED <<at, round>> /\ busy' = IF busy > 0 THEN busy - 1 ELSE 0
      /\ at \in {"compute", "load"} => t' = t + 1
  BY TickLoop
<1>3. \/ (Stepping /\ round = 1 /\ OnSchedule /\ pos = Half + t)
      \/ (at = "poll" /\ Lag(pos + busy - 2 * Half))
  BY TickIdle DEF Late, OnSchedule, Stepping
<1>4. CASE pos # 2 * Half - 1
  <2>1. /\ pos' = pos + 1 /\ ~InFirst'
        /\ UNCHANGED <<int, block, inAge, outAge, heard>>
    BY <1>1, <1>4, TickMoves DEF Late
  <2>2. LateAges'
    BY <1>2, <2>1 DEF LateAges
  <2>3. CASE Stepping /\ round = 1 /\ OnSchedule /\ pos = Half + t
    <3>1. OnSchedule' /\ pos' = Half + t'
      BY <1>1, <1>2, <2>1, <2>3, ScheduleTick DEF Stepping
    <3> QED
      BY <1>2, <1>4, <2>1, <2>2, <2>3, <3>1 DEF Late, Stepping
  <2>4. CASE at = "poll" /\ Lag(pos + busy - 2 * Half)
    <3>1. PICK d \in OtherTicks : d \in Nat /\ pos + busy - 2 * Half <= d
      BY <2>4, OthersShort DEF Lag
    <3>2. pos' + busy' - 2 * Half <= d
      BY <1>1, <1>2, <1>4, <2>1, <3>1
    <3> QED
      BY <1>2, <1>4, <2>1, <2>2, <2>4, <3>2 DEF Late, Lag
  <2> QED
    BY <1>3, <2>3, <2>4
<1>5. CASE pos = 2 * Half - 1
  <2>1. at = "poll" /\ Lag(pos + busy - 2 * Half)
    <3> SUFFICES ASSUME Stepping, OnSchedule, pos = Half + t PROVE FALSE
      BY <1>3
    <3>1. PICK d \in OtherTicks : d \in Nat
      BY TicksAssumption
    <3>2. t + 1 + d < Half
      BY ScheduleTick
    <3> QED
      BY <1>1, <1>5, <3>1, <3>2
  <2>2. /\ pos' = 0 /\ InFirst' /\ int' = int \cup {"whole"}
        /\ inAge'[Second] = 0 /\ heard' = Older(outAge[First])
    BY <1>5, TickMoves
  <2>3. PICK d \in OtherTicks : d \in Nat /\ pos + busy - 2 * Half <= d
    BY <2>1, OthersShort DEF Lag
  <2>4. pos' + busy' <= d
    BY <1>1, <1>2, <1>5, <2>2, <2>3
  <2>5. Early' /\ EarlyAges'
    BY <1>2, <2>1, <2>2, <2>4 DEF Early, EarlyAges, Lag
  <2>6. heard' = 1
    BY <2>1, <2>2 DEF LateAges, Older, Torn
  <2> QED
    BY <1>5, <2>2, <2>5, <2>6
<1> QED
  BY <1>4, <1>5

LEMMA TickRedo ==
  ASSUME AudioTypeOK, Redo, Tick
  PROVE  /\ pos # 2 * Half - 1 => Redo' /\ pos' = pos + 1
         /\ pos = 2 * Half - 1 => Early' /\ pos' = 0
<1>1. /\ pos \in Half .. 2 * Half - 1 /\ busy \in Nat /\ t \in Nat
      /\ Half \in Nat /\ Half > 0
  BY HalfType DEF AudioTypeOK, Redo, InFirst
<1>2. /\ UNCHANGED <<at, round>> /\ busy' = IF busy > 0 THEN busy - 1 ELSE 0
      /\ at \in {"compute", "load"} => t' = t + 1
  BY TickLoop
<1>3. pos # 2 * Half - 1 => pos' = pos + 1 /\ ~InFirst' /\ int' = int
  BY <1>1, TickMoves DEF Redo
<1>4. \/ Stepping /\ round = 1 /\ OnSchedule /\ pos = Half + t
      \/ /\ at = "poll" /\ "whole" \in int
         /\ pos + busy < 2 * Half /\ 2 * (pos + busy) > 3 * Half
      \/ Stepping /\ round = 0 /\ OnSchedule /\ 2 * (pos - t) > 3 * Half
  BY TickIdle DEF Redo, OnSchedule, Stepping
<1>5. PICK d \in OtherTicks : d \in Nat
  BY TicksAssumption
<1>6. CASE Stepping /\ round = 1 /\ OnSchedule /\ pos = Half + t
  <2>1. OnSchedule' /\ t + 1 + d < Half
    BY <1>6, ScheduleTick
  <2>2. pos # 2 * Half - 1 /\ pos + 1 = Half + (t + 1)
    BY <1>1, <1>5, <1>6, <2>1
  <2> QED
    BY <1>2, <1>3, <1>6, <2>1, <2>2 DEF Redo, Stepping
<1>7. CASE /\ at = "poll" /\ "whole" \in int
           /\ pos + busy < 2 * Half /\ 2 * (pos + busy) > 3 * Half
  <2>1. busy > 0
    BY <1>1, <1>7, TickIdle
  <2>2. pos # 2 * Half - 1 /\ pos + 1 + (busy - 1) = pos + busy
    BY <1>1, <1>7, <2>1
  <2> QED
    BY <1>2, <1>3, <1>7, <2>1, <2>2 DEF Redo
<1>8. CASE Stepping /\ round = 0 /\ OnSchedule /\ 2 * (pos - t) > 3 * Half
  <2>1. OnSchedule'
    BY <1>8, ScheduleTick
  <2>2. CASE pos # 2 * Half - 1
    <3>1. 2 * (pos' - t') > 3 * Half
      BY <1>1, <1>2, <1>3, <1>8, <2>2 DEF Stepping
    <3> QED
      BY <1>2, <1>3, <1>8, <2>1, <2>2, <3>1 DEF Redo, Stepping
  <2>3. CASE pos = 2 * Half - 1
    <3>1. pos' = 0 /\ InFirst' /\ 0 - (t + 1) <= d
      BY <1>1, <1>5, <2>3, TickMoves
    <3> QED
      BY <1>2, <1>8, <2>1, <2>3, <3>1 DEF Early, Stepping, Lag
  <2> QED
    BY <2>2, <2>3
<1> QED
  BY <1>4, <1>6, <1>7, <1>8

LEMMA TickFresh ==
  ASSUME AudioTypeOK, Fresh, Tick
  PROVE  /\ pos # 2 * Half - 1 => Fresh' /\ pos' = pos + 1
         /\ pos = 2 * Half - 1 => Early' /\ pos' = 0
<1>1. /\ pos \in 0 .. 2 * Half - 1 /\ busy \in Nat
      /\ Half \in Nat /\ Half > 0
  BY HalfType DEF AudioTypeOK
<1>2. UNCHANGED at /\ busy' = IF busy > 0 THEN busy - 1 ELSE 0
  BY TickLoop
<1>3. PICK d \in OtherTicks : d \in Nat /\ pos + busy - 2 * Half <= d
  BY OthersShort DEF Fresh, Lag
<1>4. CASE pos # 2 * Half - 1
  <2>1. pos' = pos + 1 /\ "whole" \notin int'
    BY <1>1, <1>4, TickMoves DEF Fresh
  <2>2. pos' + busy' - 2 * Half <= d
    BY <1>1, <1>2, <1>3, <1>4, <2>1
  <2> QED
    BY <1>2, <1>4, <2>1, <2>2 DEF Fresh, Lag
<1>5. CASE pos = 2 * Half - 1
  <2>1. pos' = 0 /\ InFirst' /\ "whole" \in int'
    BY <1>5, TickMoves
  <2>2. pos' + busy' <= d
    BY <1>1, <1>2, <1>3, <1>5, <2>1
  <2> QED
    BY <1>2, <1>5, <2>1, <2>2 DEF Fresh, Early, Lag
<1> QED
  BY <1>4, <1>5

LEMMA TickWaiting ==
  ASSUME AudioTypeOK, Waiting, Tick
  PROVE  /\ InFirst => ((Waiting /\ InFirst)' \/ Redo') /\ pos' = pos + 1
         /\ ~InFirst => \/ Waiting' /\ pos' = pos + 1
                        \/ (Waiting /\ InFirst)' /\ pos = 2 * Half - 1 /\ pos' = 0
<1>1. /\ pos \in 0 .. 2 * Half - 1 /\ Half \in Nat /\ Half > 0
  BY HalfType DEF AudioTypeOK
<1>2. at' = "wait" /\ busy' = 0
  BY TickLoop DEF Waiting
<1>3. CASE pos # Half - 1 /\ pos # 2 * Half - 1
  BY <1>1, <1>2, <1>3, TickMoves DEF Waiting
<1>4. CASE pos = Half - 1
  <2>1. Redo' /\ pos' = pos + 1
    BY <1>1, <1>2, <1>4, TickMoves DEF Redo
  <2> QED
    BY <1>1, <1>4, <2>1 DEF InFirst
<1>5. CASE pos = 2 * Half - 1
  <2>1. Waiting' /\ InFirst' /\ pos' = 0
    BY <1>1, <1>2, <1>5, TickMoves DEF Waiting
  <2> QED
    BY <1>1, <1>5, <2>1 DEF InFirst
<1> QED
  BY <1>3, <1>4, <1>5

LEMMA TickWork ==
  ASSUME AudioTypeOK, Stepping, Tick
  PROVE  Work \in Nat /\ Work' \in Int /\ Work' <= Work - 1 /\ Stepping'
<1>1. busy \in Nat /\ t \in Nat /\ Half \in Nat /\ Half > 0
  BY HalfType DEF AudioTypeOK
<1>2. at' = at /\ busy' = (IF busy > 0 THEN busy - 1 ELSE 0) /\ t' = t + 1
  BY TickLoop DEF Stepping
<1>3. busy = 0 => t < Half
  BY <1>1, TickIdle, LoadReached DEF Stepping
<1> QED
  BY <1>1, <1>2, <1>3 DEF Work, WorkOf, Stepping

LEMMA TickRecovers ==
  ASSUME PhaseInv, Tick
  PROVE  PhaseInv'
<1>1. AudioTypeOK /\ AudioTypeOK' /\ Slack' >= Slack - 1
  BY TickMoves DEF PhaseInv
<1>2. Slack \in Int /\ Slack' \in Int
  <2>1. Slack \in Int
    BY <1>1, SlackType
  <2>2. Slack' \in Int
    BY <1>1, HalfType DEF AudioTypeOK, Slack
  <2> QED
    BY <2>1, <2>2
<1>3. pos \in 0 .. 2 * Half - 1 /\ Half \in Nat /\ Half > 0 /\ busy \in Nat
  BY <1>1, HalfType DEF AudioTypeOK
<1>4. UNCHANGED <<at, round>> /\ busy' = IF busy > 0 THEN busy - 1 ELSE 0
  BY <1>1, TickLoop
<1> SUFFICES Recovers'
  BY <1>1 DEF PhaseInv
<1>5. CASE InPhase
  <2>1. CASE Early /\ EarlyAges
    <3>1. (heard' = 1 /\ Early' /\ EarlyAges') \/ (heard' = 1 /\ Late' /\ LateAges')
      BY <1>1, <1>5, <2>1, TickEarly DEF InPhase
    <3> QED
      BY <3>1 DEF InPhase, Recovers
  <2>2. CASE Late /\ LateAges
    <3>1. (heard' = 1 /\ Early' /\ EarlyAges') \/ (heard' = 1 /\ Late' /\ LateAges')
      BY <1>1, <1>5, <2>2, TickLate DEF InPhase
    <3> QED
      BY <3>1 DEF InPhase, Recovers
  <2> QED
    BY <1>5, <2>1, <2>2 DEF InPhase
<1>6. CASE Early /\ 2 * Half - pos < Slack
  <2>1. (Early' \/ (Late' /\ LateAges')) /\ pos' = pos + 1
    BY <1>1, <1>6, TickEarly
  <2>2. 2 * Half - pos' < Slack'
    BY <1>1, <1>2, <1>3, <1>6, <2>1
  <2> QED
    BY <2>1, <2>2 DEF Recovers
<1>7. CASE Late /\ LateAges /\ 2 * Half - pos < Slack
  <2>1. CASE pos # 2 * Half - 1
    <3>1. Late' /\ LateAges' /\ pos' = pos + 1
      BY <1>1, <1>7, <2>1, TickLate
    <3>2. 2 * Half - pos' < Slack'
      BY <1>1, <1>2, <1>3, <1>7, <3>1
    <3> QED
      BY <3>1, <3>2 DEF Recovers
  <2>2. CASE pos = 2 * Half - 1
    <3>1. Early' /\ EarlyAges' /\ heard' = 1
      BY <1>1, <1>7, <2>2, TickLate
    <3> QED
      BY <3>1 DEF InPhase, Recovers
  <2> QED
    BY <2>1, <2>2
<1>8. CASE Redo /\ 4 * Half - pos < Slack
  <2>1. CASE pos # 2 * Half - 1
    <3>1. Redo' /\ pos' = pos + 1
      BY <1>1, <1>8, <2>1, TickRedo
    <3>2. 4 * Half - pos' < Slack'
      BY <1>1, <1>2, <1>3, <1>8, <3>1
    <3> QED
      BY <3>1, <3>2 DEF Recovers
  <2>2. CASE pos = 2 * Half - 1
    <3>1. Early' /\ pos' = 0
      BY <1>1, <1>8, <2>2, TickRedo
    <3>2. 2 * Half - pos' < Slack'
      BY <1>1, <1>2, <1>3, <1>8, <2>2, <3>1
    <3> QED
      BY <3>1, <3>2 DEF Recovers
  <2> QED
    BY <2>1, <2>2
<1>9. CASE Fresh /\ 4 * Half - pos < Slack
  <2>1. CASE pos # 2 * Half - 1
    <3>1. Fresh' /\ pos' = pos + 1
      BY <1>1, <1>9, <2>1, TickFresh
    <3>2. 4 * Half - pos' < Slack'
      BY <1>1, <1>2, <1>3, <1>9, <3>1
    <3> QED
      BY <3>1, <3>2 DEF Recovers
  <2>2. CASE pos = 2 * Half - 1
    <3>1. Early' /\ pos' = 0
      BY <1>1, <1>9, <2>2, TickFresh
    <3>2. 2 * Half - pos' < Slack'
      BY <1>1, <1>2, <1>3, <1>9, <2>2, <3>1
    <3> QED
      BY <3>1, <3>2 DEF Recovers
  <2> QED
    BY <2>1, <2>2
<1>10. CASE Waiting /\ InFirst /\ 4 * Half - pos < Slack
  <2>1. ((Waiting' /\ InFirst') \/ Redo') /\ pos' = pos + 1
    BY <1>1, <1>10, TickWaiting
  <2>2. 4 * Half - pos' < Slack'
    BY <1>1, <1>2, <1>3, <1>10, <2>1
  <2> QED
    BY <2>1, <2>2 DEF Recovers
<1>11. CASE Waiting /\ ~InFirst /\ 6 * Half - pos < Slack
  <2>1. CASE Waiting' /\ pos' = pos + 1
    <3>1. 6 * Half - pos' < Slack'
      BY <1>1, <1>2, <1>3, <1>11, <2>1
    <3> QED
      BY <2>1, <3>1 DEF Recovers
  <2>2. CASE Waiting' /\ InFirst' /\ pos = 2 * Half - 1 /\ pos' = 0
    <3>1. 4 * Half - pos' < Slack'
      BY <1>1, <1>2, <1>3, <1>11, <2>2
    <3> QED
      BY <2>2, <3>1 DEF Recovers
  <2> QED
    BY <1>1, <1>11, <2>1, <2>2, TickWaiting
<1>12. CASE Waiting /\ 6 * Half - pos < Slack
  <2>1. InFirst => 4 * Half - pos < Slack
    BY <1>2, <1>3, <1>12
  <2> QED
    BY <1>10, <1>11, <1>12, <2>1
<1>13. CASE Stepping /\ round = 0 /\ Work + 5 * Half < Slack
  <2>1. Stepping' /\ Work' + 5 * Half < Slack'
    BY <1>1, <1>2, <1>3, <1>13, TickWork
  <2> QED
    BY <1>4, <1>13, <2>1 DEF Recovers
<1>14. CASE at = "flush" /\ round = 0 /\ busy + 5 * Half < Slack
  <2>1. busy > 0
    BY <1>3, <1>14, TickIdle
  <2>2. busy' + 5 * Half < Slack'
    BY <1>1, <1>2, <1>3, <1>4, <1>14, <2>1
  <2> QED
    BY <1>4, <1>14, <2>2 DEF Recovers
<1>15. CASE at = "poll" /\ busy + 6 * Half < Slack
  <2>1. CASE busy > 0
    <3>1. busy' + 6 * Half < Slack'
      BY <1>1, <1>2, <1>3, <1>4, <1>15, <2>1
    <3> QED
      BY <1>4, <1>15, <3>1 DEF Recovers
  <2>2. CASE busy = 0
    <3>1. PICK d \in OtherTicks : d \in Nat
      BY TicksAssumption
    <3>2. pos + busy - 2 * Half <= d
      BY <1>3, <2>2, <3>1
    <3>3. Fresh
      BY <1>15, <2>2, <3>2, TickIdle DEF Fresh, Lag
    <3>4. 4 * Half - pos < Slack
      BY <1>2, <1>3, <1>15, <2>2
    <3> QED
      BY <1>9, <3>3, <3>4
  <2> QED
    BY <1>3, <2>1, <2>2
<1>16. CASE at = "flush" /\ round = 1 /\ busy + 7 * Half < Slack
  <2>1. busy > 0
    BY <1>3, <1>16, TickIdle
  <2>2. busy' + 7 * Half < Slack'
    BY <1>1, <1>2, <1>3, <1>4, <1>16, <2>1
  <2> QED
    BY <1>4, <1>16, <2>2 DEF Recovers
<1>17. CASE Stepping /\ round = 1 /\ Work + 7 * Half < Slack
  <2>1. Stepping' /\ Work' + 7 * Half < Slack'
    BY <1>1, <1>2, <1>3, <1>17, TickWork
  <2> QED
    BY <1>4, <1>17, <2>1 DEF Recovers
<1>18. CASE at = "wait" /\ busy + 8 * Half < Slack
  <2>1. CASE busy > 0
    <3>1. busy' + 8 * Half < Slack'
      BY <1>1, <1>2, <1>3, <1>4, <1>18, <2>1
    <3> QED
      BY <1>4, <1>18, <3>1 DEF Recovers
  <2>2. CASE busy = 0
    <3>1. Waiting
      BY <1>18, <2>2, TickIdle DEF Waiting
    <3>2. 6 * Half - pos < Slack
      BY <1>2, <1>3, <1>18, <2>2
    <3> QED
      BY <1>12, <3>1, <3>2
  <2> QED
    BY <1>3, <2>1, <2>2
<1> QED
  BY <1>5, <1>6, <1>7, <1>8, <1>9, <1>10, <1>12, <1>13, <1>14, <1>15, <1>16,
     <1>17, <1>18 DEF PhaseInv, Recovers

\* The loop's decisions keep the types, and the time.
LEMMA LoopTypes ==
  ASSUME AudioTypeOK, Loop
  PROVE  AudioTypeOK' /\ pos' = pos /\ quiet' = quiet /\ Slack' = Slack
         /\ InFirst' = InFirst /\ heard' = heard /\ inAge' = inAge
<1>1. UNCHANGED <<pos, quiet, delays, sinceByte, heard, inAge>>
  BY DEF Loop, OtherWork, CheckServiceAudio, WriteOutput, StepDone,
         FlushMIDIRx, ClearForHalf, HalfDone, ServiceDone, dma, counts
<1>2. ASSUME NEW s, s \in StepTicks \/ s \in OtherTicks PROVE s \in Nat
  BY <1>2, StepInHalf, OthersShort
<1>3. busy' \in Nat /\ t' \in Nat /\ int' \subseteq {"half", "whole"}
      /\ at' \in {"poll", "compute", "load", "flush", "wait"} /\ round' \in {0, 1}
  BY <1>2 DEF Loop, OtherWork, CheckServiceAudio, WriteOutput, StepDone,
         FlushMIDIRx, ClearForHalf, HalfDone, ServiceDone, dma, counts, audio,
         BeginStep, AudioTypeOK
<1>4. block' \in 0 .. Torn
  BY DEF Loop, OtherWork, CheckServiceAudio, WriteOutput, StepDone,
         FlushMIDIRx, ClearForHalf, HalfDone, ServiceDone, dma, counts, audio,
         BeginStep, AudioTypeOK, Halves, First, Second, Ping, Torn
<1>5. outAge' \in [Halves -> 0 .. Torn]
  BY DEF Loop, OtherWork, CheckServiceAudio, WriteOutput, StepDone,
         FlushMIDIRx, ClearForHalf, HalfDone, ServiceDone, dma, counts, audio,
         BeginStep, AudioTypeOK, Torn
<1>6. Slack' = Slack /\ InFirst' = InFirst
  BY <1>1 DEF Slack, InFirst
<1> QED
  BY <1>1, <1>3, <1>4, <1>5, <1>6 DEF AudioTypeOK

LEMMA RecoversOtherWork ==
  ASSUME PhaseInv, OtherWork
  PROVE  Recovers'
<1>1. /\ pos \in 0 .. 2 * Half - 1 /\ Half \in Nat /\ Half > 0
      /\ AudioTypeOK /\ Recovers /\ Slack \in Int
  BY HalfType, SlackType DEF PhaseInv, AudioTypeOK
<1>2. /\ Slack' = Slack /\ pos' = pos /\ InFirst' = InFirst /\ heard' = heard
  BY <1>1, LoopTypes DEF Loop
<1>3. /\ at = "poll" /\ at' = "poll" /\ busy = 0 /\ "whole" \notin int
      /\ int' = int /\ outAge' = outAge
  BY DEF OtherWork, dma
<1>4. PICK d \in OtherTicks : d \in Nat /\ busy' = d
  BY OthersShort DEF OtherWork
<1>5. pos + d - 2 * Half <= d
  BY <1>1, <1>4
<1>6. Lag(pos' + busy' - 2 * Half)
  BY <1>2, <1>4, <1>5 DEF Lag
<1>7. Fresh'
  BY <1>2, <1>3, <1>6 DEF Fresh
<1>8. CASE Late /\ LateAges
  <2>1. Late' /\ LateAges'
    BY <1>2, <1>3, <1>6, <1>8 DEF Late, LateAges
  <2> QED
    BY <1>1, <1>2, <1>3, <1>7, <1>8, <2>1 DEF Recovers, InPhase, Early, Stepping, Redo, Waiting
<1>9. CASE 4 * Half - pos < Slack
  BY <1>2, <1>7, <1>9 DEF Recovers
<1>10. CASE busy + 6 * Half < Slack
  <2>1. 4 * Half - pos < Slack
    BY <1>1, <1>3, <1>10
  <2> QED
    BY <1>9, <2>1
<1> QED
  BY <1>1, <1>3, <1>8, <1>9, <1>10
     DEF Recovers, InPhase, Early, Stepping, Waiting

LEMMA RecoversCheck ==
  ASSUME PhaseInv, CheckServiceAudio
  PROVE  Recovers'
<1>1. /\ pos \in 0 .. 2 * Half - 1 /\ Half \in Nat /\ Half > 0
      /\ AudioTypeOK /\ Recovers /\ Slack \in Int
  BY HalfType, SlackType DEF PhaseInv, AudioTypeOK
<1>2. /\ Slack' = Slack /\ pos' = pos /\ InFirst' = InFirst /\ heard' = heard
  BY <1>1, LoopTypes DEF Loop
<1>3. /\ at = "poll" /\ at' = "compute" /\ busy = 0 /\ "whole" \in int
      /\ round' = 0 /\ t' = 0 /\ busy' \in StepTicks
      /\ InFirst => block' = inAge[Second]
  BY DEF CheckServiceAudio, BeginStep, Ping, DmaHalf, InFirst, First, Second
<1>4. busy' \in Nat /\ busy' < Half
  BY <1>3, StepInHalf
<1>5. OnSchedule' /\ Stepping'
  BY <1>3, <1>4 DEF OnSchedule, Stepping
<1>6. CASE Early
  <2>1. pos + busy = pos /\ pos' - t' = pos
    BY <1>1, <1>2, <1>3
  <2>2. Lag(pos' - t')
    BY <1>3, <1>6, <2>1 DEF Early, Stepping
  <2>3. Early' /\ (EarlyAges => EarlyAges')
    BY <1>2, <1>3, <1>5, <1>6, <2>2 DEF Early, EarlyAges
  <2> QED
    BY <1>1, <1>2, <1>3, <1>6, <2>3
       DEF Recovers, InPhase, Late, Redo, Waiting, Stepping, Fresh
<1>7. CASE Redo /\ 4 * Half - pos < Slack
  <2>1. 2 * (pos' - t') > 3 * Half
    BY <1>1, <1>2, <1>3, <1>7 DEF Redo, Stepping
  <2> QED
    BY <1>2, <1>3, <1>5, <1>7, <2>1 DEF Recovers, Redo
<1>8. CASE busy + 6 * Half < Slack
  <2>1. Work' = Half
    <3>1. t' \in Nat /\ busy' \in Nat /\ Half \in Nat
      BY <1>1, <1>3, <1>4
    <3>2. t' = 0 /\ busy' < Half
      BY <1>3, <1>4
    <3> QED
      BY <3>1, <3>2, WorkWhole DEF Work
  <2>2. Half + 5 * Half < Slack
    BY <1>1, <1>3, <1>8
  <2> QED
    BY <1>2, <1>3, <1>5, <2>1, <2>2 DEF Recovers
<1> QED
  BY <1>1, <1>3, <1>6, <1>7, <1>8
     DEF Recovers, InPhase, Late, Stepping, Waiting, Fresh

LEMMA RecoversWrite ==
  ASSUME PhaseInv, WriteOutput
  PROVE  Recovers'
<1>1. /\ pos \in 0 .. 2 * Half - 1 /\ Half \in Nat /\ Half > 0 /\ t \in Nat
      /\ AudioTypeOK /\ Recovers /\ Slack \in Int
  BY HalfType, SlackType DEF PhaseInv, AudioTypeOK
<1>2. /\ Slack' = Slack /\ pos' = pos /\ InFirst' = InFirst /\ heard' = heard
  BY <1>1, LoopTypes DEF Loop
<1>3. /\ at = "compute" /\ at' = "load" /\ busy = 0
      /\ int' = int /\ round' = round /\ busy' = busy /\ t' = t
      /\ Stepping /\ Stepping'
  BY DEF WriteOutput, Stepping
<1>4. /\ InFirst /\ round = 0 => outAge'[Second] = block
      /\ ~InFirst /\ round = 1 => outAge'[First] = block
  BY <1>1 DEF WriteOutput, Ping, DmaHalf, InFirst, First, Second, Halves,
              AudioTypeOK
<1>5. OnSchedule => OnSchedule'
  <2> SUFFICES ASSUME OnSchedule PROVE OnSchedule'
    OBVIOUS
  <2>1. t \in StepTicks
    BY <1>1, <1>3 DEF OnSchedule
  <2>2. t \in 0 .. Half
    BY <1>1, <2>1, StepInHalf
  <2> QED
    BY <1>3, <2>1, <2>2 DEF OnSchedule, Enough
<1>6. (Early => Early') /\ (Late => Late') /\ (Redo => Redo') /\ Work' = Work
  BY <1>2, <1>3, <1>5 DEF Early, Late, Redo, Work, Stepping
<1>7. (Early /\ EarlyAges => EarlyAges') /\ (Late /\ LateAges => LateAges')
  BY <1>2, <1>3, <1>4 DEF Early, Late, EarlyAges, LateAges
<1> QED
  BY <1>1, <1>2, <1>3, <1>6, <1>7 DEF Recovers, InPhase, Fresh, Waiting

LEMMA RecoversStepDone ==
  ASSUME PhaseInv, StepDone
  PROVE  Recovers'
<1>1. /\ pos \in 0 .. 2 * Half - 1 /\ Half \in Nat /\ Half > 0 /\ t \in Nat
      /\ AudioTypeOK /\ Recovers /\ Slack \in Int /\ round \in {0, 1}
  BY HalfType, SlackType DEF PhaseInv, AudioTypeOK
<1>2. /\ Slack' = Slack /\ pos' = pos /\ InFirst' = InFirst /\ heard' = heard
  BY <1>1, LoopTypes DEF Loop
<1>3. /\ at = "load" /\ at' = "flush" /\ busy = 0
      /\ int' = int /\ round' = round /\ busy' = busy /\ t' = t
      /\ outAge' = outAge
  BY DEF StepDone, dma
<1>4. CpuLoadOK(t)
  BY DEF StepDone
<1>5. 2 * t > Half
  BY <1>1, <1>4, OverHalf
<1>6. CpuLoadOK(t)' = CpuLoadOK(t)
  BY <1>3 DEF CpuLoadOK
<1>7. OnSchedule => OnSchedule'
  BY <1>3 DEF OnSchedule, Enough, CpuLoadOK
<1>8. (Early => Early') /\ (Late => Late')
  BY <1>2, <1>3, <1>7 DEF Early, Late, Stepping
<1>9. Redo => Redo'
  <2> SUFFICES ASSUME Redo PROVE Redo'
    OBVIOUS
  <2>1. ~(2 * (pos - t) > 3 * Half)
    BY <1>1, <1>5
  <2>2. round = 1 /\ OnSchedule /\ pos = Half + t /\ ~InFirst
    BY <1>3, <2>1 DEF Redo
  <2> QED
    BY <1>2, <1>3, <1>4, <1>7, <2>2 DEF Redo, CpuLoadOK
<1>10. (EarlyAges => EarlyAges') /\ (LateAges => LateAges')
  BY <1>2, <1>3 DEF EarlyAges, LateAges
<1>11. CASE Stepping /\ round = 0 /\ Work + 5 * Half < Slack
  <2>1. busy + 5 * Half < Slack
    BY <1>1, <1>3, <1>11 DEF Work, WorkOf
  <2> QED
    BY <1>2, <1>3, <1>11, <2>1 DEF Recovers
<1>12. CASE Stepping /\ round = 1 /\ Work + 7 * Half < Slack
  <2>1. busy + 7 * Half < Slack
    BY <1>1, <1>3, <1>12 DEF Work, WorkOf
  <2> QED
    BY <1>2, <1>3, <1>12, <2>1 DEF Recovers
<1> QED
  BY <1>1, <1>2, <1>3, <1>8, <1>9, <1>10, <1>11, <1>12
     DEF Recovers, InPhase, Fresh, Waiting

LEMMA RecoversFlush ==
  ASSUME PhaseInv, FlushMIDIRx \/ ByteInterrupt \/ UNCHANGED audioVars
  PROVE  PhaseInv'
<1>1. UNCHANGED <<pos, int, at, round, busy, t, block, inAge, outAge, heard,
                  delays, quiet>>
  BY DEF FlushMIDIRx, ByteInterrupt, audioVars, audio, dma, counts
<1>2. sinceByte' = sinceByte \/ sinceByte' = 0
  BY DEF FlushMIDIRx, ByteInterrupt, audioVars, counts
<1>3. AudioTypeOK'
  BY <1>1, <1>2, TicksAssumption DEF PhaseInv, AudioTypeOK
<1>4. OnSchedule' = OnSchedule
  BY <1>1 DEF OnSchedule, Enough, CpuLoadOK
<1>5. /\ Early' = Early /\ Late' = Late /\ Redo' = Redo /\ Fresh' = Fresh
      /\ EarlyAges' = EarlyAges /\ LateAges' = LateAges
  BY <1>1, <1>4
     DEF Early, Late, Redo, Fresh, EarlyAges, LateAges, InFirst, Lag, Stepping,
         CpuLoadOK
<1>6. /\ Waiting' = Waiting /\ InFirst' = InFirst /\ Stepping' = Stepping
      /\ Work' = Work /\ Slack' = Slack /\ InPhase' = InPhase
  BY <1>1, <1>5 DEF Waiting, InFirst, Stepping, Work, Slack, InPhase
<1> QED
  BY <1>1, <1>3, <1>5, <1>6 DEF PhaseInv, Recovers

LEMMA RecoversClear ==
  ASSUME PhaseInv, ClearForHalf
  PROVE  Recovers'
<1>1. /\ pos \in 0 .. 2 * Half - 1 /\ Half \in Nat /\ Half > 0
      /\ AudioTypeOK /\ Recovers /\ Slack \in Int
  BY HalfType, SlackType DEF PhaseInv, AudioTypeOK
<1>2. /\ Slack' = Slack /\ pos' = pos /\ InFirst' = InFirst /\ heard' = heard
  BY <1>1, LoopTypes DEF Loop
<1>3. /\ at = "flush" /\ at' = "wait" /\ busy = 0 /\ busy' = 0 /\ round = 0
      /\ int' = {} /\ outAge' = outAge
  BY DEF ClearForHalf, dma
<1>4. Waiting' /\ (InFirst => Early')
  BY <1>2, <1>3 DEF Waiting, Early
<1>5. CASE Early
  BY <1>1, <1>2, <1>3, <1>4, <1>5
     DEF Early, EarlyAges, Recovers, InPhase, Late, Redo, Fresh, Waiting, Stepping
<1>6. CASE 5 * Half < Slack
  <2>1. InFirst => 2 * Half - pos < Slack
    BY <1>1, <1>6
  <2>2. ~InFirst => 6 * Half - pos < Slack
    BY <1>1, <1>6 DEF InFirst
  <2> QED
    BY <1>2, <1>4, <2>1, <2>2 DEF Recovers
<1>7. busy + 5 * Half < Slack => 5 * Half < Slack
  BY <1>1, <1>3
<1> QED
  BY <1>1, <1>3, <1>5, <1>6, <1>7
     DEF Recovers, InPhase, Late, Redo, Fresh, Waiting, Stepping

LEMMA RecoversHalfDone ==
  ASSUME PhaseInv, HalfDone
  PROVE  Recovers'
<1>1. /\ pos \in 0 .. 2 * Half - 1 /\ Half \in Nat /\ Half > 0
      /\ AudioTypeOK /\ Recovers /\ Slack \in Int
  BY HalfType, SlackType DEF PhaseInv, AudioTypeOK
<1>2. /\ Slack' = Slack /\ pos' = pos /\ InFirst' = InFirst /\ heard' = heard
  BY <1>1, LoopTypes DEF Loop
<1>3. /\ at = "wait" /\ at' = "compute" /\ busy = 0 /\ "half" \in int
      /\ int' = int /\ round' = 1 /\ t' = 0 /\ busy' \in StepTicks
      /\ ~InFirst => block' = inAge[First]
  BY DEF HalfDone, BeginStep, Ping, DmaHalf, InFirst, First, Second
<1>4. busy' \in Nat /\ busy' < Half
  BY <1>3, StepInHalf
<1>5. OnSchedule' /\ Stepping'
  BY <1>3, <1>4 DEF OnSchedule, Stepping
<1>6. pos = Half => pos' = Half + t'
  BY <1>1, <1>2, <1>3
<1>7. (Late => Late') /\ (Redo => Redo')
  BY <1>2, <1>3, <1>5, <1>6 DEF Late, Redo, Stepping
<1>8. Late /\ LateAges => LateAges'
  BY <1>3 DEF Late, LateAges
<1>9. CASE busy + 8 * Half < Slack
  <2>1. Work' = Half
    <3>1. t' \in Nat /\ busy' \in Nat /\ Half \in Nat
      BY <1>1, <1>3, <1>4
    <3>2. t' = 0 /\ busy' < Half
      BY <1>3, <1>4
    <3> QED
      BY <3>1, <3>2, WorkWhole DEF Work
  <2>2. Half + 7 * Half < Slack
    BY <1>1, <1>3, <1>9
  <2> QED
    BY <1>2, <1>3, <1>5, <2>1, <2>2 DEF Recovers
<1> QED
  BY <1>1, <1>2, <1>3, <1>7, <1>8, <1>9
     DEF Recovers, InPhase, Early, Fresh, Waiting, Stepping

LEMMA RecoversDone ==
  ASSUME PhaseInv, ServiceDone
  PROVE  Recovers'
<1>1. /\ pos \in 0 .. 2 * Half - 1 /\ Half \in Nat /\ Half > 0 /\ t \in Nat
      /\ AudioTypeOK /\ Recovers /\ Slack \in Int
  BY HalfType, SlackType DEF PhaseInv, AudioTypeOK
<1>2. /\ Slack' = Slack /\ pos' = pos /\ InFirst' = InFirst /\ heard' = heard
  BY <1>1, LoopTypes DEF Loop
<1>3. /\ at = "flush" /\ at' = "poll" /\ busy = 0 /\ round = 1
      /\ int' = int /\ outAge' = outAge
  BY DEF ServiceDone, dma
<1>4. PICK d \in OtherTicks : d \in Nat /\ d < Half /\ busy' = d
  BY OthersShort DEF ServiceDone
<1>5. OnSchedule /\ pos = Half + t =>
        pos + d < 2 * Half /\ Lag(pos' + busy' - 2 * Half)
  <2> SUFFICES ASSUME OnSchedule, pos = Half + t
               PROVE  pos + d < 2 * Half /\ Lag(pos' + busy' - 2 * Half)
    OBVIOUS
  <2>1. t + d < Half
    BY <1>3, StepsShort DEF OnSchedule
  <2>2. pos + d < 2 * Half /\ pos' + busy' - 2 * Half <= d
    BY <1>1, <1>2, <1>4, <2>1
  <2> QED
    BY <2>2 DEF Lag
<1>6. Late => Late' /\ (LateAges => LateAges')
  BY <1>2, <1>3, <1>5 DEF Late, LateAges, Stepping
<1>7. Redo => Redo' \/ Fresh'
  <2> SUFFICES ASSUME Redo PROVE Redo' \/ Fresh'
    OBVIOUS
  <2>1. OnSchedule /\ pos = Half + t /\ CpuLoadOK(t) /\ ~InFirst
    BY <1>3 DEF Redo, Stepping
  <2>2. 2 * t > Half
    BY <1>1, <2>1, OverHalf
  <2>3. pos' + busy' < 2 * Half /\ 2 * (pos' + busy') > 3 * Half
    BY <1>1, <1>2, <1>4, <1>5, <2>1, <2>2
  <2> QED
    BY <1>2, <1>3, <1>5, <2>1, <2>3 DEF Redo, Fresh
<1>8. CASE busy + 7 * Half < Slack
  <2>1. d + 6 * Half < Slack
    BY <1>1, <1>3, <1>4, <1>8
  <2> QED
    BY <1>2, <1>3, <1>4, <2>1 DEF Recovers
<1> QED
  BY <1>1, <1>2, <1>3, <1>6, <1>7, <1>8
     DEF Recovers, InPhase, Early, Fresh, Waiting, Stepping

LEMMA RecoversHoldUp ==
  ASSUME PhaseInv, HoldUp
  PROVE  PhaseInv'
<1>1. /\ pos \in 0 .. 2 * Half - 1 /\ Half \in Nat /\ Half > 0 /\ t \in Nat
      /\ busy \in Nat /\ delays \in Nat /\ AudioTypeOK
  BY HalfType DEF PhaseInv, AudioTypeOK
<1>2. PICK d \in Delays : busy' = busy + d
  BY DEF HoldUp
<1>3. busy' \in Nat
  BY <1>1, <1>2, TicksAssumption
<1>4. UNCHANGED <<pos, int, at, round, t, block, sinceByte, inAge, outAge, heard>>
      /\ delays' = delays + 1 /\ quiet' = -((busy' + Half - 1) \div Half)
  BY DEF HoldUp, dma
<1>5. quiet' \in Int /\ quiet' * Half <= -busy'
  <2> DEFINE k == (busy' + Half - 1) \div Half
  <2>1. k \in Int /\ k * Half > busy' + Half - 1 - Half
    BY <1>1, <1>3
  <2>2. quiet' = -k /\ (-k) * Half = -(k * Half) /\ k * Half \in Int
    <3>1. quiet' = -k
      BY <1>4
    <3> HIDE DEF k
    <3> QED
      BY <1>1, <2>1, <3>1
  <2>3. ASSUME NEW x \in Int, NEW y \in Nat, x > y + Half - 1 - Half
        PROVE  -x <= -y
    BY <1>1, <2>3
  <2> HIDE DEF k
  <2> QED
    BY <1>3, <2>1, <2>2, <2>3
<1>6. AudioTypeOK'
  BY <1>1, <1>3, <1>4, <1>5 DEF AudioTypeOK
<1>7. busy' + 8 * Half < Slack'
  BY <1>1, <1>3, <1>4, <1>5 DEF Slack, InFirst
<1>8. Slack' \in Int
  BY <1>6, HalfType DEF AudioTypeOK, Slack
<1>9. Work' \in Int /\ Work' <= busy' + Half
  <2>1. t' \in Nat /\ busy' \in Nat /\ Half \in Nat
    BY <1>1, <1>3, <1>4
  <2> QED
    BY <2>1, WorkBound DEF Work
<1>10. ASSUME NEW b \in Nat, NEW w \in Int, w <= b + Half, NEW s \in Int,
              b + 8 * Half < s
       PROVE  /\ w + 5 * Half < s /\ w + 7 * Half < s
              /\ b + 5 * Half < s /\ b + 6 * Half < s /\ b + 7 * Half < s
  BY <1>1, <1>10
<1>11. /\ Work' + 5 * Half < Slack' /\ Work' + 7 * Half < Slack'
       /\ busy' + 5 * Half < Slack' /\ busy' + 6 * Half < Slack'
       /\ busy' + 7 * Half < Slack'
  BY <1>3, <1>7, <1>8, <1>9, <1>10, Zenon
<1>12. at' \in {"poll", "compute", "load", "flush", "wait"} /\ round' \in {0, 1}
  BY <1>6 DEF AudioTypeOK
<1>13. Recovers'
  BY <1>7, <1>11, <1>12 DEF Recovers, Stepping
<1> QED
  BY <1>6, <1>13 DEF PhaseInv

LEMMA PhaseInit == AudioInit => PhaseInv
<1> SUFFICES ASSUME AudioInit PROVE PhaseInv
  OBVIOUS
<1>1. AudioTypeOK
  BY TicksAssumption DEF AudioInit, AudioTypeOK, Torn, Halves
<1>2. busy + 6 * Half < Slack
  BY HalfType DEF AudioInit, Slack, InFirst
<1> QED
  BY <1>1, <1>2 DEF PhaseInv, Recovers, AudioInit

LEMMA PhaseNext == ASSUME PhaseInv, [AudioNext]_audioVars PROVE PhaseInv'
<1>1. Loop => AudioTypeOK'
  BY LoopTypes DEF PhaseInv
<1> QED
  BY <1>1, TickRecovers, RecoversHoldUp, RecoversFlush, RecoversOtherWork,
     RecoversCheck, RecoversWrite, RecoversStepDone, RecoversClear,
     RecoversHalfDone, RecoversDone
     DEF AudioNext, Loop, PhaseInv

\* Nine half buffers after a hold-up, or after the start, every half buffer
\* played was made from the input taken one half buffer before: for every
\* load the processor can bear, every hold-up, and any number of them.
THEOREM ComesBackInPhase ==
  ASSUME Recovery >= 9 PROVE AudioSpec => []BackInPhase
<1>1. PhaseInv => BackInPhase
  <2> SUFFICES ASSUME PhaseInv, quiet >= Recovery PROVE heard = 1
    BY DEF BackInPhase
  <2>1. /\ pos \in 0 .. 2 * Half - 1 /\ Half \in Nat /\ Half > 0
        /\ busy \in Nat /\ t \in Nat /\ AudioTypeOK /\ quiet \in Int
        /\ Recovery \in Nat
    BY HalfType, TicksAssumption DEF PhaseInv, AudioTypeOK
  <2>2. quiet * Half >= 9 * Half /\ quiet * Half \in Int
    BY <2>1
  <2>3. Slack <= 0 /\ Slack \in Int
    BY <2>1, <2>2 DEF Slack, InFirst
  <2>4. Work \in Nat
    BY <2>1, WorkBound DEF Work
  <2> QED
    BY <2>1, <2>3, <2>4 DEF PhaseInv, Recovers, InPhase
<1> QED
  BY <1>1, PhaseInit, PhaseNext, PTL DEF AudioSpec
-----------------------------------------------------------------------------
(***************************************************************************)
(* Without hold-ups the ring is never overrun, because the flushes are     *)
(* never far apart.  Left bounds the ticks up to the next flush; as long   *)
(* as a ring takes longer to fill than two services last, bytes that wait, *)
(* counted in ticks, and Left are together too few to fill it.             *)
(***************************************************************************)
Left ==
  CASE at = "poll" /\ "whole" \in int    -> busy + Half
    [] at = "poll" /\ "whole" \notin int -> 4 * Half - pos
    [] at \in {"compute", "load"}        -> Half - t
    [] at = "wait" /\ "half" \in int     -> Half
    [] at = "wait" /\ "half" \notin int  ->
         (IF pos < Half THEN 2 * Half ELSE 4 * Half) - pos
    [] at = "flush"                      -> 0

\* No piece of the loop's work is late.
Prompt ==
  /\ at = "poll" => busy < Half
  /\ at = "compute" => busy + t <= Half
  /\ at \in {"load", "flush", "wait"} => busy = 0
  /\ at = "load" => t <= Half
  /\ at # "flush" => pc = "check"

\* A ring with this many bytes in it is flushed before it is full.
InTime == Occupied * ByteTicks + sinceByte + Left <= ByteTicks + 4 * Half

OnTime == delays = 0 => Prompt /\ InTime /\ lost = 0

LEMMA OnTimeInit == AudioInit => OnTime
<1> SUFFICES ASSUME AudioInit PROVE OnTime
  OBVIOUS
<1>1. Half \in Nat /\ Half > 0 /\ ByteTicks \in Nat /\ ByteTicks > 0
  BY TicksAssumption
<1>3. Occupied = 0
  BY DEF AudioInit, Init, Occupied
<1>4. Left <= 4 * Half /\ Left \in Int
  BY <1>1 DEF AudioInit, Left
<1>5. InTime
  BY <1>1, <1>3, <1>4 DEF InTime, AudioInit
<1> QED
  BY <1>1, <1>5 DEF OnTime, Prompt, AudioInit, Init

LEMMA LeftType ==
  ASSUME AudioTypeOK, Prompt
  PROVE  Left \in Nat
<1>1. Half \in Nat /\ Half > 0
  BY TicksAssumption
<1> QED
  BY <1>1 DEF AudioTypeOK, Prompt, Left

\* A tick brings the next flush nearer, at most as much as it brings a byte.
LEMMA OnTimeTick ==
  ASSUME TypeOK, AudioTypeOK, AudioTypeOK', OnTime, Tick
  PROVE  OnTime'
<1>1. Half \in Nat /\ Half > 0 /\ ByteTicks \in Nat /\ ByteTicks > 0
  BY TicksAssumption
<1>2. /\ pos' = IF pos = 2 * Half - 1 THEN 0 ELSE pos + 1
      /\ pos' \in 0 .. 2 * Half - 1
  BY <1>1, TickMoves DEF AudioTypeOK
<1>3. int' = IF pos = Half - 1 THEN int \cup {"half"}
             ELSE IF pos = 2 * Half - 1 THEN int \cup {"whole"} ELSE int
  BY <1>1, TickMoves
<1>4. AudioTypeOK'
  OBVIOUS
<1> SUFFICES ASSUME delays = 0 PROVE Prompt' /\ InTime' /\ lost' = 0
  BY DEF OnTime, Tick
<1>5. Prompt /\ InTime /\ lost = 0 /\ AudioTypeOK
  BY DEF OnTime
<1>6. UNCHANGED <<at, delays, pc, lost>> /\ Occupied' = Occupied
  BY DEF Tick, vars, Occupied
<1>7. at # "flush"
  BY <1>5 DEF Tick, Urgent, Prompt
<1>8. at \in {"compute", "load"} => t < Half /\ t' = t + 1
  BY <1>1, <1>5, LoadReached DEF Tick, Urgent, Prompt, AudioTypeOK
<1>9. Prompt'
  BY <1>1, <1>5, <1>6, <1>7, <1>8 DEF Prompt, Tick, Urgent, AudioTypeOK
<1>10. Left' <= Left - 1
  <2>1. CASE at = "poll" /\ "whole" \in int
    <3>1. busy > 0 /\ busy' = busy - 1
      BY <1>5, <2>1 DEF Tick, Urgent, AudioTypeOK
    <3> QED
      BY <1>1, <1>3, <1>5, <1>6, <2>1, <3>1 DEF Left, AudioTypeOK
  <2>2. CASE at = "poll" /\ "whole" \notin int
    <3>1. CASE pos = 2 * Half - 1
      <4>1. busy' < Half /\ busy' \in Int
        BY <1>4, <1>6, <1>9, <2>2 DEF Prompt, AudioTypeOK
      <4> QED
        BY <1>1, <1>3, <1>6, <2>2, <3>1, <4>1 DEF Left
    <3>2. CASE pos < 2 * Half - 1
      <4>1. pos' = pos + 1 /\ "whole" \notin int' /\ pos \in Int
        BY <1>1, <1>2, <1>3, <1>5, <2>2, <3>2 DEF AudioTypeOK
      <4> QED
        BY <1>1, <1>6, <2>2, <4>1 DEF Left
    <3> QED
      BY <1>1, <1>5, <3>1, <3>2 DEF AudioTypeOK
  <2>3. CASE at \in {"compute", "load"}
    BY <1>1, <1>5, <1>6, <1>8, <2>3 DEF Left, AudioTypeOK
  <2>4. CASE at = "wait"
    <3>1. "half" \notin int
      BY <1>5, <2>4 DEF Tick, Urgent, Prompt
    <3>2. CASE pos = Half - 1
      BY <1>1, <1>3, <1>6, <2>4, <3>1, <3>2 DEF Left
    <3>3. CASE pos # Half - 1
      <4>1. "half" \notin int'
        BY <1>1, <1>3, <3>1, <3>3
      <4> QED
        BY <1>1, <1>2, <1>5, <1>6, <2>4, <3>1, <3>3, <4>1 DEF Left, AudioTypeOK
    <3> QED
      BY <3>2, <3>3
  <2> QED
    BY <1>5, <1>7, <2>1, <2>2, <2>3, <2>4 DEF AudioTypeOK
<1>11. sinceByte' <= sinceByte + 1
  BY <1>1, <1>5 DEF Tick, AudioTypeOK
<1>12. InTime'
  <2> DEFINE w == Occupied * ByteTicks
  <2>1. w \in Int
    BY <1>1, OccupiedType
  <2>2. Left \in Int /\ Left' \in Int
    <3>1. Left \in Int
      BY <1>5, LeftType
    <3>2. Left' \in Int
      BY <1>1, <1>4, <1>9 DEF Left, AudioTypeOK, Prompt
    <3> QED
      BY <3>1, <3>2
  <2>3. sinceByte \in Int /\ sinceByte' \in Int
    BY <1>4, <1>5 DEF AudioTypeOK
  <2>4. w + sinceByte + Left <= ByteTicks + 4 * Half
    BY <1>5 DEF InTime
  <2> HIDE DEF w
  <2>5. ASSUME NEW s \in Int, NEW r \in Int, r <= s + 1,
               NEW l \in Int, NEW m \in Int, m <= l - 1,
               w + s + l <= ByteTicks + 4 * Half
        PROVE  w + r + m <= ByteTicks + 4 * Half
    BY <1>1, <2>1, <2>5
  <2>6. w + sinceByte' + Left' <= ByteTicks + 4 * Half
    BY <1>10, <1>11, <2>2, <2>3, <2>4, <2>5, Zenon
  <2> QED
    BY <1>6, <2>6 DEF InTime, w
<1> QED
  BY <1>5, <1>6, <1>9, <1>12

\* A byte spends the ticks since the one before it, and finds room.
LEMMA OnTimeByte ==
  ASSUME BootRx < QueueSize, 4 * Half < (QueueSize - 1) * ByteTicks,
         IInv, AudioTypeOK, OnTime, ByteInterrupt
  PROVE  OnTime'
<1>1. Half \in Nat /\ Half > 0 /\ ByteTicks \in Nat /\ ByteTicks > 0
  BY TicksAssumption
<1>2. /\ TypeOK /\ AudioTypeOK
      /\ sinceByte = ByteTicks /\ sinceByte' = 0
      /\ UNCHANGED <<pos, int, at, busy, t, delays, pc>>
  BY DEF IInv, ByteInterrupt, RxInterrupt, audio, dma
<1> SUFFICES ASSUME delays = 0 PROVE Prompt' /\ InTime' /\ lost' = 0
  BY <1>2 DEF OnTime
<1>4. Prompt /\ InTime /\ lost = 0
  BY DEF OnTime
<1>5. Prompt' /\ Left' = Left
  BY <1>2, <1>4 DEF Prompt, Left
<1>6. Occupied \in Nat /\ Left \in Nat
  BY <1>2, <1>4, OccupiedType, LeftType
<1>7. ~Overflow
  <2> SUFFICES ASSUME rxRead = rxWrite PROVE FALSE
    BY DEF Overflow
  <2> DEFINE w == (QueueSize - 1) * ByteTicks
  <2>1. Occupied = QueueSize - 1
    BY <1>2 DEF Occupied, TypeOK, Slots
  <2>2. w + ByteTicks + Left <= ByteTicks + 4 * Half
    BY <1>2, <1>4, <2>1 DEF InTime
  <2>3. w \in Int /\ 4 * Half < w
    BY <1>1, QueueSizeAssumption
  <2> HIDE DEF w
  <2> QED
    BY <1>1, <1>6, <2>2, <2>3
<1>8. PICK b \in Byte : RxInterrupt(b) /\ Store(b)
  <2> DEFINE i == Len(accepted) + lost + 1
  <2>1. RxInterrupt(Wire[i])
    BY DEF ByteInterrupt
  <2>2. Wire[i] \in Byte
    BY <2>1, <1>2, TicksAssumption, BoundAssumption
       DEF RxInterrupt, ByteArrives, TypeOK
  <2> HIDE DEF i
  <2> QED
    BY <1>7, <2>1, <2>2 DEF RxInterrupt
<1>9. Occupied' = Occupied + 1 /\ lost' = 0
  <2>1. Occupied' = Occupied + 1
    BY <1>2, <1>8, StoreCount, BootRoom DEF RxInterrupt
  <2> QED
    BY <1>4, <1>8, <2>1 DEF Store
<1>10. InTime'
  <2> DEFINE w == Occupied * ByteTicks
  <2>1. Occupied' * ByteTicks = w + ByteTicks /\ w \in Int
    BY <1>1, <1>6, <1>9
  <2>2. w + ByteTicks + Left <= ByteTicks + 4 * Half
    BY <1>2, <1>4 DEF InTime
  <2> HIDE DEF w
  <2> QED
    BY <1>1, <1>2, <1>5, <1>6, <2>1, <2>2 DEF InTime
<1> QED
  BY <1>5, <1>9, <1>10

\* A decision of the loop brings no flush later than it was, except the one
\* that ends a flush, which leaves the ring empty.
LEMMA OnTimeLoop ==
  ASSUME IInv, AudioTypeOK, OnTime, Loop
  PROVE  OnTime'
<1>1. Half \in Nat /\ Half > 0 /\ ByteTicks \in Nat /\ ByteTicks > 0
  BY TicksAssumption
<1>2. TypeOK /\ AudioTypeOK
  BY DEF IInv
<1>3. UNCHANGED <<pos, sinceByte, delays, lost>>
  BY DEF Loop, OtherWork, CheckServiceAudio, WriteOutput, StepDone,
         FlushMIDIRx, Check, Publish, Fetch, ClearForHalf, HalfDone,
         ServiceDone, dma, counts, vars
<1>4. ASSUME NEW s \in StepTicks PROVE s \in Nat /\ s <= Half
  BY <1>4, TicksAssumption
<1>5. AudioTypeOK'
  BY LoopTypes
<1> SUFFICES ASSUME delays = 0 PROVE Prompt' /\ InTime'
  BY <1>3 DEF OnTime
<1>6. Prompt /\ InTime
  BY DEF OnTime
<1>7. Prompt'
  BY <1>1, <1>2, <1>4, <1>6, OthersShort
     DEF AudioTypeOK, Prompt, Loop, OtherWork, CheckServiceAudio, WriteOutput,
         StepDone, FlushMIDIRx, ClearForHalf, HalfDone, ServiceDone,
         BeginStep, audio, vars, RingEmpty
<1>8. Left \in Int /\ Left' \in Int
  BY <1>1, <1>2, <1>5, <1>6, <1>7 DEF Left, AudioTypeOK, Prompt
<1>9. Occupied \in Nat /\ Occupied' \in Int
  <2>1. Occupied \in Nat
    BY <1>2, OccupiedType
  <2>2. TypeOK'
    BY <1>2, StepOfRing, TypeNext DEF AudioNext
  <2> QED
    BY <2>1, <2>2 DEF TypeOK, Slots, Occupied
<1>10. CASE RingEmpty /\ Occupied' = Occupied
  <2>1. Occupied = 0
    BY <1>2, <1>10 DEF RingEmpty, Occupied, Advance, TypeOK, Slots
  <2>2. Left' <= 4 * Half
    BY <1>1, <1>5, <1>7 DEF Left, AudioTypeOK, Prompt
  <2>3. sinceByte' <= ByteTicks /\ sinceByte' \in Int
    BY <1>5 DEF AudioTypeOK
  <2>4. ASSUME NEW s \in Int, s <= ByteTicks, NEW m \in Int, m <= 4 * Half
        PROVE  0 * ByteTicks + s + m <= ByteTicks + 4 * Half
    BY <1>1, <2>4
  <2> QED
    BY <1>7, <1>8, <1>10, <2>1, <2>2, <2>3, <2>4, Zenon DEF InTime
<1>11. CASE Left' <= Left /\ Occupied' <= Occupied
  <2>1. ASSUME NEW l \in Int, NEW m \in Int, m <= l,
               NEW o \in Nat, NEW p \in Int, p <= o,
               o * ByteTicks + sinceByte + l <= ByteTicks + 4 * Half
        PROVE  p * ByteTicks + sinceByte + m <= ByteTicks + 4 * Half
    <3>1. p * ByteTicks <= o * ByteTicks /\ p * ByteTicks \in Int
          /\ o * ByteTicks \in Int
      BY <1>1, <2>1
    <3> DEFINE x == p * ByteTicks
               y == o * ByteTicks
    <3>2. sinceByte \in Int
      BY <1>2 DEF AudioTypeOK
    <3> HIDE DEF x, y
    <3> QED
      BY <1>1, <2>1, <3>1, <3>2 DEF x, y
  <2> QED
    BY <1>3, <1>6, <1>7, <1>8, <1>9, <1>11, <2>1, Zenon DEF InTime
<1>12. ASSUME OtherWork \/ CheckServiceAudio \/ WriteOutput \/ StepDone
              \/ HalfDone
       PROVE  Left' <= Left /\ Occupied' = Occupied
  <2>1. Occupied' = Occupied
    BY <1>12 DEF OtherWork, CheckServiceAudio, WriteOutput, StepDone, HalfDone,
                 vars, Occupied
  <2>2. Left' <= Left
    <3>1. CASE OtherWork
      BY <1>1, <1>2, <1>3, <3>1 DEF OtherWork, Left, AudioTypeOK
    <3>2. CASE CheckServiceAudio
      BY <1>1, <3>2 DEF CheckServiceAudio, BeginStep, Left
    <3>3. CASE WriteOutput
      BY <1>1, <1>2, <3>3 DEF WriteOutput, Left, AudioTypeOK
    <3>4. CASE StepDone
      BY <1>1, <1>2, <1>6, <3>4 DEF StepDone, Left, Prompt, AudioTypeOK
    <3>5. CASE HalfDone
      BY <1>1, <3>5 DEF HalfDone, BeginStep, Left
    <3> QED
      BY <1>12, <3>1, <3>2, <3>3, <3>4, <3>5
  <2> QED
    BY <2>1, <2>2
<1>13. ASSUME FlushMIDIRx PROVE Left' <= Left /\ Occupied' <= Occupied
  <2>1. Left' = Left
    BY <1>13 DEF FlushMIDIRx, audio, dma, Left
  <2>2. Publish => Occupied' = Occupied - 1
    BY <1>2, PublishCount DEF IInv
  <2>3. Check \/ Fetch => Occupied' = Occupied
    BY DEF Check, Fetch, ring, Occupied
  <2> QED
    BY <1>8, <1>9, <1>13, <2>1, <2>2, <2>3 DEF FlushMIDIRx
<1>14. ASSUME ClearForHalf \/ ServiceDone
       PROVE  RingEmpty /\ Occupied' = Occupied
  BY <1>14 DEF ClearForHalf, ServiceDone, vars, Occupied
<1> QED
  BY <1>7, <1>9, <1>10, <1>11, <1>12, <1>13, <1>14 DEF Loop

LEMMA OnTimeNext ==
  ASSUME BootRx < QueueSize, 4 * Half < (QueueSize - 1) * ByteTicks,
         IInv, PhaseInv, OnTime, [AudioNext]_audioVars
  PROVE  OnTime'
<1>1. TypeOK /\ AudioTypeOK
  BY DEF IInv, PhaseInv
<1>2. AudioTypeOK'
  BY PhaseNext DEF PhaseInv
<1>3. CASE HoldUp
  BY <1>1, <1>3 DEF HoldUp, OnTime, AudioTypeOK
<1>4. CASE UNCHANGED audioVars
  BY <1>4 DEF audioVars, audio, dma, counts, vars, OnTime, Prompt, InTime,
              Left, Occupied
<1> QED
  BY <1>1, <1>2, <1>3, <1>4, OnTimeTick, OnTimeByte, OnTimeLoop DEF AudioNext

\* In a service that is never held up no byte is lost, for every ring that
\* takes longer to fill than two services last (four half buffers), whatever
\* the work of a step costs and wherever the service finds the DMA.
THEOREM KeepsUp ==
  ASSUME BootRx < QueueSize, 4 * Half < (QueueSize - 1) * ByteTicks
  PROVE  AudioSpec => []OnlyHoldUpsLoseBytes
<1>1. AudioSpec => []IInv
  BY ServiceDrivesRing, Invariant, PTL
<1>2. IInv /\ PhaseInv /\ OnTime /\ [AudioNext]_audioVars => OnTime'
  BY OnTimeNext
<1>4. AudioSpec => []PhaseInv
  BY PhaseInit, PhaseNext, PTL DEF AudioSpec
<1>3. OnTime => OnlyHoldUpsLoseBytes
  BY DEF OnTime, OnlyHoldUpsLoseBytes
<1> QED
  BY <1>1, <1>2, <1>3, <1>4, OnTimeInit, PTL DEF AudioSpec
=============================================================================

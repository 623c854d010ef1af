----------------------------- MODULE SelectBus -----------------------------
(***************************************************************************)
(* Sending on the Select Bus.  The bus is one line, so whatever the        *)
(* firmware sends comes back to its own receiver; it counts what it sends  *)
(* in recallIgnoreBytes (i2c.c, ProcessI2CMIDICommand) and the receive     *)
(* interrupt (app.c, UART2RXInterruptHandler) throws that many bytes away. *)
(*                                                                         *)
(* The bytes are given to the transmitter first and counted afterwards, by *)
(* a read, an addition and a write that the interrupt may come between.    *)
(* That no echo is back before it is counted is a matter of time: a byte   *)
(* takes 320 microseconds on the line and the main loop, unless it has to  *)
(* wait for room in the transmitter, is done in less.  So a byte whose     *)
(* sending began while the main loop was busy with a message ("new") is    *)
(* not back before the main loop waits or is done.                         *)
(***************************************************************************)
EXTENDS Integers

CONSTANTS
  TxDepth,      \* bytes the transmitter holds besides the one on the line
  Width,        \* values recallIgnoreBytes can take, a byte's 256
  MaxMessages,  \* bound: messages sent
  MaxOwed,      \* bound: overwritten decrements no byte has been lost for yet
  MaxForeign    \* bound: bytes sent by other devices on the bus

ASSUME DepthAssumption == TxDepth \in Nat /\ TxDepth >= 2
ASSUME WidthAssumption ==
  /\ Width \in Nat /\ MaxMessages \in Nat /\ MaxForeign \in Nat /\ MaxOwed \in Nat
  /\ TxDepth + 2 + MaxOwed < Width

VARIABLES
  pc,                 \* where ProcessI2CMIDICommand is; "idle" outside it
  numBytes,           \* the length of its message
  left,               \* the bytes of it not yet given to the transmitter
  loaded,             \* recallIgnoreBytes as read for the addition
  recallIgnoreBytes,
  fifo,               \* how many bytes wait in the transmitter
  shift,              \* the byte on the line: "none", "old" or "new"
  messages,           \* history: messages sent
  undone,             \* history: the interrupt's decrements overwritten
  foreign,            \* history: other devices' bytes
  swallowed,          \* history: those thrown away as echoes
  echoParsed          \* history: whether an echo was ever not thrown away

main == <<pc, numBytes, left, loaded>>
transmitter == <<fifo, shift>>
history == <<messages, undone, foreign, swallowed, echoParsed>>
busVars == <<main, recallIgnoreBytes, transmitter, history>>

BusInit ==
  /\ pc = "idle" /\ numBytes = 0 /\ left = 0 /\ loaded = 0
  /\ recallIgnoreBytes = 0
  /\ fifo = 0 /\ shift = "none"
  /\ messages = 0 /\ undone = 0 /\ foreign = 0 /\ swallowed = 0
  /\ echoParsed = FALSE
-----------------------------------------------------------------------------
(***************************************************************************)
(* ProcessI2CMIDICommand for kI2C_send_Select_Bus_message.                 *)
(***************************************************************************)
UTXBF == fifo = TxDepth
Blocked == pc = "write" /\ UTXBF

Command(n) ==
  /\ pc = "idle" /\ messages < MaxMessages /\ undone - swallowed < MaxOwed
  /\ pc' = "write" /\ numBytes' = n /\ left' = n
  /\ messages' = messages + 1
  /\ UNCHANGED <<loaded, recallIgnoreBytes, transmitter>>
  /\ UNCHANGED <<undone, foreign, swallowed, echoParsed>>

\* U2TXREG = i2cMsg[1+i], once there is room.
Write ==
  /\ pc = "write" /\ ~UTXBF
  /\ left' = left - 1
  /\ pc' = IF left = 1 THEN "load" ELSE "write"
  /\ IF shift = "none" THEN shift' = "new" /\ UNCHANGED fifo
                       ELSE fifo' = fifo + 1 /\ UNCHANGED shift
  /\ UNCHANGED <<numBytes, loaded, recallIgnoreBytes, history>>

\* recallIgnoreBytes += numBytes
Load ==
  /\ pc = "load"
  /\ loaded' = recallIgnoreBytes
  /\ pc' = "store"
  /\ UNCHANGED <<numBytes, left, recallIgnoreBytes, transmitter, history>>

\* Mutant of Store: the addition done by the time the bytes are.
StoreOneShort ==
  /\ pc = "store"
  /\ recallIgnoreBytes' = (loaded + numBytes - 1) % Width
  /\ undone' = undone + (loaded - recallIgnoreBytes)
  /\ pc' = "idle"
  /\ shift' = IF shift = "new" THEN "old" ELSE shift
  /\ UNCHANGED <<numBytes, left, loaded, fifo>>
  /\ UNCHANGED <<messages, foreign, swallowed, echoParsed>>

\* Mutant of Store: counts every message as three bytes.
StoreThree ==
  /\ pc = "store"
  /\ recallIgnoreBytes' = (loaded + 3) % Width
  /\ undone' = undone + (loaded - recallIgnoreBytes)
  /\ pc' = "idle"
  /\ shift' = IF shift = "new" THEN "old" ELSE shift
  /\ UNCHANGED <<numBytes, left, loaded, fifo>>
  /\ UNCHANGED <<messages, foreign, swallowed, echoParsed>>

Store ==
  /\ pc = "store"
  /\ recallIgnoreBytes' = (loaded + numBytes) % Width
  /\ undone' = undone + (loaded - recallIgnoreBytes)
  /\ pc' = "idle"
  /\ shift' = IF shift = "new" THEN "old" ELSE shift
  /\ UNCHANGED <<numBytes, left, loaded, fifo>>
  /\ UNCHANGED <<messages, foreign, swallowed, echoParsed>>
-----------------------------------------------------------------------------
(***************************************************************************)
(* The interrupt.  What it does not throw away goes to the receive ring.   *)
(***************************************************************************)
Ignored == recallIgnoreBytes > 0
\* Mutant of Ignore: a byte thrown away is not counted off.
IgnoreForEver == UNCHANGED recallIgnoreBytes

Ignore == recallIgnoreBytes' = recallIgnoreBytes - (IF Ignored THEN 1 ELSE 0)

\* The byte on the line is sent, and heard; the next one takes its place.
EchoArrives ==
  /\ shift = "old" \/ (shift = "new" /\ Blocked)
  /\ IF fifo = 0 THEN shift' = "none" /\ UNCHANGED fifo
     ELSE /\ fifo' = fifo - 1
          /\ shift' = IF pc = "idle" THEN "old" ELSE "new"
  /\ Ignore
  /\ echoParsed' = (echoParsed \/ ~Ignored)
  /\ UNCHANGED <<main, messages, undone, foreign, swallowed>>

\* Another device's byte; it speaks only while this one is silent.
ForeignArrives ==
  /\ shift = "none" /\ foreign < MaxForeign
  /\ Ignore
  /\ foreign' = foreign + 1
  /\ swallowed' = swallowed + (IF Ignored THEN 1 ELSE 0)
  /\ UNCHANGED <<main, transmitter, messages, undone, echoParsed>>

BusNext ==
  \/ \E n \in 1 .. 3 : Command(n)
  \/ Write \/ Load \/ Store
  \/ EchoArrives \/ ForeignArrives

BusSpec == BusInit /\ [][BusNext]_busVars
-----------------------------------------------------------------------------
OnLine == IF shift = "none" THEN 0 ELSE 1
Uncounted == IF pc = "idle" THEN 0 ELSE numBytes - left

TypeOK ==
  /\ pc \in {"idle", "write", "load", "store"}
  /\ numBytes \in 0 .. 3 /\ left \in 0 .. numBytes
  /\ loaded \in 0 .. Width - 1 /\ recallIgnoreBytes \in 0 .. Width - 1
  /\ fifo \in 0 .. TxDepth /\ shift \in {"none", "old", "new"}
  /\ messages \in 0 .. MaxMessages /\ foreign \in 0 .. MaxForeign
  /\ undone \in Nat /\ swallowed \in 0 .. foreign
  /\ echoParsed \in BOOLEAN

(***************************************************************************)
(* An echo is never taken for a message of another device, also when the   *)
(* transmitter is full and part of a message is already on the line before *)
(* the message has been counted.                                           *)
(***************************************************************************)
EchoNeverParsed == ~echoParsed

(***************************************************************************)
(* recallIgnoreBytes is the number of echoes still to come, but for those  *)
(* of the message being sent, which are counted last, and but for the      *)
(* decrements an addition has overwritten, each of which stays until a     *)
(* byte of another device is thrown away for it.                           *)
(***************************************************************************)
Ledger ==
  recallIgnoreBytes = fifo + OnLine - Uncounted + (undone - swallowed)

(***************************************************************************)
(* A byte of another device is thrown away only for a decrement that was   *)
(* overwritten, and a message overwrites at most one.                      *)
(***************************************************************************)
ForeignLostToRaces == swallowed <= undone /\ undone <= messages
=============================================================================

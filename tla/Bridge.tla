------------------------------- MODULE Bridge -------------------------------
(***************************************************************************)
(* The module as a bridge: an I2C master sends MIDI messages, which        *)
(* ProcessI2CMIDICommand passes on to the MIDI output or the Select Bus.   *)
(* It runs inside FlushMIDIRx, so that while it waits for room no further  *)
(* entry of the I2C ring is taken, and the interrupt goes on filling it.   *)
(*                                                                         *)
(* The MIDI output is the bounded line MidiOut implements; the Select Bus  *)
(* transmitter is a shorter one.                                           *)
(***************************************************************************)
EXTENDS I2CSlave

CONSTANTS
  MidiRoom,   \* bytes the MIDI output queue holds
  BusRoom     \* bytes the Select Bus transmitter holds

ASSUME RoomAssumption == MidiRoom \in Nat \ {0} /\ BusRoom \in Nat \ {0}

VARIABLES
  passing,         \* the bytes of the message still to be passed on
  midi, midiSent,  \* the MIDI output: bytes waiting and bytes gone
  bus, busSent     \* the Select Bus: the same

lines == <<midi, midiSent, bus, busSent>>
bridgeVars == <<vars, passing, lines>>

Byte == 0 .. 255
MidiLine == INSTANCE BoundedFifo WITH
  Item <- {<<b>> : b \in Byte}, Capacity <- MidiRoom,
  fifo <- midi, out <- midiSent, dropped <- 0
BusLine == INSTANCE BoundedFifo WITH
  Item <- {<<b>> : b \in Byte}, Capacity <- BusRoom,
  fifo <- bus, out <- busSent, dropped <- 0

BridgeInit ==
  /\ Init
  /\ passing = << >>
  /\ MidiLine!Init /\ BusLine!Init

\* The destinations of messages, by the command's number.
kI2C_send_MIDI_message == \h4F
kI2C_send_Select_Bus_message == \h50

-----------------------------------------------------------------------------
\* The master and the slave's interrupt handler.
Meanwhile ==
  /\ \/ \E t \in Transfer : MasterWrites(t)
     \/ \E n \in 1 .. MaxRead : MasterReads(n)
     \/ Interrupt
  /\ UNCHANGED <<passing, lines>>

\* An entry of the ring.  One that completes a message starts passing it on.
Process ==
  /\ passing = << >>
  /\ ProcessI2CIn
  /\ passing' = IF executed' # executed /\ i2cMsg'[1] \in Message
                THEN Last(executed'[Head(rx)[2]]) ELSE << >>
  /\ UNCHANGED lines

PrepareResponse == Prepare /\ UNCHANGED <<passing, lines>>

\* Mutant of PassOnMIDI: QueueMIDI1's result is ignored.
PassOnMIDIOnce ==
  /\ Len(passing) > 1 /\ Head(passing) = kI2C_send_MIDI_message
  /\ \/ MidiLine!Join(<<passing[2]>>)
     \/ Len(midi) = MidiRoom /\ UNCHANGED <<midi, midiSent>>
  /\ UNCHANGED <<bus, busSent>>

\* BlockingQueueMIDI1 of the next byte, once there is room.
PassOnMIDI ==
  /\ Len(passing) > 1 /\ Head(passing) = kI2C_send_MIDI_message
  /\ MidiLine!Join(<<passing[2]>>)
  /\ UNCHANGED <<bus, busSent>>

\* U2TXREG, once there is room.
PassOnBus ==
  /\ Len(passing) > 1 /\ Head(passing) = kI2C_send_Select_Bus_message
  /\ BusLine!Join(<<passing[2]>>)
  /\ UNCHANGED <<midi, midiSent>>

PassOn ==
  /\ PassOnMIDI \/ PassOnBus
  /\ passing' = IF Len(passing) = 2 THEN << >> ELSE RemoveAt(passing, 2)
  /\ UNCHANGED vars

\* A byte leaves one of the outputs.
Sent ==
  /\ \/ MidiLine!Take /\ UNCHANGED <<bus, busSent>>
     \/ BusLine!Take /\ UNCHANGED <<midi, midiSent>>
  /\ UNCHANGED <<vars, passing>>

BridgeNext == Meanwhile \/ Process \/ PrepareResponse \/ PassOn \/ Sent

BridgeSpec == BridgeInit /\ [][BridgeNext]_bridgeVars
-----------------------------------------------------------------------------
\* What the transfers of a master ask to be sent to destination d, in order.
Asked(d) ==
  LET of(t) == IF t # << >> /\ t[1] = d
               THEN FlattenSeq([k \in DOMAIN Meant(t) |-> Tail(Meant(t)[k])])
               ELSE << >> IN
  FlattenSeq([i \in DOMAIN transfers |-> of(transfers[i])])

AtRest == todo = << >> /\ rx = << >> /\ passing = << >>

(***************************************************************************)
(* As long as the I2C ring takes everything, each output is given the      *)
(* messages the master sent to it: whole, in the order they were sent,     *)
(* nothing else, and all of them once the module has caught up, however    *)
(* long it has to wait for either output, and whatever the master asks or  *)
(* reads in between.                                                       *)
(***************************************************************************)
PassedOn ==
  cut = {} =>
    LET atMidi == midiSent \o midi
        onBus == busSent \o bus IN
    /\ IsPrefix(atMidi, Asked(kI2C_send_MIDI_message))
    /\ IsPrefix(onBus, Asked(kI2C_send_Select_Bus_message))
    /\ AtRest => /\ atMidi = Asked(kI2C_send_MIDI_message)
                 /\ onBus = Asked(kI2C_send_Select_Bus_message)
=============================================================================

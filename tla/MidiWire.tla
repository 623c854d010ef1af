------------------------------ MODULE MidiWire ------------------------------
(***************************************************************************)
(* What arrives at a MIDI parser: well-formed messages, byte by byte, from *)
(* a sender that may use running status and may put a real-time byte       *)
(* between any two bytes, over a line that may lose bytes (a receive ring  *)
(* that is full drops them).  None of this is code of the firmware; the    *)
(* parser module says what a byte does when it arrives.                    *)
(***************************************************************************)
EXTENDS MidiBytes

CONSTANT
  Session  \* what lines there are: each a record of the messages a sender
           \* uses ("message"), its real-time bytes ("realTime"), and the
           \* bounds "sends", "ticks" and "loses" on how many messages and
           \* real-time bytes it sends and how many bytes the line loses

Voice(m) == m[1] < SysExStart
TwoData(m) == HighNibble(m[1]) \in TwoByteStatus

\* A status byte first and data bytes after it, as many as a voice message
\* has; a sysex may have its end, or be cut short by the next message.
WellFormed(m) ==
  /\ m \in Seq(0 .. 255) /\ m # << >>
  /\ IsStatus(m[1]) /\ m[1] < SysExEnd
  /\ Voice(m) => Len(m) = IF TwoData(m) THEN 3 ELSE 2
  /\ \A i \in 2 .. Len(m) :
       IsStatus(m[i]) => m[1] = SysExStart /\ m[i] = SysExEnd /\ i = Len(m)

ASSUME SessionAssumption ==
  \A x \in Session :
    /\ \A m \in x.message : WellFormed(m)
    /\ \A b \in x.realTime : b \in 0 .. 255 /\ IsRealTime(b)
    /\ x.sends \in Nat /\ x.ticks \in Nat /\ x.loses \in Nat

VARIABLES
  session,    \* the line this is
  todo,       \* what is left of the message on the wire
  running,    \* the status byte a receiver is to remember; 0 when none
  sent,       \* history: the messages begun
  ranOn,      \* history: whether a repeated status byte was ever left out
  realTime,   \* history: the real-time bytes sent
  cutIn,      \* history: whether one was sent inside a message
  lost,       \* history: how many bytes were lost
  steadied    \* history: messages of two data bytes sent whole since then;
              \* -1 while the message that lost a byte is still on the wire

wireVars == <<session, todo, running, sent, ranOn, realTime, cutIn, lost, steadied>>

WireInit ==
  /\ session \in Session
  /\ todo = << >>
  /\ running = 0
  /\ sent = << >>
  /\ ranOn = FALSE
  /\ realTime = << >>
  /\ cutIn = FALSE
  /\ lost = 0
  /\ steadied = 0

\* The sender starts a message.  Every status below the real-time ones
\* replaces or, above the channel messages, cancels the running status.
Begin(m) ==
  /\ todo = << >>
  /\ Len(sent) < session.sends
  /\ \/ todo' = m /\ UNCHANGED ranOn
     \/ running = m[1] /\ Len(m) > 1 /\ todo' = Tail(m) /\ ranOn' = TRUE
  /\ running' = IF Voice(m) THEN m[1] ELSE 0
  /\ sent' = Append(sent, m)
  /\ UNCHANGED <<session, realTime, cutIn, lost, steadied>>

\* The next byte of the message leaves the wire.
NextByte ==
  /\ todo # << >>
  /\ todo' = Tail(todo)
  /\ UNCHANGED <<session, running, sent, ranOn, realTime, cutIn>>

\* It arrives, and perhaps completes a message.
ByteSent ==
  /\ NextByte
  /\ steadied' =
       IF Len(todo) = 1 /\ (steadied = -1 \/ TwoData(sent[Len(sent)]))
       THEN steadied + 1 ELSE steadied
  /\ UNCHANGED lost

\* It is lost.
ByteLost ==
  /\ NextByte
  /\ lost < session.loses
  /\ lost' = lost + 1
  /\ steadied' = IF Len(todo) = 1 THEN 0 ELSE -1

RealTimeSent(b) ==
  /\ Len(realTime) < session.ticks
  /\ realTime' = Append(realTime, b)
  /\ cutIn' = (cutIn \/ todo # << >>)
  /\ UNCHANGED <<session, todo, running, sent, ranOn, lost, steadied>>
=============================================================================

------------------------------ MODULE I2CSlave ------------------------------
(***************************************************************************)
(* The I2C slave (i2c.c).  The interrupt handler puts what the bus brings  *)
(* into a ring (RxQueue, used here as the bounded line it implements) and  *)
(* answers reads at once, from i2cResponse; the main loop takes the ring's *)
(* entries one by one, assembles commands of one to four bytes, and        *)
(* prepares the responses the handler will give.  A master that reads too  *)
(* early, or sends more than the ring holds, meets whatever is there.      *)
(***************************************************************************)
EXTENDS Integers, SequencesExt

CONSTANTS
  Transfer,      \* what a master writes, as sequences of bytes
  RxSize,        \* slots of the ring, kI2CRxQueueSize
  MaxTransfers,  \* bound: transfers to and from the master
  MaxRead        \* bound: bytes a master reads at a time

ASSUME I2CAssumption ==
  /\ Transfer \subseteq Seq(0 .. 255)
  /\ RxSize \in Nat \ {0} /\ MaxTransfers \in Nat /\ MaxRead \in Nat

VARIABLES
  todo,       \* what the master has still to do of its transfer
  rx,         \* the ring's entries, each with the number of its transfer
  i2cState,
  i2cMsg,
  pc,         \* "loop", or the store next due in preparing a response
  answer,     \* the last response prepared, or being prepared
  i2cResponse, i2cResponseIndex, i2cResponseSize,
  transfers,  \* history: what the master has written and read
  cut,        \* history: the transfers that lost an entry to a full ring
  executed,   \* history: the commands executed, for each transfer
  given,      \* history: what was read since the last response was ready
  torn        \* history: whether the master read while one was prepared

parser == <<i2cState, i2cMsg>>
response == <<i2cResponse, i2cResponseIndex, i2cResponseSize>>
history == <<transfers, cut, executed, given, torn>>
vars == <<todo, rx, parser, pc, answer, response, history>>

\* Entries of the ring that are no bytes: -(short)data for an address, whose
\* own value does not matter, and -0x100 for a byte the master has read.
Address == -98
ReadMark == -256

None == -1   \* what a read brings when there is nothing to give

OneByte == {\h42, \h43, \h45, \h4E, \h57, \h58, \h61, \h66}
TwoBytes == {\h44, \h53, \h56, \h59} \cup \h48 .. \h4C \cup \h5A .. \h5C \cup {\h5F}
ThreeBytes == {\h40, \h41, \h4D, \h5D, \h60, \h67} \cup \h62 .. \h65
FourBytes == {\h11, \h46, \h47, \h51, \h52, \h54, \h55, \h5E}
Message == {\h4F, \h50}

\* How many bytes a MIDI message has, by its status; 0 for one that is not
\* passed on.  The kind of a system message is in its low nibble.
NumBytes(status) ==
  CASE status \in \h80 .. \hBF \cup \hE0 .. \hEF \cup {\hF2} -> 3
    [] status \in \hC0 .. \hDF \cup {\hF1, \hF3}             -> 2
    [] status \in \hF4 .. \hFF                               -> 1
    [] OTHER                                                 -> 0

Init ==
  /\ todo = << >> /\ rx = << >>
  /\ i2cState = "idle" /\ i2cMsg = <<0, 0, 0, 0>>
  /\ pc = "loop" /\ answer = << >>
  /\ i2cResponse = <<0, 0>> /\ i2cResponseIndex = 0 /\ i2cResponseSize = 0
  /\ transfers = << >> /\ cut = {} /\ executed = << >>
  /\ given = << >> /\ torn = FALSE
-----------------------------------------------------------------------------
(***************************************************************************)
(* The master begins to write, or to read.                                 *)
(***************************************************************************)
Start(what, events) ==
  /\ todo = << >> /\ Len(transfers) < MaxTransfers
  /\ todo' = events
  /\ transfers' = Append(transfers, what)
  /\ executed' = Append(executed, << >>)
  /\ UNCHANGED <<rx, parser, pc, answer, response, cut, given, torn>>

MasterWrites(t) == Start(t, <<Address>> \o t)
MasterReads(n) == Start(<< >>, [i \in 1 .. n |-> ReadMark])

(***************************************************************************)
(* I2C4SlaveInterruptHandler, for one event of the bus.                    *)
(***************************************************************************)
Enqueue(e) ==
  IF Len(rx) < RxSize - 1
  THEN rx' = Append(rx, <<e, Len(transfers)>>) /\ UNCHANGED cut
  ELSE cut' = cut \cup {Len(transfers)} /\ UNCHANGED rx

\* Mutant of Respond: the size is not looked at.
RespondUnchecked ==
  /\ i2cResponseIndex' = i2cResponseIndex + 1
  /\ torn' = (torn \/ pc # "loop")
  /\ UNCHANGED <<i2cResponse, i2cResponseSize, given>>

Respond ==
  /\ IF i2cResponseIndex < i2cResponseSize
     THEN /\ given' = Append(given, i2cResponse[i2cResponseIndex + 1])
          /\ i2cResponseIndex' = i2cResponseIndex + 1
     ELSE given' = Append(given, None) /\ UNCHANGED i2cResponseIndex
  /\ torn' = (torn \/ pc # "loop")
  /\ UNCHANGED <<i2cResponse, i2cResponseSize>>

Interrupt ==
  /\ todo # << >>
  /\ todo' = Tail(todo)
  /\ Enqueue(Head(todo))
  /\ IF Head(todo) = ReadMark THEN Respond ELSE UNCHANGED <<response, given, torn>>
  /\ UNCHANGED <<parser, pc, answer, transfers, executed>>
-----------------------------------------------------------------------------
(***************************************************************************)
(* ProcessI2CIn.  The states are named after what is wanted: "2of4" is     *)
(* kWantByte2of4.                                                          *)
(***************************************************************************)
Position ==
  [s \in {"1", "2of2", "2of3", "3of3", "2of4", "3of4", "4of4", "2ofN"} |->
     CASE s = "1"                              -> 1
       [] s \in {"2of2", "2of3", "2of4", "2ofN"} -> 2
       [] s \in {"3of3", "3of4"}               -> 3
       [] s = "4of4"                           -> 4]

\* Mutant of After: an unknown command does not end the message.
AfterUnknown(b) ==
  CASE i2cState = "1" -> (CASE b \in TwoBytes   -> "2of2"
                            [] b \in ThreeBytes -> "2of3"
                            [] b \in FourBytes  -> "2of4"
                            [] b \in Message    -> "2ofN"
                            [] b \in OneByte    -> "idle"
                            [] OTHER            -> "1")
    [] i2cState = "2ofN" -> (CASE NumBytes(b) = 3 -> "3of4"
                               [] NumBytes(b) = 2 -> "3of3"
                               [] OTHER           -> "idle")
    [] i2cState = "2of4" -> "3of4"
    [] i2cState = "3of4" -> "4of4"
    [] i2cState \in {"2of3", "3of3"} -> "3of3"
    [] i2cState \in {"2of2", "4of4"} -> "idle"

\* The state a byte leads to.  The last byte of three leaves the state as it
\* is, so that a further one makes another command with the same beginning.
After(b) ==
  CASE i2cState = "1" -> (CASE b \in TwoBytes   -> "2of2"
                            [] b \in ThreeBytes -> "2of3"
                            [] b \in FourBytes  -> "2of4"
                            [] b \in Message    -> "2ofN"
                            [] OTHER            -> "idle")
    [] i2cState = "2ofN" -> (CASE NumBytes(b) = 3 -> "3of4"
                               [] NumBytes(b) = 2 -> "3of3"
                               [] OTHER           -> "idle")
    [] i2cState = "2of4" -> "3of4"
    [] i2cState = "3of4" -> "4of4"
    [] i2cState \in {"2of3", "3of3"} -> "3of3"
    [] i2cState \in {"2of2", "4of4"} -> "idle"

\* Whether byte b completes a command.
Completes(b) ==
  \/ i2cState = "1" /\ b \in OneByte
  \/ i2cState = "2ofN" /\ NumBytes(b) = 1
  \/ i2cState \in {"2of2", "3of3", "4of4"}

\* The bytes of a complete command that are acted on.
Command(msg) ==
  IF msg[1] \in Message THEN SubSeq(msg, 1, 1 + NumBytes(msg[2]))
  ELSE SubSeq(msg, 1, Position[i2cState])

\* The responses prepared in this code base; << >> where a command has none.
Answer(cmd) ==
  CASE cmd \in {\h43, \h61} \cup \h48 .. \h4A -> <<0, 0>>
    [] cmd = \h45                             -> <<1>>
    [] OTHER                                  -> << >>

Framed ==
  /\ Head(rx)[1] < 0
  /\ i2cState' = "1"
  /\ UNCHANGED <<i2cMsg, pc, answer, executed>>

Ignored ==
  /\ Head(rx)[1] >= 0 /\ i2cState = "idle"
  /\ UNCHANGED <<parser, pc, answer, executed>>

Taken ==
  LET b == Head(rx)[1]
      msg == [i2cMsg EXCEPT ![Position[i2cState]] = b] IN
  /\ b >= 0 /\ i2cState # "idle"
  /\ i2cMsg' = msg
  /\ i2cState' = After(b)
  /\ IF Completes(b)
     THEN /\ executed' = [executed EXCEPT ![Head(rx)[2]] =
                               Append(@, Command(msg))]
          /\ IF Answer(msg[1]) = << >> THEN UNCHANGED <<answer, pc>>
             ELSE answer' = Answer(msg[1]) /\ pc' = "bytes"
     ELSE UNCHANGED <<executed, answer, pc>>

ProcessI2CIn ==
  /\ pc = "loop" /\ rx # << >>
  /\ rx' = Tail(rx)
  /\ Framed \/ Ignored \/ Taken
  /\ UNCHANGED <<todo, response, transfers, cut, given, torn>>

(***************************************************************************)
(* The response is prepared in three stores that matter: its bytes, the    *)
(* index, and the size.  The handler may answer a read between them.       *)
(***************************************************************************)
Prepare ==
  /\ \/ /\ pc = "bytes" /\ pc' = "index"
        /\ i2cResponse' = answer \o SubSeq(i2cResponse, Len(answer) + 1, 2)
        /\ UNCHANGED <<i2cResponseIndex, i2cResponseSize, given, torn>>
     \/ /\ pc = "index" /\ pc' = "size"
        /\ i2cResponseIndex' = 0
        /\ UNCHANGED <<i2cResponse, i2cResponseSize>>
        /\ given' = << >> /\ torn' = FALSE
     \/ /\ pc = "size" /\ pc' = "loop"
        /\ i2cResponseSize' = Len(answer)
        /\ UNCHANGED <<i2cResponse, i2cResponseIndex, given, torn>>
  /\ UNCHANGED <<todo, rx, parser, answer, transfers, cut, executed>>

Next ==
  \/ \E t \in Transfer : MasterWrites(t)
  \/ \E n \in 1 .. MaxRead : MasterReads(n)
  \/ Interrupt
  \/ ProcessI2CIn
  \/ Prepare

Spec == Init /\ [][Next]_vars
-----------------------------------------------------------------------------
\* How many bytes the commands of a transfer have; 0 for one that has none.
Size(t) ==
  IF t[1] \in Message
  THEN (IF Len(t) = 1 \/ NumBytes(t[2]) = 0 THEN 0 ELSE 1 + NumBytes(t[2]))
  ELSE CASE t[1] \in OneByte    -> 1
         [] t[1] \in TwoBytes   -> 2
         [] t[1] \in ThreeBytes -> 3
         [] t[1] \in FourBytes  -> 4
         [] OTHER               -> 0

\* The commands a transfer stands for, read as a whole.
Meant(t) ==
  LET n == Size(t)
      repeats == IF n = 3 THEN Len(t) - 2 ELSE 1 IN
  IF n = 0 \/ Len(t) < n THEN << >>
  ELSE [k \in 1 .. repeats |-> Append(SubSeq(t, 1, n - 1), t[n + k - 1])]

\* Nothing of transfer i is on its way any more.
Over(i) == /\ todo # << >> => i < Len(transfers)
           /\ \A k \in 1 .. Len(rx) : rx[k][2] # i

(***************************************************************************)
(* A transfer the ring took whole is executed as it was meant, with no     *)
(* byte of an earlier command in it, whatever the transfers before it were *)
(* (cut short by the master, or cut up by a full ring) and whatever was    *)
(* read in between.  A three-byte command is executed once for every byte  *)
(* from the third on.                                                      *)
(***************************************************************************)
ExecutedAsMeant ==
  \A i \in 1 .. Len(transfers) :
    transfers[i] # << >> /\ i \notin cut =>
      /\ IsPrefix(executed[i], Meant(transfers[i]))
      /\ Over(i) => executed[i] = Meant(transfers[i])

(***************************************************************************)
(* A master that does not read while a response is being prepared is given *)
(* the last response that was ready, byte after byte, and nothing more,    *)
(* however its reads are spread over transfers; and no read, at whatever   *)
(* moment, takes the index past the end of i2cResponse.                    *)
(***************************************************************************)
ReadsTheResponse ==
  /\ i2cResponseIndex <= Len(i2cResponse)
  /\ pc = "loop" /\ ~torn =>
       \A k \in 1 .. Len(given) :
         given[k] = IF k <= Len(answer) THEN answer[k] ELSE None
=============================================================================

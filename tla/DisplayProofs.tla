--------------------------- MODULE DisplayProofs ---------------------------
(***************************************************************************)
(* Proofs about Display, for frames of every size, transmitters of every   *)
(* depth, every refresh and blanking time, and whichever displays are on.  *)
(***************************************************************************)
EXTENDS Display, TLAPS

\* Places where the loop is with a frame on its way, and without one.
Flushing == {"allow", "flush", "serving"}
Updating == {"draw", "command"}

TypeOK ==
  /\ pc \in {"check", "round"} \cup Flushing \cup Updating
  /\ elapsed \in 0 .. kDisplayRefreshCount /\ refreshCount \in Int
  /\ displayBlankCountdown \in Int /\ displayIsOn \in BOOLEAN
  /\ displayBytesToSend \in -1 .. FrameSize
  /\ screen \in [Place -> Settings] /\ drawn \in 0 .. 2 * FrameSize
  /\ settings \in Settings /\ quiet \in 0 .. kTimeToBlank
  /\ cs \in [Unit -> BOOLEAN] /\ dc \in BOOLEAN
  /\ gdram \in [Unit -> [Place -> Settings]] /\ pos \in [Unit -> Place]
  /\ lit \in [Unit -> BOOLEAN]

\* What the loop's place says of the frame and of the pins.
Phases ==
  /\ pc \in Flushing => displayBytesToSend >= 0
  /\ pc \in Updating => displayBytesToSend = -1
  /\ dc <=> pc # "command"
  /\ pc # "command" => commands = << >>
  /\ pc # "command" /\ displayBytesToSend >= 0 => cs = All(TRUE)
  /\ pc # "command" /\ displayBytesToSend = -1 => cs = All(FALSE) /\ spi = Empty

\* The bytes of a frame that display u has been sent, and those on the way.
Gone(u) == FrameSize - displayBytesToSend - Len(spi[u])

SendingTo(u) ==
  /\ spi[u] \in Seq(Settings) /\ Gone(u) >= 0
  /\ \A k \in 1 .. Len(spi[u]) : spi[u][k] = screen[Gone(u) + k - 1]
  /\ pos[u] = IF Gone(u) = FrameSize THEN 0 ELSE Gone(u)
  /\ \A i \in Place : i < Gone(u) => gdram[u][i] = screen[i]

Sending ==
  /\ spi \in [Unit -> Seq(Settings \cup {"page", "start", "end", "on", "off"})]
  /\ \A u \in Unit \ Enabled : spi[u] = << >>
  /\ displayBytesToSend >= 0 => \A u \in Enabled : SendingTo(u)

\* What the displays are being told, and which of them still has to hear it.
Wanted == IF displayIsOn THEN "off" ELSE "on"
Outstanding(u) ==
  \E k \in 1 .. Len(commands) :
    commands[k] = To(u, Wanted) /\ (k = 1 /\ cs[u] => spi[u] # << >>)

Commanding ==
  pc = "command" =>
    /\ commands \in Seq(Unit \X {"page", "start", "end", Wanted})
    /\ \A u \in Unit :
         /\ cs[u] => commands # << >> /\ u = Head(commands)[1]
         /\ spi[u] # << >> => cs[u] /\ spi[u] = <<Head(commands)[2]>>
    /\ \A u \in Enabled : lit[u] = ~displayIsOn \/ Outstanding(u)

\* The time since the last update began, as the program knows it, up to the
\* time from one to the next.
Since ==
  LET known == IF pc \in Updating THEN elapsed
               ELSE kDisplayRefreshCount - refreshCount + elapsed IN
  AtMost(known, kDisplayRefreshCount)

\* Since the last activity no more has been counted down than time has gone
\* by, but for the update that came first.
CountdownHonest ==
  /\ displayIsOn =>
       \/ quiet = kTimeToBlank
       \/ kTimeToBlank - displayBlankCountdown
            <= quiet + kDisplayRefreshCount - Since
  /\ ~displayIsOn => displayBlankCountdown \in {0, kTimeToBlank}
  /\ pc = "command" =>
       IF displayIsOn THEN quiet >= kTimeToBlank - kDisplayRefreshCount
                      ELSE displayBlankCountdown = kTimeToBlank

IInv ==
  /\ TypeOK /\ Phases /\ Sending /\ Commanding /\ CountdownHonest
  /\ LitAsMeant /\ FrameWhole

USE DisplayAssumption
-----------------------------------------------------------------------------
(* Types and phases. *)

LEMMA InitTypes == Init => TypeOK /\ Phases
BY DEF Init, TypeOK, Phases, Flushing, Updating, Settings, Place, Blank, All, Unit

\* Once a frame is no longer being sent, nothing is.
LEMMA AllSent ==
  ASSUME TypeOK, Phases, pc # "command", Sent
  PROVE  displayBytesToSend' = -1 /\ cs' = All(FALSE) /\ spi = Empty
<1>0. displayBytesToSend = 0 \/ displayBytesToSend = -1
  <2>1. displayBytesToSend \in -1 .. FrameSize /\ displayBytesToSend <= 0
    BY DEF Sent, TypeOK
  <2> QED
    BY <2>1
<1>1. CASE displayBytesToSend = 0
  BY <1>1 DEF Sent, SPIBUSY
<1>2. CASE displayBytesToSend = -1
  BY <1>2 DEF Sent, Phases
<1> QED
  BY <1>0, <1>1, <1>2

LEMMA CsTypes ==
  All(FALSE) \in [Unit -> BOOLEAN] /\ All(TRUE) \in [Unit -> BOOLEAN]
BY DEF All

\* With data selected, what a transmitter holds is bytes of the frame.
LEMMA InFrame ==
  ASSUME TypeOK, Phases, Sending, NEW u \in Unit, spi[u] # << >>, dc
  PROVE  /\ u \in Enabled /\ displayBytesToSend >= 0 /\ cs = All(TRUE)
         /\ pc # "command" /\ SendingTo(u)
<1>1. pc # "command"
  BY DEF Phases
<1>2. displayBytesToSend # -1
  BY <1>1 DEF Phases, Empty
<1>3. displayBytesToSend >= 0
  <2>1. displayBytesToSend \in -1 .. FrameSize
    BY DEF TypeOK
  <2> QED
    BY <1>2, <2>1
<1> QED
  BY <1>1, <1>3 DEF Sending, Phases

LEMMA HeadOfFrame ==
  ASSUME TypeOK, Phases, Sending, NEW u \in Unit, spi[u] # << >>, dc
  PROVE  Head(spi[u]) \in Settings
<1>1. spi[u] \in Seq(Settings)
  BY InFrame DEF SendingTo
<1> QED
  BY <1>1

LEMMA TypeStep ==
  ASSUME IInv, Next
  PROVE  TypeOK'
<1> USE DEF timing, blanking, drawing, service, pins, display, Flushing, Updating
<1>0. TypeOK /\ Phases
  BY DEF IInv
<1>1. CASE BlockDone
  BY <1>0, <1>1 DEF BlockDone, TypeOK
<1>2. ASSUME NEW n \in 1 .. MaxServed, NEW active \in BOOLEAN, Serve(n, active)
      PROVE  TypeOK'
  BY <1>0, <1>2 DEF Serve, Activity, AtMost, UntilQuiet, TypeOK
<1>3. CASE NothingDue \/ NotYet \/ NothingToAllow
  BY <1>0, <1>3 DEF NothingDue, NotYet, NothingToAllow, TypeOK
<1>4. CASE SendByte
  BY <1>0, <1>4 DEF SendByte, NextByte, TypeOK
<1>5. CASE EndFlush \/ TooEarly
  <2>1. pc' \in {"round", "check"} /\ pc # "command" /\ Sent
    BY <1>5 DEF EndFlush, TooEarly
  <2>2. displayBytesToSend' = -1 /\ cs' \in [Unit -> BOOLEAN]
    BY <1>0, <2>1, AllSent, CsTypes
  <2>3. elapsed' \in 0 .. kDisplayRefreshCount /\ refreshCount' \in Int
    BY <1>0, <1>5 DEF EndFlush, TooEarly, TypeOK
  <2>4. /\ UNCHANGED <<displayBlankCountdown, displayIsOn, screen, drawn>>
        /\ UNCHANGED <<settings, quiet, dc, gdram, pos, lit>>
    BY <1>5 DEF EndFlush, TooEarly
  <2> QED
    BY <1>0, <2>1, <2>2, <2>3, <2>4 DEF TypeOK
<1>6. CASE updateDisplay
  <2>1. pc' \in {"draw", "command"} /\ pc # "command" /\ Sent
    BY <1>6 DEF updateDisplay
  <2>2. displayBytesToSend' = -1 /\ cs' \in [Unit -> BOOLEAN]
    BY <1>0, <2>1, AllSent, CsTypes
  <2>3. displayBlankCountdown' \in Int
    BY <1>0, <1>6 DEF updateDisplay, Countdown, TypeOK
  <2>4. /\ elapsed' = 0 /\ drawn' = 0 /\ dc' \in BOOLEAN
        /\ UNCHANGED <<refreshCount, displayIsOn, screen>>
        /\ UNCHANGED <<settings, quiet, gdram, pos, lit>>
    BY <1>6 DEF updateDisplay
  <2> QED
    BY <1>0, <2>1, <2>2, <2>3, <2>4 DEF TypeOK
<1>7. CASE Draw
  BY <1>0, <1>7 DEF Draw, Clear, DrawInto, Settings, TypeOK
<1>8. CASE StartFrame
  <2>1. /\ pc' = "check" /\ cs' = All(TRUE) /\ displayBytesToSend' = FrameSize
        /\ refreshCount' = kDisplayRefreshCount
        /\ UNCHANGED <<elapsed, displayBlankCountdown, displayIsOn, screen, drawn>>
        /\ UNCHANGED <<settings, quiet, dc, gdram, pos, lit>>
    BY <1>8 DEF StartFrame
  <2>2. displayBytesToSend' \in -1 .. FrameSize /\ refreshCount' \in Int
    BY <2>1
  <2> QED
    BY <1>0, <2>1, <2>2, CsTypes DEF TypeOK
<1>9. CASE Commands
  <2>1. CASE WriteCommand
    BY <1>0, <2>1 DEF WriteCommand, TypeOK
  <2>2. CASE CommandSent
    BY <1>0, <2>2 DEF CommandSent, TypeOK
  <2>3. CASE CommandsSent
    BY <1>0, <2>3 DEF CommandsSent, Switched, TypeOK
  <2> QED
    BY <1>9, <2>1, <2>2, <2>3 DEF Commands
<1>10. ASSUME NEW u \in Unit, Shift(u) PROVE TypeOK'
  <2>1. /\ UNCHANGED <<pc, elapsed, refreshCount, displayBlankCountdown>>
        /\ UNCHANGED <<displayIsOn, displayBytesToSend, screen, drawn>>
        /\ UNCHANGED <<settings, quiet, cs, dc>>
    BY <1>10 DEF Shift
  <2>2. gdram' \in [Unit -> [Place -> Settings]] /\ pos' \in [Unit -> Place]
        /\ lit' \in [Unit -> BOOLEAN]
    <3>1. \/ /\ spi[u] # << >> /\ cs[u] /\ dc
             /\ gdram' = [gdram EXCEPT ![u][pos[u]] = Head(spi[u])]
             /\ pos' = [pos EXCEPT ![u] = (@ + 1) % FrameSize]
             /\ UNCHANGED lit
          \/ /\ UNCHANGED gdram
             /\ pos' = [pos EXCEPT ![u] = 0] \/ pos' = pos
             /\ lit' = lit \/ \E on \in BOOLEAN : lit' = [lit EXCEPT ![u] = on]
      BY <1>10 DEF Shift
    <3>2. CASE /\ spi[u] # << >> /\ cs[u] /\ dc
               /\ gdram' = [gdram EXCEPT ![u][pos[u]] = Head(spi[u])]
               /\ pos' = [pos EXCEPT ![u] = (@ + 1) % FrameSize]
               /\ UNCHANGED lit
      <4>1. Head(spi[u]) \in Settings
        BY <3>2, HeadOfFrame DEF IInv
      <4>2. pos[u] \in Place /\ pos[u] \in Nat
        BY <1>0 DEF TypeOK, Place
      <4>3. (pos[u] + 1) % FrameSize \in Place
        BY <4>2 DEF Place
      <4> QED
        BY <1>0, <3>2, <4>1, <4>2, <4>3 DEF TypeOK
    <3>3. CASE /\ UNCHANGED gdram
               /\ pos' = [pos EXCEPT ![u] = 0] \/ pos' = pos
               /\ lit' = lit \/ \E on \in BOOLEAN : lit' = [lit EXCEPT ![u] = on]
      <4>1. 0 \in Place
        BY DEF Place
      <4> QED
        BY <1>0, <3>3, <4>1 DEF TypeOK
    <3> QED
      BY <3>1, <3>2, <3>3
  <2> QED
    BY <1>0, <2>1, <2>2 DEF TypeOK
<1> QED
  BY <1>1, <1>2, <1>3, <1>4, <1>5, <1>6, <1>7, <1>8, <1>9, <1>10, Zenon
     DEF Next, Loop

LEMMA PhasesStep ==
  ASSUME IInv, Next
  PROVE  Phases'
<1> USE DEF timing, blanking, drawing, service, pins, display, Flushing, Updating
<1>0. TypeOK /\ Phases /\ Commanding
  BY DEF IInv
<1>1. CASE BlockDone
  BY <1>0, <1>1 DEF BlockDone, Phases
<1>2. ASSUME NEW n \in 1 .. MaxServed, NEW active \in BOOLEAN, Serve(n, active)
      PROVE  Phases'
  BY <1>0, <1>2 DEF Serve, Phases
<1>3. CASE NothingDue \/ NotYet \/ NothingToAllow
  BY <1>0, <1>3 DEF NothingDue, NotYet, NothingToAllow, Phases
<1>4. CASE SendByte
  <2>1. /\ pc' \in {"check", "round"} \cup Flushing /\ pc # "command"
        /\ displayBytesToSend' = displayBytesToSend - 1 /\ displayBytesToSend > 0
        /\ UNCHANGED <<commands, cs, dc>>
    BY <1>4 DEF SendByte, NextByte
  <2>2. displayBytesToSend' >= 0 /\ displayBytesToSend' # -1
    BY <1>0, <2>1 DEF TypeOK
  <2>3. displayBytesToSend >= 0
    BY <1>0, <2>1 DEF TypeOK
  <2> QED
    BY <1>0, <2>1, <2>2, <2>3 DEF Phases
<1>5. CASE EndFlush \/ TooEarly
  <2>1. /\ pc' \in {"round", "check"} /\ pc # "command" /\ Sent
        /\ UNCHANGED <<commands, dc, spi>>
    BY <1>5 DEF EndFlush, TooEarly
  <2>2. displayBytesToSend' = -1 /\ cs' = All(FALSE) /\ spi = Empty
    BY <1>0, <2>1, AllSent
  <2> QED
    BY <1>0, <2>1, <2>2 DEF Phases
<1>6. CASE updateDisplay
  <2>1. /\ pc' = (IF commands' = << >> THEN "draw" ELSE "command")
        /\ dc' <=> commands' = << >>
        /\ pc # "command" /\ Sent /\ UNCHANGED spi
    BY <1>6 DEF updateDisplay
  <2>2. displayBytesToSend' = -1 /\ cs' = All(FALSE) /\ spi = Empty
    BY <1>0, <2>1, AllSent
  <2>3. ~(displayBytesToSend' >= 0) /\ spi' = Empty
    BY <2>1, <2>2
  <2>4. CASE commands' = << >>
    <3>1. pc' = "draw" /\ dc'
      BY <2>1, <2>4
    <3> QED
      BY <2>2, <2>3, <2>4, <3>1 DEF Phases
  <2>5. CASE commands' # << >>
    <3>1. pc' = "command" /\ ~dc'
      BY <2>1, <2>5
    <3> QED
      BY <2>2, <2>3, <2>5, <3>1 DEF Phases
  <2> QED
    BY <2>4, <2>5
<1>7. CASE Draw
  BY <1>0, <1>7 DEF Draw, Phases
<1>8. CASE StartFrame
  <2>1. /\ pc' = "check" /\ pc = "draw" /\ cs' = All(TRUE)
        /\ displayBytesToSend' = FrameSize
        /\ UNCHANGED <<commands, dc, spi>>
    BY <1>8 DEF StartFrame
  <2>2. displayBytesToSend' # -1 /\ displayBytesToSend' >= 0
    BY <2>1
  <2> QED
    BY <1>0, <2>1, <2>2 DEF Phases
<1>9. CASE Commands
  <2>1. CASE WriteCommand
    BY <1>0, <2>1 DEF WriteCommand, Phases
  <2>2. CASE CommandSent
    BY <1>0, <2>2 DEF CommandSent, Phases
  <2>3. CASE CommandsSent
    <3>1. pc = "command" /\ commands = << >>
      BY <2>3 DEF CommandsSent
    <3>2. \A u \in Unit : ~cs[u] /\ spi[u] = << >>
      BY <1>0, <3>1 DEF Commanding
    <3>3. cs = All(FALSE)
      BY <1>0, <3>2 DEF TypeOK, All
    <3>4. spi = Empty
      BY <3>2 DEF IInv, Sending, Empty
    <3>5. /\ pc' = "draw" /\ dc' = TRUE
          /\ UNCHANGED <<displayBytesToSend, commands, spi, cs>>
      BY <2>3 DEF CommandsSent
    <3>6. displayBytesToSend = -1
      BY <1>0, <3>1 DEF Phases
    <3> QED
      BY <3>1, <3>3, <3>4, <3>5, <3>6 DEF Phases
  <2> QED
    BY <1>9, <2>1, <2>2, <2>3 DEF Commands
<1>10. ASSUME NEW u \in Unit, Shift(u) PROVE Phases'
  <2>1. /\ UNCHANGED <<pc, commands, dc, cs, displayBytesToSend>>
        /\ spi[u] # << >>
    BY <1>10 DEF Shift
  <2>2. spi # Empty
    BY <2>1 DEF Empty
  <2> QED
    BY <1>0, <2>1, <2>2 DEF Phases
<1> QED
  BY <1>1, <1>2, <1>3, <1>4, <1>5, <1>6, <1>7, <1>8, <1>9, <1>10, Zenon
     DEF Next, Loop
-----------------------------------------------------------------------------
(* The time until the displays go off. *)

LEMMA CountdownStep ==
  ASSUME IInv, Next
  PROVE  CountdownHonest'
<1> USE DEF IInv, TypeOK, Phases, timing, blanking, drawing, service, pins,
            display, Flushing, Updating, CountdownHonest, Since, AtMost
<1>1. CASE BlockDone
  BY <1>1 DEF BlockDone
<1>2. ASSUME NEW n \in 1 .. MaxServed, NEW active \in BOOLEAN, Serve(n, active)
      PROVE  CountdownHonest'
  BY <1>2 DEF Serve, Activity, UntilQuiet
<1>3. CASE NothingDue \/ NotYet \/ NothingToAllow
  BY <1>3 DEF NothingDue, NotYet, NothingToAllow
<1>4. CASE SendByte
  BY <1>4 DEF SendByte, NextByte
<1>5. CASE EndFlush \/ TooEarly
  <2>1. CASE EndFlush
    BY <2>1 DEF EndFlush
  <2>2. CASE TooEarly
    <3>1. /\ refreshCount' = refreshCount - elapsed /\ elapsed' = 0
          /\ pc = "round" /\ pc' = "check"
          /\ UNCHANGED <<displayBlankCountdown, displayIsOn, quiet>>
      BY <2>2 DEF TooEarly
    <3>2. kDisplayRefreshCount - refreshCount' + elapsed' =
            kDisplayRefreshCount - refreshCount + elapsed
      BY <3>1
    <3> HIDE DEF TypeOK, Phases
    <3>3. Since' = Since
      BY <3>1, <3>2
    <3> QED
      BY <3>1, <3>3
  <2> QED
    BY <1>5, <2>1, <2>2
<1>6. CASE updateDisplay
  BY <1>6 DEF updateDisplay, Sent, Countdown
<1>7. CASE Draw
  BY <1>7 DEF Draw
<1>8. CASE StartFrame
  BY <1>8 DEF StartFrame
<1>9. CASE Commands
  BY <1>9 DEF Commands, WriteCommand, CommandSent, CommandsSent, Switched
<1>10. ASSUME NEW u \in Unit, Shift(u) PROVE CountdownHonest'
  BY <1>10 DEF Shift
<1> QED
  BY <1>1, <1>2, <1>3, <1>4, <1>5, <1>6, <1>7, <1>8, <1>9, <1>10, Zenon
     DEF Next, Loop
-----------------------------------------------------------------------------
(* The frame on its way. *)

LEMMA TailOf ==
  ASSUME NEW S, NEW q \in Seq(S), q # << >>
  PROVE  /\ Tail(q) \in Seq(S) /\ Head(q) = q[1] /\ Head(q) \in S
         /\ Len(q) \in Nat /\ Len(q) >= 1 /\ Len(Tail(q)) = Len(q) - 1
         /\ \A k \in 1 .. Len(Tail(q)) : Tail(q)[k] = q[k + 1]
OBVIOUS

LEMMA AppendTo ==
  ASSUME NEW S, NEW q \in Seq(S), NEW e \in S
  PROVE  /\ Append(q, e) \in Seq(S) /\ Len(q) \in Nat
         /\ Len(Append(q, e)) = Len(q) + 1
         /\ \A k \in 1 .. Len(q) : Append(q, e)[k] = q[k]
         /\ Append(q, e)[Len(q) + 1] = e
OBVIOUS

LEMMA ModSmall ==
  ASSUME NEW d \in Nat \ {0}, NEW x \in 0 .. d - 1
  PROVE  x % d = x
<1>1. x \div d \in Int /\ x % d \in 0 .. d - 1 /\ x = (d * (x \div d)) + (x % d)
  OBVIOUS
<1>2. ASSUME NEW q \in Int, NEW r \in 0 .. d - 1, x = d * q + r PROVE q = 0
  <2>1. CASE q >= 1
    <3>1. d * (q - 1) >= 0 /\ d * q = d * (q - 1) + d
      BY <2>1
    <3> QED
      BY <1>2, <3>1
  <2>2. CASE q <= -1
    <3>1. d * (-q - 1) >= 0 /\ d * q = -(d * (-q - 1)) - d
      BY <2>2
    <3> QED
      BY <1>2, <3>1
  <2> QED
    BY <2>1, <2>2
<1>3. x \div d = 0
  BY <1>1, <1>2
<1> QED
  BY <1>1, <1>3

\* A frame that has all gone is the screen, and the next begins at its start.
LEMMA FrameThere ==
  ASSUME TypeOK, NEW u \in Unit, SendingTo(u), displayBytesToSend = 0,
         spi[u] = << >>
  PROVE  pos[u] = 0 /\ gdram[u] = screen
<1>1. Gone(u) = FrameSize
  <2>1. Len(spi[u]) = 0
    OBVIOUS
  <2> QED
    BY <2>1 DEF Gone
<1>2. \A i \in Place : i < FrameSize
  BY DEF Place
<1>3. \A i \in Place : gdram[u][i] = screen[i]
  BY <1>1, <1>2 DEF SendingTo
<1> QED
  BY <1>1, <1>3 DEF SendingTo, TypeOK

\* What a transmitter holds as it takes a byte, and as one goes out.
LEMMA TakeByte ==
  ASSUME TypeOK, NEW u \in Enabled, u \in Unit, SendingTo(u), NextByte,
         displayBytesToSend > 0, UNCHANGED <<screen, pos, gdram>>
  PROVE  SendingTo(u)'
<1> DEFINE n == displayBytesToSend
           q == spi[u]
           b == screen[FrameSize - n]
<1>1. n \in 1 .. FrameSize /\ FrameSize - n \in Place
  BY DEF TypeOK, Place
<1>2. b \in Settings
  BY <1>1 DEF TypeOK
<1>3. q \in Seq(Settings)
  BY DEF SendingTo
<1>4. spi'[u] = Append(q, b) /\ displayBytesToSend' = n - 1
  BY DEF NextByte, Taken
<1> DEFINE g == Gone(u)
           l == Len(q)
<1>5. l \in Nat /\ g = FrameSize - n - l /\ g >= 0 /\ g \in Int
  <2>1. l \in Nat
    BY <1>3
  <2> QED
    BY <1>1, <2>1 DEF Gone, SendingTo
<1>6. Len(spi'[u]) = l + 1
  BY <1>2, <1>3, <1>4, AppendTo
<1>7. Gone(u)' = g
  BY <1>1, <1>4, <1>5, <1>6 DEF Gone
<1>8. ASSUME NEW k \in 1 .. l + 1 PROVE spi'[u][k] = screen[g + k - 1]
  <2>1. CASE k \in 1 .. l
    BY <1>2, <1>3, <1>4, <2>1, AppendTo DEF SendingTo
  <2>2. CASE k = l + 1
    <3>1. g + k - 1 = FrameSize - n
      BY <1>1, <1>5, <2>2
    <3> QED
      BY <1>2, <1>3, <1>4, <2>2, <3>1, AppendTo
  <2> QED
    BY <1>5, <2>1, <2>2
<1>9. spi'[u] \in Seq(Settings)
  BY <1>2, <1>3, <1>4, AppendTo
<1>10. pos'[u] = IF g = FrameSize THEN 0 ELSE g
  BY DEF SendingTo
<1>11. \A i \in Place : i < g => gdram'[u][i] = screen'[i]
  BY DEF SendingTo
<1>12. \A k \in 1 .. Len(spi'[u]) : spi'[u][k] = screen'[g + k - 1]
  BY <1>6, <1>8
<1> HIDE DEF g, l
<1> QED
  BY <1>5, <1>7, <1>9, <1>10, <1>11, <1>12, Zenon DEF SendingTo

LEMMA ByteGone ==
  ASSUME TypeOK, NEW u \in Unit, SendingTo(u), spi[u] # << >>,
         displayBytesToSend >= 0,
         gdram' = [gdram EXCEPT ![u][pos[u]] = Head(spi[u])],
         pos' = [pos EXCEPT ![u] = (@ + 1) % FrameSize],
         spi' = [spi EXCEPT ![u] = Tail(@)], DOMAIN spi = Unit,
         UNCHANGED <<screen, displayBytesToSend>>
  PROVE  SendingTo(u)'
<1> DEFINE n == displayBytesToSend
           q == spi[u]
           g == Gone(u)
           l == Len(q)
<1>1. n \in 0 .. FrameSize
  BY DEF TypeOK
<1>2. /\ q \in Seq(Settings) /\ Head(q) = q[1] /\ l \in Nat /\ l >= 1
      /\ Tail(q) \in Seq(Settings) /\ Len(Tail(q)) = l - 1
      /\ \A k \in 1 .. l - 1 : Tail(q)[k] = q[k + 1]
  <2>1. q \in Seq(Settings)
    BY DEF SendingTo
  <2> HIDE DEF q
  <2>2. q # << >>
    BY DEF q
  <2> QED
    BY <2>1, <2>2, TailOf
<1>3. g \in Int /\ g >= 0 /\ g = FrameSize - n - l
  BY <1>1, <1>2 DEF Gone, SendingTo
<1>4. g < FrameSize /\ g \in Place /\ pos[u] = g
  BY <1>1, <1>2, <1>3 DEF SendingTo, Place
<1>5. spi'[u] = Tail(q)
  OBVIOUS
<1>6. Gone(u)' = g + 1
  BY <1>1, <1>2, <1>3, <1>5 DEF Gone
<1>7. q[1] = screen[g] /\ \A k \in 1 .. l - 1 : q[k + 1] = screen[(g + 1) + k - 1]
  <2>1. \A k \in 1 .. l : q[k] = screen[g + k - 1]
    BY DEF SendingTo
  <2>2. g + 1 - 1 = g /\ \A k \in 1 .. l - 1 :
          k + 1 \in 1 .. l /\ g + (k + 1) - 1 = (g + 1) + k - 1
    BY <1>2, <1>3
  <2>3. 1 \in 1 .. l
    BY <1>2
  <2> HIDE DEF q, g, l
  <2> QED
    BY <2>1, <2>2, <2>3
<1>8. pos'[u] = IF g + 1 = FrameSize THEN 0 ELSE g + 1
  <2>1. pos'[u] = (g + 1) % FrameSize
    BY <1>4 DEF TypeOK
  <2>2. CASE g + 1 = FrameSize
    BY <2>1, <2>2
  <2>3. CASE g + 1 # FrameSize
    <3>1. g + 1 \in 0 .. FrameSize - 1 /\ FrameSize \in Nat \ {0}
      BY <1>3, <1>4, <2>3
    <3>2. (g + 1) % FrameSize = g + 1
      <4> HIDE DEF g
      <4> QED
        BY <3>1, ModSmall
    <3> QED
      BY <2>1, <2>3, <3>2
  <2> QED
    BY <2>2, <2>3
<1>9. ASSUME NEW i \in Place, i < g + 1 PROVE gdram'[u][i] = screen[i]
  <2>1. gdram'[u] = [gdram[u] EXCEPT ![g] = q[1]]
    BY <1>2, <1>4 DEF TypeOK
  <2>2. gdram[u] \in [Place -> Settings]
    BY DEF TypeOK
  <2>3. CASE i = g
    BY <1>4, <1>7, <2>1, <2>2, <2>3
  <2>4. CASE i # g
    <3>1. i < g
      BY <1>3, <1>9, <2>4 DEF Place
    <3>2. gdram[u][i] = screen[i]
      BY <3>1 DEF SendingTo
    <3> HIDE DEF g, q
    <3> QED
      BY <2>1, <2>2, <2>4, <3>2
  <2> QED
    BY <2>3, <2>4
<1> HIDE DEF g, l, q
<1>10. \A k \in 1 .. Len(spi'[u]) : spi'[u][k] = screen[(g + 1) + k - 1]
  <2>1. Len(spi'[u]) = l - 1
    BY <1>2, <1>5
  <2> SUFFICES ASSUME NEW k \in 1 .. l - 1
               PROVE  spi'[u][k] = screen[(g + 1) + k - 1]
    BY <2>1
  <2>2. Tail(q)[k] = q[k + 1]
    BY <1>2
  <2>3. q[k + 1] = screen[(g + 1) + k - 1]
    BY <1>7
  <2> QED
    BY <1>5, <2>2, <2>3, Zenon
<1>11. spi'[u] \in Seq(Settings) /\ g + 1 >= 0
  <2>1. spi'[u] \in Seq(Settings)
    BY <1>2, <1>5, Zenon
  <2>2. g + 1 >= 0
    BY <1>3
  <2> QED
    BY <2>1, <2>2
<1> QED
  BY <1>6, <1>8, <1>9, <1>10, <1>11, Zenon DEF SendingTo

LEMMA SendingStep ==
  ASSUME IInv, Next
  PROVE  Sending' /\ FrameWhole'
<1> DEFINE Bytes == Settings \cup {"page", "start", "end", "on", "off"}
<1> USE DEF timing, blanking, drawing, service, pins, display, Flushing, Updating
<1>0. TypeOK /\ Phases /\ Sending /\ Commanding /\ FrameWhole
  BY DEF IInv
<1>00. Enabled \subseteq Unit
  BY DEF Unit
\* Most steps leave the frame, the transmitters and the displays alone.
<1>a. ASSUME UNCHANGED <<spi, screen, gdram, pos>>,
             UNCHANGED displayBytesToSend,
             pc' \in {"check", "round"} => pc \in {"check", "round"}
                                          \/ displayBytesToSend # -1
      PROVE  Sending' /\ FrameWhole'
  <2>1. ASSUME NEW u \in Enabled, SendingTo(u) PROVE SendingTo(u)'
    BY <1>a, <2>1 DEF SendingTo, Gone
  <2>2. Sending'
    BY <1>0, <1>a, <2>1, Zenon DEF Sending
  <2>3. FrameWhole'
    BY <1>0, <1>a, Zenon DEF FrameWhole
  <2> QED
    BY <2>2, <2>3
\* Several end a frame, if one was being sent.
<1>b. ASSUME UNCHANGED <<spi, screen, gdram, pos>>, pc # "command",
             pc' \in {"check", "round"} => pc \notin Updating, Sent
      PROVE  Sending' /\ FrameWhole'
  <2>1. displayBytesToSend' = -1 /\ ~(displayBytesToSend' >= 0) /\ spi = Empty
    BY <1>0, <1>b, AllSent
  <2>2. Sending'
    BY <1>0, <1>b, <2>1, Zenon DEF Sending
  <2>3. ASSUME NEW u \in Enabled
        PROVE  pos[u] = 0 /\ (pc' \in {"check", "round"} => gdram[u] = screen)
    <3>1. CASE displayBytesToSend = 0
      <4>1. SendingTo(u) /\ spi[u] = << >>
        BY <1>0, <1>00, <2>1, <3>1 DEF Sending, Empty
      <4> QED
        BY <1>0, <1>00, <3>1, <4>1, FrameThere
    <3>2. CASE displayBytesToSend = -1
      <4>1. pc' \in {"check", "round"} => pc \in {"check", "round"}
        BY <1>0, <1>b, <3>2 DEF TypeOK, Phases
      <4> QED
        BY <1>0, <3>2, <4>1, Zenon DEF FrameWhole
    <3>3. displayBytesToSend \in {-1, 0}
      BY <1>0, <1>b DEF Sent, TypeOK
    <3> QED
      BY <3>1, <3>2, <3>3
  <2>4. FrameWhole'
    BY <1>b, <2>3, Zenon DEF FrameWhole
  <2> QED
    BY <2>2, <2>4
<1>1. CASE BlockDone
  BY <1>1, <1>a DEF BlockDone
<1>2. ASSUME NEW n \in 1 .. MaxServed, NEW active \in BOOLEAN, Serve(n, active)
      PROVE  Sending' /\ FrameWhole'
  <2>1. /\ UNCHANGED <<spi, screen, gdram, pos, displayBytesToSend>>
        /\ pc' \in {"check", "round"} => pc \in {"check", "round"}
    BY <1>2 DEF Serve
  <2> QED
    BY <2>1, <1>a
<1>3. CASE NothingDue \/ NotYet \/ NothingToAllow
  <2>1. /\ UNCHANGED <<spi, screen, gdram, pos, displayBytesToSend>>
        /\ pc \in {"check", "round", "allow"}
    BY <1>3 DEF NothingDue, NotYet, NothingToAllow
  <2>2. pc = "allow" => displayBytesToSend # -1
    BY <1>0 DEF Phases
  <2> QED
    BY <2>1, <2>2, <1>a
<1>4. CASE SendByte
  <2>1. /\ displayBytesToSend > 0 /\ NextByte
        /\ UNCHANGED <<screen, pos, gdram>>
        /\ spi' = [u \in Unit |-> Taken(u, screen[FrameSize - displayBytesToSend])]
    BY <1>4 DEF SendByte, NextByte
  <2>2. displayBytesToSend \in 1 .. FrameSize /\ displayBytesToSend' # -1
    BY <1>0, <2>1 DEF TypeOK, NextByte
  <2>3. \A u \in Enabled : SendingTo(u)'
    <3>1. \A u \in Enabled : SendingTo(u)
      BY <1>0, <2>2 DEF Sending
    <3> QED
      BY <1>0, <1>00, <2>1, <3>1, TakeByte
  <2>4. screen[FrameSize - displayBytesToSend] \in Settings
    <3>1. FrameSize - displayBytesToSend \in Place
      BY <2>2 DEF Place
    <3> QED
      BY <1>0, <3>1 DEF TypeOK
  <2>5. ASSUME NEW u \in Unit
        PROVE  /\ spi'[u] \in Seq(Bytes)
               /\ u \notin Enabled => spi'[u] = << >>
    <3>1. spi[u] \in Seq(Bytes) /\ (u \notin Enabled => spi[u] = << >>)
      BY <1>0 DEF Sending
    <3>2. screen[FrameSize - displayBytesToSend] \in Bytes
      BY <2>4
    <3> HIDE DEF Bytes
    <3> QED
      BY <2>1, <3>1, <3>2 DEF Taken
  <2>6. spi' \in [Unit -> Seq(Bytes)]
    BY <2>1, <2>5
  <2>7. Sending'
    BY <2>3, <2>5, <2>6, Zenon DEF Sending
  <2>8. FrameWhole'
    BY <2>2 DEF FrameWhole
  <2> QED
    BY <2>7, <2>8
<1>5. CASE EndFlush \/ TooEarly
  <2>1. /\ UNCHANGED <<spi, screen, gdram, pos>> /\ Sent
        /\ pc \in {"flush", "serving", "round"}
    BY <1>5 DEF EndFlush, TooEarly
  <2> QED
    BY <2>1, <1>b
<1>6. CASE updateDisplay
  <2>1. /\ UNCHANGED <<spi, screen, gdram, pos>> /\ Sent
        /\ pc = "round"
    BY <1>6 DEF updateDisplay
  <2> QED
    BY <2>1, <1>b
<1>7. CASE Draw
  <2>1. pc = "draw" /\ pc' = "draw"
        /\ UNCHANGED <<spi, gdram, pos, displayBytesToSend>>
    BY <1>7 DEF Draw
  <2>2. displayBytesToSend = -1 /\ ~(displayBytesToSend' >= 0)
    BY <1>0, <2>1 DEF Phases
  <2>3. Sending'
    BY <1>0, <2>1, <2>2, Zenon DEF Sending
  <2>4. FrameWhole'
    BY <1>0, <2>1, <2>2 DEF FrameWhole
  <2> QED
    BY <2>3, <2>4
<1>8. CASE StartFrame
  <2>1. /\ pc = "draw" /\ displayBytesToSend' = FrameSize
        /\ UNCHANGED <<spi, screen, gdram, pos>>
    BY <1>8 DEF StartFrame
  <2>2. displayBytesToSend = -1 /\ spi = Empty
    BY <1>0, <2>1 DEF Phases
  <2>3. displayBytesToSend' # -1
    BY <2>1
  <2>4. ASSUME NEW u \in Enabled PROVE SendingTo(u)'
    <3>1. spi'[u] = << >> /\ pos'[u] = 0
      BY <1>0, <1>00, <2>1, <2>2 DEF Empty, FrameWhole
    <3>2. Len(spi'[u]) = 0 /\ spi'[u] \in Seq(Settings)
      BY <3>1
    <3>3. Gone(u)' = 0
      BY <2>1, <3>2 DEF Gone
    <3>4. ~ \E i \in Place : i < 0
      BY DEF Place
    <3>5. 0 # FrameSize
      OBVIOUS
    <3> QED
      BY <3>1, <3>2, <3>3, <3>4, <3>5 DEF SendingTo
  <2>5. Sending'
    BY <1>0, <2>1, <2>4, Zenon DEF Sending
  <2>6. FrameWhole'
    BY <2>3 DEF FrameWhole
  <2> QED
    BY <2>5, <2>6
<1>9. CASE WriteCommand
  <2>1. /\ pc = "command" /\ commands # << >>
        /\ UNCHANGED <<pc, screen, gdram, pos, displayBytesToSend>>
        /\ spi' = [spi EXCEPT ![Head(commands)[1]] =
                     Taken(Head(commands)[1], Head(commands)[2])]
    BY <1>9 DEF WriteCommand
  <2>2. Head(commands)[1] \in Unit /\ Head(commands)[2] \in Bytes
    <3>1. commands \in Seq(Unit \X {"page", "start", "end", Wanted})
      BY <1>0, <2>1 DEF Commanding
    <3>2. Head(commands) \in Unit \X {"page", "start", "end", Wanted}
      BY <2>1, <3>1
    <3> QED
      BY <3>2 DEF Wanted
  <2>3. displayBytesToSend = -1 /\ ~(displayBytesToSend' >= 0)
    BY <1>0, <2>1 DEF Phases
  <2>4. spi' \in [Unit -> Seq(Bytes)] /\ \A u \in Unit \ Enabled : spi'[u] = << >>
    <3>1. spi \in [Unit -> Seq(Bytes)] /\ \A u \in Unit \ Enabled : spi[u] = << >>
      BY <1>0, Zenon DEF Sending
    <3> HIDE DEF Bytes
    <3> QED
      BY <2>1, <2>2, <3>1 DEF Taken
  <2>5. Sending'
    BY <2>3, <2>4, Zenon DEF Sending
  <2>6. FrameWhole'
    BY <1>0, <2>1 DEF FrameWhole
  <2> QED
    BY <2>5, <2>6
<1>10. CASE CommandSent
  <2>1. UNCHANGED <<pc, spi, screen, gdram, pos, displayBytesToSend>>
    BY <1>10 DEF CommandSent
  <2> QED
    BY <2>1, <1>a
<1>11. CASE CommandsSent
  <2>1. UNCHANGED <<spi, screen, gdram, pos, displayBytesToSend>> /\ pc' = "draw"
    BY <1>11 DEF CommandsSent
  <2> QED
    BY <2>1, <1>a
<1>12. ASSUME NEW u \in Unit, Shift(u) PROVE Sending' /\ FrameWhole'
  <2>1. /\ spi[u] # << >> /\ spi' = [spi EXCEPT ![u] = Tail(@)]
        /\ UNCHANGED <<pc, screen, displayBytesToSend, dc, cs>>
    BY <1>12 DEF Shift
  <2>2. spi' \in [Unit -> Seq(Bytes)]
        /\ \A v \in Unit \ Enabled : spi'[v] = << >>
    <3>1. spi \in [Unit -> Seq(Bytes)] /\ \A v \in Unit \ Enabled : spi[v] = << >>
      BY <1>0, Zenon DEF Sending
    <3> HIDE DEF Bytes
    <3>2. Tail(spi[u]) \in Seq(Bytes) /\ u \in Enabled
      BY <2>1, <3>1
    <3> QED
      BY <2>1, <3>1, <3>2
  <2>3. CASE dc
    <3>1. /\ u \in Enabled /\ displayBytesToSend >= 0 /\ cs = All(TRUE)
          /\ pc # "command" /\ SendingTo(u)
      BY <1>0, <2>1, <2>3, InFrame
    <3>2. cs[u]
      BY <3>1 DEF All
    <3>3. /\ gdram' = [gdram EXCEPT ![u][pos[u]] = Head(spi[u])]
          /\ pos' = [pos EXCEPT ![u] = (@ + 1) % FrameSize]
      BY <1>12, <2>3, <3>2 DEF Shift
    <3>4. SendingTo(u)'
      <4>1. DOMAIN spi = Unit
        BY <1>0 DEF Sending
      <4> QED
        BY <1>0, <2>1, <3>1, <3>3, <4>1, ByteGone
    <3>5. ASSUME NEW v \in Enabled, v # u PROVE SendingTo(v)'
      <4>1. SendingTo(v) /\ v \in Unit
        BY <1>0, <1>00, <3>1 DEF Sending
      <4>2. spi'[v] = spi[v] /\ gdram'[v] = gdram[v] /\ pos'[v] = pos[v]
        BY <1>0, <2>1, <3>3, <3>5, <4>1 DEF TypeOK, Sending
      <4> QED
        BY <2>1, <4>1, <4>2 DEF SendingTo, Gone
    <3>6. Sending'
      BY <2>2, <3>4, <3>5, Zenon DEF Sending
    <3>7. displayBytesToSend # -1
      BY <3>1
    <3> QED
      BY <2>1, <3>6, <3>7 DEF FrameWhole
  <2>4. CASE ~dc
    <3>1. pc = "command" /\ displayBytesToSend = -1
      BY <1>0, <2>4 DEF Phases
    <3>2. ~(displayBytesToSend' >= 0)
      BY <2>1, <3>1
    <3>3. UNCHANGED gdram /\ (pos' = pos \/ pos' = [pos EXCEPT ![u] = 0])
      BY <1>12, <2>4 DEF Shift
    <3>4. \A v \in Enabled : pos[v] = 0
      BY <1>0, <3>1 DEF FrameWhole
    <3>5. \A v \in Enabled : pos'[v] = 0
      BY <1>0, <1>00, <3>3, <3>4 DEF TypeOK
    <3> QED
      BY <2>1, <2>2, <3>1, <3>2, <3>5 DEF Sending, FrameWhole
  <2> QED
    BY <2>3, <2>4
<1> QED
  BY <1>1, <1>2, <1>3, <1>4, <1>5, <1>6, <1>7, <1>8, <1>9, <1>10, <1>11, <1>12,
     Zenon DEF Next, Loop, Commands
-----------------------------------------------------------------------------
(* The commands to the displays. *)

\* What turns a display off or on reaches both, the last of each a switch.
LEMMA CommandLists ==
  /\ turnOffDisplay \in Seq(Unit \X {"page", "start", "end", "off"})
  /\ turnOnDisplay \in Seq(Unit \X {"page", "start", "end", "on"})
  /\ \A u \in Unit :
       /\ \E k \in 1 .. Len(turnOffDisplay) : turnOffDisplay[k] = To(u, "off")
       /\ \E k \in 1 .. Len(turnOnDisplay) : turnOnDisplay[k] = To(u, "on")
<1>1. turnOffDisplay \in Seq(Unit \X {"page", "start", "end", "off"})
  BY DEF turnOffDisplay, To, Unit
<1>2. turnOnDisplay \in Seq(Unit \X {"page", "start", "end", "on"})
  BY DEF turnOnDisplay, To, Unit
<1>3. /\ Len(turnOffDisplay) = 2
      /\ turnOffDisplay[1] = To(1, "off") /\ turnOffDisplay[2] = To(2, "off")
  BY DEF turnOffDisplay
<1>4. /\ Len(turnOnDisplay) = 5
      /\ turnOnDisplay[4] = To(1, "on") /\ turnOnDisplay[5] = To(2, "on")
  BY DEF turnOnDisplay
<1>5. ASSUME NEW u \in Unit
      PROVE  /\ \E k \in 1 .. Len(turnOffDisplay) : turnOffDisplay[k] = To(u, "off")
             /\ \E k \in 1 .. Len(turnOnDisplay) : turnOnDisplay[k] = To(u, "on")
  <2>1. CASE u = 1
    <3>1. 1 \in 1 .. Len(turnOffDisplay) /\ 4 \in 1 .. Len(turnOnDisplay)
      BY <1>3, <1>4
    <3> QED
      BY <1>3, <1>4, <2>1, <3>1
  <2>2. CASE u = 2
    <3>1. 2 \in 1 .. Len(turnOffDisplay) /\ 5 \in 1 .. Len(turnOnDisplay)
      BY <1>3, <1>4
    <3> QED
      BY <1>3, <1>4, <2>2, <3>1
  <2> QED
    BY <2>1, <2>2 DEF Unit
<1> QED
  BY <1>1, <1>2, <1>5

\* A display that is told has heard it when the byte has gone out.
LEMMA ShiftCommands ==
  ASSUME TypeOK, Phases, Sending, Commanding, pc = "command",
         NEW u \in Unit, Shift(u)
  PROVE  Commanding'
<1> USE DEF timing, blanking, drawing, service, pins, display
<1> DEFINE c == Head(commands)
<1>1. /\ spi[u] # << >> /\ spi' = [spi EXCEPT ![u] = Tail(@)]
      /\ UNCHANGED <<pc, displayIsOn, commands, cs>>
  BY DEF Shift
<1>2. /\ cs[u] /\ commands # << >> /\ c[1] = u /\ spi[u] = <<c[2]>>
      /\ commands \in Seq(Unit \X {"page", "start", "end", Wanted})
      /\ \A v \in Unit : v # u => ~cs[v] /\ spi[v] = << >>
  BY <1>1 DEF Commanding
<1>3. c \in Unit \X {"page", "start", "end", Wanted}
  BY <1>2
<1>4. Wanted' = Wanted /\ Wanted \in {"on", "off"} /\ ~dc
  BY <1>1 DEF Wanted, Phases
<1>5. Head(spi[u]) = c[2] /\ Tail(spi[u]) = << >> /\ u \in Enabled
  <2>1. ASSUME NEW x PROVE Head(<<x>>) = x /\ Tail(<<x>>) = << >>
    OBVIOUS
  <2>2. u \in Enabled
    BY <1>1 DEF Sending
  <2> QED
    BY <1>2, <2>1, <2>2, Zenon
<1>6. spi' \in [Unit -> Seq(Settings \cup {"page", "start", "end", "on", "off"})]
      /\ spi'[u] = << >> /\ \A v \in Unit : v # u => spi'[v] = << >>
  BY <1>1, <1>2, <1>5 DEF Sending
<1>7. lit' = IF c[2] \in {"on", "off"} THEN [lit EXCEPT ![u] = (c[2] = "on")] ELSE lit
  BY <1>2, <1>4, <1>5 DEF Shift
<1>8. ASSUME NEW v \in Enabled PROVE lit'[v] = ~displayIsOn' \/ Outstanding(v)'
  <2>0. v \in Unit /\ (lit[v] = ~displayIsOn \/ Outstanding(v))
    BY DEF Commanding, Unit
  <2>1. CASE v = u /\ c[2] = Wanted
    <3>1. lit'[u] = (c[2] = "on")
      BY <1>4, <1>7, <2>1 DEF TypeOK
    <3>2. (Wanted = "on") = ~displayIsOn
      BY DEF Wanted, TypeOK
    <3> QED
      BY <1>1, <2>1, <3>1, <3>2
  <2>2. CASE ~(v = u /\ c[2] = Wanted)
    <3>1. lit'[v] = lit[v]
      <4>1. CASE v = u
        <5>1. c[2] \notin {"on", "off"}
          BY <1>3, <1>4, <2>2, <4>1 DEF Wanted
        <5> QED
          BY <1>7, <5>1
      <4>2. CASE v # u
        BY <1>7, <4>2 DEF TypeOK
      <4> QED
        BY <4>1, <4>2
    <3>2. ASSUME Outstanding(v) PROVE Outstanding(v)'
      <4>1. PICK k \in 1 .. Len(commands) :
              commands[k] = To(v, Wanted) /\ (k = 1 /\ cs[v] => spi[v] # << >>)
        BY <3>2 DEF Outstanding
      <4>2. c = commands[1]
        BY <1>2
      <4>3. k = 1 => v = u /\ c[2] = Wanted
        BY <1>2, <4>1, <4>2 DEF To
      <4>4. k # 1
        BY <2>2, <4>3
      <4> QED
        BY <1>1, <1>4, <4>1, <4>4 DEF Outstanding
    <3> QED
      BY <1>1, <2>0, <3>1, <3>2
  <2> QED
    BY <2>1, <2>2
<1>9. commands' \in Seq(Unit \X {"page", "start", "end", Wanted'})
  BY <1>1, <1>2, <1>4
<1>10. ASSUME NEW v \in Unit
       PROVE  /\ cs'[v] => commands' # << >> /\ v = Head(commands')[1]
              /\ spi'[v] = << >>
  BY <1>1, <1>2, <1>6
<1> QED
  BY <1>8, <1>9, <1>10, Zenon DEF Commanding

LEMMA CommandingStep ==
  ASSUME IInv, Next
  PROVE  Commanding' /\ LitAsMeant'
<1> USE DEF timing, blanking, drawing, service, pins, display, Flushing, Updating
<1>0. TypeOK /\ Phases /\ Sending /\ Commanding /\ LitAsMeant
  BY DEF IInv
<1>00. Enabled \subseteq Unit
  BY DEF Unit
\* Outside updateDisplay nothing is told to the displays.
<1>a. ASSUME pc # "command", pc' # "command", UNCHANGED <<lit, displayIsOn>>
      PROVE  Commanding' /\ LitAsMeant'
  BY <1>0, <1>a DEF Commanding, LitAsMeant
<1>1. CASE BlockDone
  <2>1. UNCHANGED <<pc, lit, displayIsOn, commands, cs, spi>>
    BY <1>1 DEF BlockDone
  <2> QED
    BY <1>0, <2>1, Zenon DEF Commanding, LitAsMeant, Wanted, Outstanding
<1>2. ASSUME NEW n \in 1 .. MaxServed, NEW active \in BOOLEAN, Serve(n, active)
      PROVE  Commanding' /\ LitAsMeant'
  BY <1>2, <1>a DEF Serve
<1>3. CASE NothingDue \/ NotYet \/ NothingToAllow
  BY <1>3, <1>a DEF NothingDue, NotYet, NothingToAllow
<1>4. CASE SendByte
  BY <1>4, <1>a DEF SendByte
<1>5. CASE EndFlush \/ TooEarly \/ Draw \/ StartFrame
  BY <1>5, <1>a DEF EndFlush, TooEarly, Draw, StartFrame
<1>6. CASE updateDisplay
  <2>1. /\ pc = "round" /\ Sent /\ Countdown
        /\ pc' = (IF commands' = << >> THEN "draw" ELSE "command")
        /\ UNCHANGED <<lit, displayIsOn, spi>>
    BY <1>6 DEF updateDisplay
  <2>2. cs' = All(FALSE) /\ spi = Empty
    BY <1>0, <2>1, AllSent
  <2>3. CASE commands' = << >>
    BY <1>a, <2>1, <2>3
  <2>4. CASE commands' # << >>
    <3>1. commands' = IF displayIsOn THEN turnOffDisplay ELSE turnOnDisplay
      BY <2>1, <2>4 DEF Countdown
    <3>2. Wanted' = Wanted /\ (Wanted = IF displayIsOn THEN "off" ELSE "on")
      BY <2>1 DEF Wanted
    <3>3. /\ commands' \in Seq(Unit \X {"page", "start", "end", Wanted})
          /\ \A u \in Unit : \E k \in 1 .. Len(commands') : commands'[k] = To(u, Wanted)
      BY <3>1, <3>2, CommandLists
    <3>4. \A u \in Unit : ~cs'[u] /\ spi'[u] = << >>
      BY <2>1, <2>2 DEF All, Empty
    <3>5. \A u \in Enabled : Outstanding(u)'
      BY <1>00, <3>2, <3>3, <3>4 DEF Outstanding
    <3>6. Commanding'
      BY <3>2, <3>3, <3>4, <3>5, Zenon DEF Commanding
    <3> QED
      BY <2>1, <2>4, <3>6 DEF LitAsMeant
  <2> QED
    BY <2>3, <2>4
<1>7. CASE WriteCommand
  <2> DEFINE c == Head(commands)
             w == c[1]
  <2>1. /\ pc = "command" /\ commands # << >> /\ ~cs[w] /\ spi[w] = << >>
        /\ cs' = [cs EXCEPT ![w] = TRUE]
        /\ spi' = [spi EXCEPT ![w] = Taken(w, c[2])]
        /\ UNCHANGED <<pc, lit, displayIsOn, commands>>
    BY <1>7 DEF WriteCommand
  <2>2. commands \in Seq(Unit \X {"page", "start", "end", Wanted})
        /\ w \in Unit
    <3>1. commands \in Seq(Unit \X {"page", "start", "end", Wanted})
      BY <1>0, <2>1 DEF Commanding
    <3>2. c \in Unit \X {"page", "start", "end", Wanted}
      BY <2>1, <3>1
    <3> QED
      BY <3>1, <3>2
  <2>3. /\ \A u \in Unit : u # w => ~cs[u] /\ spi[u] = << >>
        /\ \A u \in Unit : u # w => ~cs'[u] /\ spi'[u] = << >>
        /\ cs'[w] /\ spi'[w] = Taken(w, c[2])
    <3>1. \A u \in Unit : u # w => ~cs[u] /\ spi[u] = << >>
      BY <1>0, <2>1 DEF Commanding
    <3>2. DOMAIN spi = Unit /\ DOMAIN cs = Unit
      BY <1>0 DEF Sending, TypeOK
    <3> HIDE DEF c, w
    <3> QED
      BY <2>1, <2>2, <3>1, <3>2
  <2>4. Taken(w, c[2]) = IF w \in Enabled THEN <<c[2]>> ELSE << >>
    BY <2>1 DEF Taken
  <2>5. ASSUME NEW u \in Enabled PROVE lit'[u] = ~displayIsOn' \/ Outstanding(u)'
    <3>1. lit[u] = ~displayIsOn \/ Outstanding(u)
      BY <1>0, <2>1 DEF Commanding
    <3>2. ASSUME Outstanding(u) PROVE Outstanding(u)'
      <4>1. u = w => spi'[u] # << >>
        BY <2>3, <2>4
      <4>2. u # w => ~cs'[u]
        BY <1>00, <2>3
      <4>3. Wanted' = Wanted
        BY <2>1 DEF Wanted
      <4> QED
        BY <2>1, <3>2, <4>1, <4>2, <4>3 DEF Outstanding
    <3> QED
      BY <2>1, <3>1, <3>2
  <2>6. ASSUME NEW u \in Unit
        PROVE  /\ cs'[u] => commands' # << >> /\ u = Head(commands')[1]
               /\ spi'[u] # << >> => cs'[u] /\ spi'[u] = <<Head(commands')[2]>>
    BY <2>1, <2>3, <2>4
  <2>7. commands' \in Seq(Unit \X {"page", "start", "end", Wanted'})
    BY <2>1, <2>2 DEF Wanted
  <2>8. Commanding'
    BY <2>5, <2>6, <2>7, Zenon DEF Commanding
  <2> QED
    BY <2>1, <2>8 DEF LitAsMeant
<1>8. CASE CommandSent
  <2> DEFINE c == Head(commands)
             w == c[1]
  <2>1. /\ pc = "command" /\ commands # << >> /\ cs[w] /\ spi[w] = << >>
        /\ cs' = [cs EXCEPT ![w] = FALSE] /\ commands' = Tail(commands)
        /\ UNCHANGED <<pc, lit, displayIsOn, spi>>
    BY <1>8 DEF CommandSent
  <2>2. commands \in Seq(Unit \X {"page", "start", "end", Wanted})
    BY <1>0, <2>1 DEF Commanding
  <2>3. \A u \in Unit : ~cs'[u] /\ spi'[u] = << >>
    <3>1. \A u \in Unit : u # w => ~cs[u] /\ spi[u] = << >>
      BY <1>0, <2>1 DEF Commanding
    <3>2. DOMAIN cs = Unit
      BY <1>0 DEF TypeOK
    <3> HIDE DEF c, w
    <3> QED
      BY <2>1, <3>1, <3>2
  <2>4. /\ commands' \in Seq(Unit \X {"page", "start", "end", Wanted})
        /\ Len(commands) \in Nat /\ Len(commands') = Len(commands) - 1
        /\ \A k \in 1 .. Len(commands') : commands'[k] = commands[k + 1]
        /\ c = commands[1]
    <3> DEFINE S == Unit \X {"page", "start", "end", Wanted}
    <3> HIDE DEF S
    <3>1. commands \in Seq(S)
      BY <2>2 DEF S
    <3>2. /\ Tail(commands) \in Seq(S) /\ Len(commands) \in Nat
          /\ Len(Tail(commands)) = Len(commands) - 1
          /\ \A k \in 1 .. Len(Tail(commands)) : Tail(commands)[k] = commands[k + 1]
          /\ Head(commands) = commands[1]
      BY <2>1, <3>1, TailOf
    <3> QED
      BY <2>1, <3>2, Zenon DEF S
  <2>5. Wanted' = Wanted
    BY <2>1 DEF Wanted
  <2>6. ASSUME NEW u \in Enabled PROVE lit'[u] = ~displayIsOn' \/ Outstanding(u)'
    <3>1. lit[u] = ~displayIsOn \/ Outstanding(u)
      BY <1>0, <2>1 DEF Commanding
    <3>2. ASSUME Outstanding(u) PROVE Outstanding(u)'
      <4>1. PICK k \in 1 .. Len(commands) :
              commands[k] = To(u, Wanted) /\ (k = 1 /\ cs[u] => spi[u] # << >>)
        BY <3>2 DEF Outstanding
      <4>2. k # 1
        <5>1. k = 1 => w = u
          BY <2>4, <4>1 DEF To
        <5> QED
          BY <2>1, <4>1, <5>1
      <4>3. k - 1 \in 1 .. Len(commands') /\ commands'[k - 1] = commands[(k - 1) + 1]
        BY <2>4, <4>1, <4>2
      <4>4. (k - 1) + 1 = k
        BY <4>1
      <4>5. commands'[k - 1] = To(u, Wanted') /\ ~cs'[u]
        BY <1>00, <2>3, <2>5, <4>1, <4>3, <4>4
      <4> QED
        BY <4>3, <4>5, Zenon DEF Outstanding
    <3> QED
      BY <2>1, <3>1, <3>2
  <2>7. Commanding'
    BY <2>3, <2>4, <2>5, <2>6, Zenon DEF Commanding
  <2> QED
    BY <2>1, <2>7 DEF LitAsMeant
<1>9. CASE CommandsSent
  <2>1. /\ pc = "command" /\ commands = << >> /\ pc' = "draw"
        /\ displayIsOn' = ~displayIsOn /\ UNCHANGED lit
    BY <1>9 DEF CommandsSent, Switched
  <2>2. \A u \in Enabled : ~Outstanding(u)
    BY <2>1 DEF Outstanding
  <2>3. \A u \in Enabled : lit'[u] = displayIsOn'
    BY <1>0, <2>1, <2>2 DEF Commanding
  <2> QED
    BY <2>1, <2>3 DEF Commanding, LitAsMeant
<1>10. ASSUME NEW u \in Unit, Shift(u) PROVE Commanding' /\ LitAsMeant'
  <2>1. UNCHANGED <<pc, displayIsOn, dc>> /\ spi[u] # << >>
    BY <1>10 DEF Shift
  <2>2. CASE pc = "command"
    <3>1. Commanding'
      BY <1>0, <1>10, <2>2, ShiftCommands
    <3> QED
      BY <2>1, <2>2, <3>1 DEF LitAsMeant
  <2>3. CASE pc # "command"
    <3>1. dc
      BY <1>0, <2>3 DEF Phases
    <3>2. cs[u]
      BY <1>0, <2>1, <3>1, InFrame DEF All
    <3>3. UNCHANGED lit
      BY <1>10, <3>1, <3>2 DEF Shift
    <3> QED
      BY <1>a, <2>1, <2>3, <3>3
  <2> QED
    BY <2>2, <2>3
<1> QED
  BY <1>1, <1>2, <1>3, <1>4, <1>5, <1>6, <1>7, <1>8, <1>9, <1>10, Zenon
     DEF Next, Loop, Commands
-----------------------------------------------------------------------------
(* The theorems. *)

LEMMA InitStep == Init => IInv
<1> SUFFICES ASSUME Init PROVE IInv
  OBVIOUS
<1>1. TypeOK /\ Phases
  BY InitTypes
<1>2. /\ pc = "check" /\ displayBytesToSend = -1 /\ spi = Empty
      /\ screen = Blank /\ gdram = All(Blank) /\ pos = All(0) /\ lit = All(TRUE)
      /\ elapsed = 0 /\ refreshCount = 0 /\ quiet = 0
      /\ displayBlankCountdown = kTimeToBlank /\ displayIsOn = TRUE
  BY DEF Init
<1>3. Sending
  <2>1. << >> \in Seq(Settings \cup {"page", "start", "end", "on", "off"})
    OBVIOUS
  <2>2. ~(displayBytesToSend >= 0)
    BY <1>2
  <2> QED
    BY <1>2, <2>1, <2>2 DEF Sending, Empty, Unit
<1>4. Commanding /\ LitAsMeant /\ FrameWhole
  BY <1>2 DEF Commanding, LitAsMeant, FrameWhole, All, Unit
<1>5. Since = kDisplayRefreshCount
  BY <1>2 DEF Since, AtMost, Updating
<1>6. CountdownHonest
  BY <1>2, <1>5 DEF CountdownHonest
<1> QED
  BY <1>1, <1>3, <1>4, <1>6 DEF IInv

LEMMA Stutter ==
  ASSUME IInv, UNCHANGED vars
  PROVE  IInv'
<1> USE DEF vars, timing, blanking, drawing, service, pins, display
<1>1. TypeOK' /\ Phases'
  BY Zenon DEF IInv, TypeOK, Phases
<1>2. Sending' /\ FrameWhole'
  BY Zenon DEF IInv, Sending, SendingTo, Gone, FrameWhole
<1>3. Commanding' /\ LitAsMeant'
  BY Zenon DEF IInv, Commanding, Outstanding, Wanted, LitAsMeant
<1>4. CountdownHonest'
  BY Zenon DEF IInv, CountdownHonest, Since
<1> QED
  BY <1>1, <1>2, <1>3, <1>4 DEF IInv

LEMMA Invariance == Spec => []IInv
<1>1. ASSUME IInv, Next PROVE IInv'
  BY <1>1, TypeStep, PhasesStep, CountdownStep, SendingStep, CommandingStep
     DEF IInv
<1>2. IInv /\ [Next]_vars => IInv'
  BY <1>1, Stutter
<1> QED
  BY InitStep, <1>2, PTL DEF Spec

\* Counters, buffers and pins hold what they may, and the loop sends only
\* while a frame is on its way.
THEOREM TypeCorrect == Spec => [](TypeOK /\ Phases)
<1>1. IInv => TypeOK /\ Phases
  BY DEF IInv
<1> QED
  BY Invariance, <1>1, PTL

\* Between frames each display that is on shows the last frame drawn, whole.
THEOREM FramesArriveWhole == Spec => []FrameWhole
<1>1. IInv => FrameWhole
  BY DEF IInv
<1> QED
  BY Invariance, <1>1, PTL

\* The displays are on and off as the program believes.
THEOREM LitAsBelieved == Spec => []LitAsMeant
<1>1. IInv => LitAsMeant
  BY DEF IInv
<1> QED
  BY Invariance, <1>1, PTL

\* No display goes off before its time, whatever the refresh count and the
\* blanking time are.
THEOREM BlankedInTime == Spec => NotBlankedEarly
<1>1. IInv /\ [Next]_vars =>
        [displayIsOn /\ ~displayIsOn' =>
           quiet >= kTimeToBlank - kDisplayRefreshCount]_vars
  <2> SUFFICES ASSUME IInv, [Next]_vars, displayIsOn, ~displayIsOn'
               PROVE  quiet >= kTimeToBlank - kDisplayRefreshCount
    OBVIOUS
  <2>1. CASE pc = "command"
    BY <2>1 DEF IInv, CountdownHonest
  <2>2. CASE pc # "command"
    <3> USE DEF timing, blanking, drawing, service, pins, display
    <3>1. UNCHANGED displayIsOn
      <4>1. CASE UNCHANGED vars
        BY <4>1 DEF vars
      <4>2. CASE BlockDone
        BY <4>2 DEF BlockDone
      <4>3. ASSUME NEW n \in 1 .. MaxServed, NEW active \in BOOLEAN,
                   Serve(n, active)
            PROVE  UNCHANGED displayIsOn
        BY <4>3 DEF Serve
      <4>4. CASE Loop
        BY <4>4 DEF Loop, NothingDue, SendByte, NotYet, NothingToAllow, EndFlush,
                    TooEarly, updateDisplay, Draw, StartFrame
      <4>5. CASE Commands
        BY <2>2, <4>5 DEF Commands, WriteCommand, CommandSent, CommandsSent
      <4>6. ASSUME NEW u \in Unit, Shift(u) PROVE UNCHANGED displayIsOn
        BY <4>6 DEF Shift
      <4> QED
        BY <4>1, <4>2, <4>3, <4>4, <4>5, <4>6, Zenon DEF Next
    <3> QED
      BY <3>1
  <2> QED
    BY <2>1, <2>2
<1> QED
  BY Invariance, <1>1, PTL DEF Spec, NotBlankedEarly
=============================================================================

------------------------------ MODULE Display ------------------------------
(***************************************************************************)
(* The display loop (display.c, displayLoop) and the displays it drives    *)
(* side by side, each behind an SPI transmitter of its own: the panel's    *)
(* (1, on SPI5) and an external one (2, on SPI1), whose transmitter        *)
(* APP_Initialize turns off before the loop starts, though the loop goes   *)
(* on writing to it.  The loop serves audio when a block is due, sends the *)
(* next byte of a frame, or, when a frame has gone and it is time, blanks  *)
(* or wakes the displays and draws the next frame.  Messages, turns of the *)
(* encoders and changed settings all arrive in the audio service, so also  *)
(* while a frame is drawn or sent; the transmitters work all the time.     *)
(*                                                                         *)
(* Time is counted in audio blocks.  The loop looks at the time since it   *)
(* last did only to compare it with at most kDisplayRefreshCount, so it is *)
(* counted no further (and a round is taken to be shorter than the hours   *)
(* it takes "time" to wrap).                                               *)
(***************************************************************************)
EXTENDS Integers, Sequences

CONSTANTS
  FrameSize,             \* bytes of a frame, 512
  SpiDepth,              \* bytes an SPI transmitter holds
  Enabled,               \* the displays whose transmitters are on
  kDisplayRefreshCount,  \* time between two frames
  kTimeToBlank,          \* time without activity until the displays go off
  MaxServed              \* bound: blocks served in one go, more than one
                         \* only while algorithm_idle waits

ASSUME DisplayAssumption ==
  /\ FrameSize \in Nat \ {0} /\ SpiDepth \in Nat \ {0}
  /\ Enabled \subseteq {1, 2}
  /\ kDisplayRefreshCount \in Nat \ {0} /\ kTimeToBlank \in Nat
  /\ MaxServed \in Nat \ {0}

VARIABLES
  pc,        \* "check" for audio, "round" of the loop, "command" to the
             \* displays, "draw", and, for algorithms, "allow"
             \* (allowDisplayWrite), "flush" (flushDisplayWrite) and
             \* "serving" (flushDisplayWriteWithAudioService)
  elapsed,   \* time - displayLastTime
  refreshCount,
  displayBlankCountdown, displayIsOn,
  displayBytesToSend,
  screen,    \* what is drawn, byte by byte: the settings it shows
  drawn,     \* how much of the screen has been cleared and drawn this time
  commands,  \* the commands still to be sent, each to one display
  audioDue,  \* whether the DMA has finished a block
  settings,  \* what is to be shown, two values of it
  quiet,     \* history: time since the last activity, as far as it matters
  spi,       \* the bytes in each transmitter
  cs, dc,    \* chip selected, for each display; data and not a command
  gdram, pos, lit   \* each display: what it shows, where the next byte
                    \* goes, whether it is on

timing == <<elapsed, refreshCount>>
blanking == <<displayBlankCountdown, displayIsOn>>
drawing == <<screen, drawn>>
service == <<audioDue, settings, quiet>>
pins == <<cs, dc>>
display == <<gdram, pos, lit>>
vars == <<pc, timing, blanking, displayBytesToSend, drawing, commands,
          service, spi, pins, display>>

Unit == {1, 2}
Settings == {0, 1}
Place == 0 .. FrameSize - 1
Empty == [u \in Unit |-> << >>]
All(x) == [u \in Unit |-> x]
Blank == [i \in Place |-> 0]

AtMost(x, y) == IF x < y THEN x ELSE y
UntilQuiet == kTimeToBlank

\* Where startupSequence leaves things.
Init ==
  /\ pc = "check" /\ elapsed = 0 /\ refreshCount = 0
  /\ displayBlankCountdown = kTimeToBlank /\ displayIsOn = TRUE
  /\ displayBytesToSend = -1
  /\ screen = Blank /\ drawn = 0 /\ commands = << >>
  /\ audioDue = FALSE /\ settings = 0 /\ quiet = 0
  /\ spi = Empty /\ cs = All(FALSE) /\ dc = TRUE
  /\ gdram = All(Blank) /\ pos = All(0) /\ lit = All(TRUE)
-----------------------------------------------------------------------------
(***************************************************************************)
(* The audio service, at one of the loop's CHECK_SERVICE_AUDIO.  A turn of *)
(* an encoder, a MIDI byte or an I2C byte is activity; the settings may    *)
(* change with or without it; and an algorithm may send a sysex message    *)
(* (sendSysExMsg, which begins with flushDisplayWrite) or call the         *)
(* functions for algorithms that let the frame go on; Peaks does neither.  *)
(***************************************************************************)
BlockDone ==
  /\ audioDue' = TRUE
  /\ UNCHANGED <<pc, timing, blanking, displayBytesToSend, drawing, commands,
                 settings, quiet, spi, pins, display>>

\* Mutant of Activity: adds to the countdown, while the displays are on.
ActivityAdds(active) ==
  displayBlankCountdown' =
    IF active /\ displayIsOn
    THEN AtMost(displayBlankCountdown + kDisplayRefreshCount, kTimeToBlank)
    ELSE displayBlankCountdown

\* Mutant of Activity: only wakes, and does not put the blanking off.
ActivityWakes(active) ==
  displayBlankCountdown' =
    IF active /\ ~displayIsOn THEN kTimeToBlank ELSE displayBlankCountdown

Activity(active) ==
  displayBlankCountdown' = IF active THEN kTimeToBlank ELSE displayBlankCountdown

Serve(n, active) ==
  /\ audioDue /\ pc \in {"check", "draw", "serving"}
  /\ audioDue' = FALSE
  /\ elapsed' = AtMost(elapsed + n, kDisplayRefreshCount)
  /\ Activity(active)
  /\ quiet' = IF active THEN 0 ELSE AtMost(quiet + n, UntilQuiet)
  /\ settings' \in Settings
  /\ \/ pc' = IF pc = "check" THEN "round" ELSE pc
     \/ /\ displayBytesToSend >= 0 /\ pc # "serving"
        /\ pc' \in {"allow", "flush", "serving"}
  /\ UNCHANGED <<refreshCount, displayIsOn, displayBytesToSend, drawing,
                 commands, spi, pins, display>>

NothingDue ==
  /\ pc = "check" /\ ~audioDue
  /\ pc' = "round"
  /\ UNCHANGED <<timing, blanking, displayBytesToSend, drawing, commands,
                 service, spi, pins, display>>
-----------------------------------------------------------------------------
(***************************************************************************)
(* Sending a frame.                                                        *)
(***************************************************************************)
SPITBF == \E u \in Unit : Len(spi[u]) = SpiDepth
SPIBUSY == spi # Empty

\* A transmitter that is off takes nothing, and is never full or busy.
Taken(u, b) == IF u \in Enabled THEN Append(spi[u], b) ELSE spi[u]

NextByte ==
  /\ spi' = [u \in Unit |-> Taken(u, screen[FrameSize - displayBytesToSend])]
  /\ displayBytesToSend' = displayBytesToSend - 1

SendByte ==
  /\ pc \in {"round", "allow", "flush", "serving"}
  /\ displayBytesToSend > 0 /\ ~SPITBF
  /\ NextByte
  /\ pc' = CASE pc = "round" -> "check" [] pc = "allow" -> "round" [] OTHER -> pc
  /\ UNCHANGED <<timing, blanking, drawing, commands, service, pins, display>>

NothingToAllow ==
  /\ pc = "allow" /\ displayBytesToSend <= 0
  /\ pc' = "round"
  /\ UNCHANGED <<timing, blanking, displayBytesToSend, drawing, commands,
                 service, spi, pins, display>>

NotYet ==
  /\ pc = "round"
  /\ \/ displayBytesToSend > 0 /\ SPITBF
     \/ displayBytesToSend = 0 /\ SPIBUSY
  /\ pc' = "check"
  /\ UNCHANGED <<timing, blanking, displayBytesToSend, drawing, commands,
                 service, spi, pins, display>>

\* Mutant of Sent: does not wait for the last bytes to have gone out.
SentUnwaited ==
  /\ displayBytesToSend <= 0
  /\ cs' = IF displayBytesToSend = 0 THEN All(FALSE) ELSE cs
  /\ displayBytesToSend' = -1

\* No frame is being sent, or it has just gone and the chips are released.
Sent ==
  /\ displayBytesToSend < 0 \/ (displayBytesToSend = 0 /\ ~SPIBUSY)
  /\ cs' = IF displayBytesToSend = 0 THEN All(FALSE) ELSE cs
  /\ displayBytesToSend' = -1

EndFlush ==
  /\ pc \in {"flush", "serving"} /\ Sent
  /\ pc' = "round"
  /\ UNCHANGED <<timing, blanking, drawing, commands, service, spi, dc, display>>
-----------------------------------------------------------------------------
(***************************************************************************)
(* The rest of a round: the time, and updateDisplay when a frame is due.   *)
(***************************************************************************)
TooEarly ==
  /\ pc = "round" /\ Sent
  /\ refreshCount - elapsed > 0
  /\ refreshCount' = refreshCount - elapsed
  /\ elapsed' = 0
  /\ pc' = "check"
  /\ UNCHANGED <<blanking, drawing, commands, service, spi, dc, display>>

To(u, c) == <<u, c>>

\* Mutant of turnOnDisplay: only the second display is turned on.
turnOnSecond ==
  << To(1, "page"), To(1, "start"), To(1, "end"), To(2, "on") >>

turnOnDisplay ==
  << To(1, "page"), To(1, "start"), To(1, "end"), To(1, "on"), To(2, "on") >>
turnOffDisplay == << To(1, "off"), To(2, "off") >>

\* The beginning of updateDisplay: what is to be told to the displays.
Countdown ==
  IF displayIsOn
  THEN LET left == displayBlankCountdown - kDisplayRefreshCount IN
       /\ displayBlankCountdown' = left
       /\ commands' = IF left <= 0 THEN turnOffDisplay ELSE << >>
  ELSE /\ commands' = IF displayBlankCountdown # 0 THEN turnOnDisplay ELSE << >>
       /\ UNCHANGED displayBlankCountdown

updateDisplay ==
  /\ pc = "round" /\ Sent
  /\ refreshCount - elapsed <= 0
  /\ elapsed' = 0
  /\ Countdown
  /\ pc' = IF commands' = << >> THEN "draw" ELSE "command"
  /\ dc' = (commands' = << >>)
  /\ drawn' = 0
  /\ UNCHANGED <<refreshCount, displayIsOn, screen, service, spi, display>>

\* sendDisplayByte and sendDisplay2Byte: select, write, wait, release.
WriteCommand ==
  /\ pc = "command" /\ commands # << >>
  /\ LET u == Head(commands)[1] IN
     /\ ~cs[u] /\ spi[u] = << >>
     /\ cs' = [cs EXCEPT ![u] = TRUE]
     /\ spi' = [spi EXCEPT ![u] = Taken(u, Head(commands)[2])]
  /\ UNCHANGED <<pc, timing, blanking, displayBytesToSend, drawing, commands,
                 service, dc, display>>

CommandSent ==
  /\ pc = "command" /\ commands # << >>
  /\ LET u == Head(commands)[1] IN
     /\ cs[u] /\ spi[u] = << >>
     /\ cs' = [cs EXCEPT ![u] = FALSE]
  /\ commands' = Tail(commands)
  /\ UNCHANGED <<pc, timing, blanking, displayBytesToSend, drawing, service,
                 spi, dc, display>>

Switched ==
  /\ displayIsOn' = ~displayIsOn
  /\ displayBlankCountdown' = IF displayIsOn THEN 0 ELSE displayBlankCountdown

CommandsSent ==
  /\ pc = "command" /\ commands = << >>
  /\ Switched
  /\ dc' = TRUE
  /\ pc' = "draw"
  /\ UNCHANGED <<timing, displayBytesToSend, drawing, commands, service, spi,
                 cs, display>>

\* Mutant of Clear: what was drawn before is not wiped.
ClearNothing(i) == UNCHANGED screen

\* A byte of the screen is cleared, or the settings, as they are now, are
\* drawn into it.
Clear(i) == screen' = [screen EXCEPT ![i] = 0]
DrawInto(i) == screen' = [screen EXCEPT ![i] = IF @ = 1 THEN 1 ELSE settings]

Draw ==
  /\ pc = "draw" /\ drawn < 2 * FrameSize
  /\ IF drawn < FrameSize THEN Clear(drawn) ELSE DrawInto(drawn - FrameSize)
  /\ drawn' = drawn + 1
  /\ UNCHANGED <<pc, timing, blanking, displayBytesToSend, commands, service,
                 spi, pins, display>>

\* The frame is drawn, and the chips selected to receive it.
StartFrame ==
  /\ pc = "draw" /\ drawn = 2 * FrameSize
  /\ displayBytesToSend' = FrameSize
  /\ cs' = All(TRUE)
  /\ refreshCount' = kDisplayRefreshCount
  /\ pc' = "check"
  /\ UNCHANGED <<elapsed, blanking, drawing, commands, service, spi, dc, display>>
-----------------------------------------------------------------------------
\* A byte has gone out of transmitter u, and display u takes it as the pins
\* tell it to.
Shift(u) ==
  /\ spi[u] # << >>
  /\ spi' = [spi EXCEPT ![u] = Tail(@)]
  /\ LET b == Head(spi[u]) IN
     CASE cs[u] /\ dc ->
            /\ gdram' = [gdram EXCEPT ![u][pos[u]] = b]
            /\ pos' = [pos EXCEPT ![u] = (@ + 1) % FrameSize]
            /\ UNCHANGED lit
       [] cs[u] /\ ~dc ->
            /\ pos' = IF b = "page" THEN [pos EXCEPT ![u] = 0] ELSE pos
            /\ lit' = IF b \in {"on", "off"} THEN [lit EXCEPT ![u] = (b = "on")]
                      ELSE lit
            /\ UNCHANGED gdram
       [] ~cs[u] -> UNCHANGED display
  /\ UNCHANGED <<pc, timing, blanking, displayBytesToSend, drawing, commands,
                 service, pins>>

Loop ==
  \/ NothingDue \/ SendByte \/ NotYet \/ NothingToAllow \/ EndFlush
  \/ TooEarly \/ updateDisplay \/ Draw \/ StartFrame

Commands == WriteCommand \/ CommandSent \/ CommandsSent

Next ==
  \/ BlockDone
  \/ \E n \in 1 .. MaxServed, active \in BOOLEAN : Serve(n, active)
  \/ Loop \/ Commands
  \/ \E u \in Unit : Shift(u)

Spec == Init /\ [][Next]_vars

(***************************************************************************)
(* The loop runs for ever, blocks keep coming from the DMA, the loop       *)
(* serves them, and an SPI transmitter sends what it holds.  Activity and  *)
(* changes of the settings are not obliged to happen.                      *)
(***************************************************************************)
FairSpec ==
  /\ Spec
  /\ WF_vars(BlockDone)
  /\ WF_vars(\E n \in 1 .. MaxServed, active \in BOOLEAN : Serve(n, active))
  /\ WF_vars(Loop) /\ WF_vars(Commands)
  /\ \A u \in Unit : WF_vars(Shift(u))
-----------------------------------------------------------------------------
(***************************************************************************)
(* Between frames each display shows the frame drawn last, whole and in    *)
(* its place, and is ready for the next to begin at its beginning; no      *)
(* command falls into a frame and no byte is lost at its end (displayLoop, *)
(* flushDisplayWrite).                                                     *)
(***************************************************************************)
FrameWhole ==
  displayBytesToSend = -1 =>
    \A u \in Enabled :
      /\ pos[u] = 0
      /\ pc \in {"check", "round"} => gdram[u] = screen

\* Each display is on when the program thinks so (turnOnDisplay,
\* turnOffDisplay).
LitAsMeant == pc # "command" => \A u \in Enabled : lit[u] = displayIsOn

(***************************************************************************)
(* The displays go off only after a time without activity of kTimeToBlank, *)
(* but for the time between two frames (updateDisplay's countdown against  *)
(* the parsers' and the panel's setting it anew).                          *)
(***************************************************************************)
NotBlankedEarly ==
  [][displayIsOn /\ ~displayIsOn' =>
       quiet >= kTimeToBlank - kDisplayRefreshCount]_vars

\* Activity while the displays are off, in whatever step of the loop it
\* comes, brings them back (updateDisplay).
Wakes == ~displayIsOn /\ quiet = 0 ~> displayIsOn

(***************************************************************************)
(* What the settings come to rest at is shown in the end, though they may  *)
(* change while a frame is drawn or sent.                                  *)
(***************************************************************************)
ShowsLatest ==
  \A v \in Settings :
    settings = v ~> (settings # v \/ \A u \in Enabled, i \in Place : gdram[u][i] = v)
=============================================================================

------------------------------ MODULE StartUp ------------------------------
(***************************************************************************)
(* From reset to the display loop: main, SYS_Initialize, APP_Initialize    *)
(* and APP_Tasks, up to where displayLoop takes over for good.  What they  *)
(* do to the clocks, the pins and the peripherals is a program, a sequence *)
(* of instructions in the order of the code; each action carries out one   *)
(* kind.  On the other side are the chips: the PLL, the two displays, the  *)
(* codec on its I2C bus, the converter, the external memory.  A chip hears *)
(* only what reaches it: out of reset, selected, with its transmitter on.  *)
(*                                                                         *)
(* Left out: registers nothing here depends on, and the interrupts, which  *)
(* the model of the receive rings lets in from the beginning.              *)
(***************************************************************************)
EXTENDS Clock, Calibration, SequencesExt

CONSTANTS
  FrameBytes,     \* bytes of a display's memory, 512
  BootWaitStates, \* wait states the flash may have before they are set
  Flash           \* what the page of settings may hold

\* Out of reset the flash waits long enough for any clock: seven states, until
\* something sets them.
ASSUME StartUpAssumption ==
  /\ FrameBytes \in Nat \ {0}
  /\ BootWaitStates \subseteq Nat
  /\ \A w \in BootWaitStates, e \in BOOLEAN : w >= WaitStates(SYS_CLK_FREQ, e)
  /\ Flash \subseteq CalibrationSettings

VARIABLES
  pc,        \* the next instruction
  dead,      \* what never answers
  source,    \* what the processor runs on, "Posc" or "SPLL"
  wanted,    \* what it is to run on
  multiplier, pbDivisor, unlocked, waitStates, ecc,
  latch, driven,   \* the pins: their latches, and which are outputs
  age,       \* microseconds since a pin was last changed, up to MaxAge
  on,        \* what is on, or has been prepared
  timer3,    \* its prescaler and period
  chip,      \* each display
  codec,     \* the codec's registers
  packet,    \* the bytes of the packet the codec has acknowledged
  success,   \* SendPacket's Success
  halted,    \* whether the program has stopped for good
  displayMode,
  flash, settings  \* the page of settings, once it is read; what is made of it

clocks == <<source, wanted, multiplier, pbDivisor, unlocked, waitStates>>
pins == <<latch, driven, age>>
bus == <<codec, packet, success>>
calibration == <<displayMode, settings, flash>>
environment == <<dead, ecc>>
vars == <<pc, environment, clocks, pins, on, timer3, chip, bus, halted,
          calibration>>

MaxAge == 100000
Display == {1, 2}
Pin == {"cs1", "cs2", "dc1", "dc2", "reset1", "reset2", "power", "codec"}
CS == <<"cs1", "cs2">>
DC == <<"dc1", "dc2">>
Reset == <<"reset1", "reset2">>
SPI == <<"SPI5", "SPI1">>

\* The latches SYS_PORTS_Initialize writes, and the port each pin is on: A0
\* and G15 (which keeps the panel's supply off) are set, H11 and the pins of
\* port J used here are clear.
PortLatch == [p \in Pin |-> p \in {"cs1", "power"}]
Port(p) == CASE p = "cs1" -> "A" [] p = "power" -> "G" [] p = "codec" -> "H"
             [] OTHER -> "J"
-----------------------------------------------------------------------------
(***************************************************************************)
(* The program.                                                            *)
(***************************************************************************)
Do(op, arg) == << [op |-> op, arg |-> arg] >>
Each(F(_), s) == FlattenSeq([i \in DOMAIN s |-> F(s[i])])
delayMs(ms) == Do("delay", ms)

\* A byte to a display, or a command with its parameters; and a byte of data.
sendDisplayByte(d, b) ==
  Do("clear", CS[d]) \o Do("send", <<{d}, b>>) \o Do("set", CS[d])
Zero == <<"data", 0>>
Instructions(d, s) ==
  Do("clear", DC[d]) \o Each(LAMBDA b : sendDisplayByte(d, b), s)
Frame(F(_)) == Each(F, [i \in 1 .. FrameBytes |-> Zero])

main == Do("await", "DCH0") \o Do("off", "DMA")

SYS_CLK_Initialize ==
  Do("unlock", 0) \o Do("divide", PBClockDivisor) \o Do("lock", 0)
  \o Do("unlock", 0) \o Do("source", "Posc") \o Do("lock", 0)
  \o Do("unlock", 0) \o Do("multiply", SysPLLMultiplier) \o Do("lock", 0)
  \o Do("unlock", 0) \o Do("source", "SPLL") \o Do("lock", 0)

SYS_DEVCON_PerformanceConfig == Do("waitStates", SYS_CLK_FREQ)

SYS_PORTS_Initialize ==
  Each(LAMBDA port : Do("latch", port) \o Do("drive", port), <<"A", "G", "H", "J">>)

setupAudioDMAs ==
  Do("off", "channels") \o Do("await", "channels") \o Do("on", "silence")
  \o Do("off", "SPI6") \o Do("on", "channels") \o Do("on", "SPI6")

ExternalMemory == Do("on", "EBI") \o Do("on", "DMA")

DisplaySPIs ==
  Do("on", "SPI1") \o Do("set", "reset2") \o Do("set", "cs2")
  \o Do("off", "SPI1") \o Do("on", "SPI1") \o Do("on", "SPI5")

AudioSPIs == Do("on", "SPI3") \o Do("on", "SPI4") \o Do("on", "SPI6")

UARTs == Do("on", "UART2") \o Do("on", "UART4")

Timers == Do("timer3", <<Timer3Prescale, Timer3Period>>)

\* Mutant of configureADC: waits for what it has not turned on yet.
configureADCEarly ==
  Do("await", "ADC") \o Do("on", "ADC") \o delayMs(1)

configureADC == Do("on", "ADC") \o Do("await", "ADC") \o delayMs(1)

DisplaysOutOfReset ==
  delayMs(10) \o Do("set", "reset1")
  \o delayMs(10) \o Do("clear", "reset2") \o delayMs(10) \o Do("set", "reset2")

PanelSettings ==
  << <<"on", FALSE>>, <<"clock", \h80>>, <<"duty", \h1f>>, <<"offset", 0>>,
     <<"addressing", 1>>, <<"pages", 3>>, <<"pump", \h14>>, <<"line", 0>>,
     <<"inverse", FALSE>>, <<"all", FALSE>>, <<"remap", 1>>, <<"scan", 8>>,
     <<"pins", \h42>>, <<"contrast", \hcf>>, <<"precharge", \hf1>>,
     <<"vcomh", \h40>> >>

\* Mutant of configureDisplay: the memory is not cleared before it is shown.
configureDisplayUncleared ==
  Instructions(1, PanelSettings)
  \o Do("clear", "power") \o delayMs(100)
  \o sendDisplayByte(1, <<"on", TRUE>>) \o Do("set", DC[1])

configureDisplay ==
  Instructions(1, PanelSettings)
  \o Do("set", DC[1]) \o Frame(LAMBDA b : sendDisplayByte(1, b))
  \o Do("clear", DC[1])
  \o Do("clear", "power") \o delayMs(100)
  \o sendDisplayByte(1, <<"on", TRUE>>) \o Do("set", DC[1])

ExternalSettings ==
  << <<"on", FALSE>>, <<"clock", \h80>>, <<"duty", \h1f>>, <<"offset", 0>>,
     <<"addressing", 1>>, <<"columns", 131>>, <<"pages", 3>>,
     <<"supply", \h8e>>, <<"line", 0>>, <<"inverse", FALSE>>,
     <<"all", FALSE>>, <<"remap", 1>>, <<"scan", 8>>, <<"pins", \h12>>,
     <<"contrast", \h80>>, <<"precharge", \hd2>>, <<"vcomh", \h34>>,
     <<"on", TRUE>> >>

configureDisplay2 == Instructions(2, ExternalSettings) \o Do("set", DC[2])

\* Of a blank screen: both chips selected, a frame to both.
copyToDisplay ==
  Do("clear", CS[1]) \o Do("clear", CS[2])
  \o Frame(LAMBDA b : Do("send", <<Display, b>>))
  \o Do("set", CS[1]) \o Do("set", CS[2])

startupSequence == copyToDisplay \o delayMs(17)

setDisplayContrast(c) ==
  Do("clear", DC[2]) \o Instructions(1, << <<"contrast", c>> >>)
  \o delayMs(1) \o sendDisplayByte(2, <<"contrast", c>>) \o delayMs(1)
  \o Do("set", DC[1]) \o Do("set", DC[2])

setDisplayFlip(flip) ==
  Instructions(1, << <<"remap", IF flip THEN 0 ELSE 1>>,
                     <<"scan", IF flip THEN 0 ELSE 8>> >>)
  \o Do("set", DC[1])

\* Mutant of CodecOutOfReset: the wait is dropped.
CodecOutOfResetAtOnce == Do("set", "codec")

CodecOutOfReset == Do("set", "codec") \o delayMs(1)

SendPacket(reg, val) ==
  Do("start", 0) \o Do("byte", "address") \o Do("byte", reg) \o Do("byte", val)
  \o Do("stop", 0)

CodecSettings ==
  << <<65, 1>>, <<81, 65>>, <<82, 7>>, <<84, 17>>, <<67, 5>>, <<66, 192>> >>

ConfigureCodec ==
  Do("on", "I2C2")
  \o Each(LAMBDA p : SendPacket(p[1], p[2]), CodecSettings)
  \o Do("off", "I2C2")

APP_Initialize ==
  ExternalMemory \o DisplaySPIs \o AudioSPIs \o setupAudioDMAs \o UARTs
  \o Timers \o configureADC \o DisplaysOutOfReset
  \o configureDisplay \o configureDisplay2 \o startupSequence
  \o setDisplayContrast(128) \o setDisplayFlip(FALSE)
  \o Do("readCalibration", 0) \o Do("off", "SPI1")
  \o CodecOutOfReset \o ConfigureCodec \o Do("on", "I2C4")

SYS_Initialize ==
  SYS_CLK_Initialize \o SYS_DEVCON_PerformanceConfig \o SYS_PORTS_Initialize
  \o APP_Initialize

APP_Tasks == Do("sramTest", 0) \o Do("on", "algorithm") \o Do("on", "service")

Program == main \o SYS_Initialize \o APP_Tasks
Running == pc > Len(Program)
-----------------------------------------------------------------------------
(***************************************************************************)
(* What the chips are and do.                                              *)
(***************************************************************************)
SystemClock == IF source = "SPLL" THEN SPLL(multiplier)
               ELSE SYS_CLK_CONFIG_PRIMARY_XTAL
High(p) == p \in driven /\ latch[p]
Low(p) == p \in driven /\ ~latch[p]

\* A register written, in a chip that has got some already.
With(f, x, y) == [z \in DOMAIN f \cup {x} |-> IF z = x THEN y ELSE f[z]]

\* Out of reset, a display is off and its memory holds anything.
ChipReset == [told |-> << >>, pos |-> 0, zeros |-> 0]

\* A display takes a byte for data or for a command as its pin tells it.
Heard(d, b) ==
  IF SPI[d] \notin on \/ ~High(Reset[d]) \/ ~Low(CS[d]) THEN chip[d]
  ELSE IF High(DC[d])
  THEN [chip[d] EXCEPT !.pos = (@ + 1) % FrameBytes,
                       !.zeros = IF b = Zero /\ @ < FrameBytes THEN @ + 1 ELSE @]
  ELSE [chip[d] EXCEPT !.told = With(@, b[1], b[2])]

Lit(d) == "on" \in DOMAIN chip[d].told /\ chip[d].told["on"]

\* The codec can answer "3846 SCKI cycles" after its reset.
CodecReady == High("codec") /\ age["codec"] * SYS_CLK_CONFIG_PRIMARY_XTAL >= 3846 * 1000

Init ==
  /\ pc = 1
  /\ dead \in SUBSET {"ADC", "codec", "sram"}
  /\ source = "SPLL" /\ wanted = "SPLL" /\ multiplier = FPLLMULT
  /\ pbDivisor = [b \in DOMAIN PBClockDivisor |-> 2]
  /\ unlocked = FALSE /\ waitStates \in BootWaitStates /\ ecc \in BOOLEAN
  /\ latch \in [Pin -> BOOLEAN] /\ driven = {}
  /\ age = [power |-> 0, codec |-> 0]
  /\ on = {"DMA"} /\ timer3 = <<1, 65535>>
  /\ chip = [d \in Display |-> ChipReset]
  /\ codec = << >> /\ packet = << >> /\ success = TRUE
  /\ halted = FALSE
  /\ displayMode = "normal" /\ settings = Defaults /\ flash = Defaults
-----------------------------------------------------------------------------
(***************************************************************************)
(* The instructions carried out.                                           *)
(***************************************************************************)
Executes(op) ==
  /\ ~Running /\ ~halted
  /\ Program[pc].op = op
  /\ pc' = pc + 1
Arg == Program[pc].arg

\* The converter's flags come only if it is on; the DMA's, in any case.
Wait ==
  /\ Executes("await")
  /\ Arg = "ADC" => "ADC" \in on /\ "ADC" \notin dead
  /\ UNCHANGED <<environment, clocks, pins, on, timer3, chip, bus, halted,
                 calibration>>

Switch ==
  /\ \/ Executes("on") /\ on' = on \cup {Arg}
     \/ Executes("off") /\ on' = on \ {Arg}
  /\ UNCHANGED <<environment, clocks, pins, timer3, chip, bus, halted,
                 calibration>>

\* The registers of the oscillator can be written while it is unlocked.  The
\* external oscillator is running, and the processor is on it at once; the
\* PLL has to lock first.  Changing a PLL in use stops everything.
Oscillator ==
  /\ \/ /\ Executes("unlock")
        /\ unlocked' = TRUE
        /\ UNCHANGED <<source, wanted, multiplier, pbDivisor, halted>>
     \/ /\ Executes("lock")
        /\ unlocked' = FALSE
        /\ UNCHANGED <<source, wanted, multiplier, pbDivisor, halted>>
     \/ /\ Executes("divide")
        /\ pbDivisor' = IF unlocked THEN Arg ELSE pbDivisor
        /\ UNCHANGED <<source, wanted, multiplier, unlocked, halted>>
     \/ /\ Executes("source")
        /\ wanted' = IF unlocked THEN Arg ELSE wanted
        /\ source' = IF wanted' = "Posc" THEN "Posc" ELSE source
        /\ UNCHANGED <<multiplier, pbDivisor, unlocked, halted>>
     \/ /\ Executes("multiply")
        /\ multiplier' = IF unlocked THEN Arg ELSE multiplier
        /\ halted' = (unlocked /\ source = "SPLL")
        /\ UNCHANGED <<source, wanted, pbDivisor, unlocked>>
  /\ UNCHANGED <<environment, waitStates, pins, on, timer3, chip, bus,
                 calibration>>

PLLLocks ==
  /\ wanted = "SPLL" /\ source # "SPLL"
  /\ source' = "SPLL"
  /\ UNCHANGED <<pc, environment, wanted, multiplier, pbDivisor, unlocked,
                 waitStates, pins, on, timer3, chip, bus, halted, calibration>>

PerformanceConfig ==
  /\ Executes("waitStates")
  /\ waitStates' = WaitStates(Arg, ecc)
  /\ UNCHANGED <<environment, source, wanted, multiplier, pbDivisor, unlocked,
                 pins, on, timer3, chip, bus, halted, calibration>>

\* SYS_PORTS_Initialize writes a port's latches before it makes outputs of
\* its pins.  A display whose reset is not high forgets everything.
PinsBecome(l, o, changed) ==
  /\ latch' = l /\ driven' = o
  /\ age' = [p \in DOMAIN age |-> IF p \in changed THEN 0 ELSE age[p]]
  /\ chip' = [d \in Display |->
                IF Reset[d] \in o /\ l[Reset[d]] THEN chip[d] ELSE ChipReset]

Ports ==
  /\ LET here == {p \in Pin : Port(p) = Arg} IN
     \/ /\ Executes("latch")
        /\ PinsBecome([p \in Pin |-> IF p \in here THEN PortLatch[p] ELSE latch[p]],
                      driven, here)
     \/ /\ Executes("drive")
        /\ PinsBecome(latch, driven \cup here, here)
     \/ /\ Executes("set")
        /\ PinsBecome([latch EXCEPT ![Arg] = TRUE], driven, {Arg})
     \/ /\ Executes("clear")
        /\ PinsBecome([latch EXCEPT ![Arg] = FALSE], driven, {Arg})
  /\ UNCHANGED <<environment, clocks, on, timer3, bus, halted, calibration>>

ConfigureTimer ==
  /\ Executes("timer3")
  /\ timer3' = Arg
  /\ UNCHANGED <<environment, clocks, pins, on, chip, bus, halted, calibration>>

\* delayMs counts the timer round as often as it is told to.
DelayMs ==
  /\ Executes("delay")
  /\ LET tick == TickMicros(SystemClock \div pbDivisor[3], timer3[1], timer3[2])
         later(x) == IF x + Arg * tick < MaxAge THEN x + Arg * tick ELSE MaxAge
     IN  age' = [p \in DOMAIN age |-> later(age[p])]
  /\ UNCHANGED <<environment, clocks, latch, driven, on, timer3, chip, bus,
                 halted, calibration>>

Send ==
  /\ Executes("send")
  /\ chip' = [d \in Display |->
                IF d \in Arg[1] THEN Heard(d, Arg[2]) ELSE chip[d]]
  /\ UNCHANGED <<environment, clocks, pins, on, timer3, bus, halted, calibration>>
-----------------------------------------------------------------------------
(***************************************************************************)
(* The codec's bus.  A lost arbitration and, once the transfer has been    *)
(* stopped, a byte that was not acknowledged both stop the program.        *)
(***************************************************************************)
StartTransfer ==
  /\ Executes("start") /\ "I2C2" \in on
  /\ packet' = << >> /\ success' = TRUE
  /\ halted' \in BOOLEAN
  /\ UNCHANGED <<environment, clocks, pins, on, timer3, chip, codec, calibration>>

TransmitOneByte ==
  /\ Executes("byte")
  /\ IF success
     THEN \E answer \in BOOLEAN :
            /\ answer => CodecReady /\ "codec" \notin dead
            /\ success' = answer
            /\ packet' = IF answer THEN Append(packet, Arg) ELSE packet
     ELSE UNCHANGED <<success, packet>>
  /\ UNCHANGED <<environment, clocks, pins, on, timer3, chip, codec, halted,
                 calibration>>

\* Mutant of ErrorHalt: the program goes on after an error.
ErrorHaltNever == FALSE

ErrorHalt == ~success

\* The codec has a setting when it has taken its address, the register and
\* the value.
StopTransfer ==
  /\ Executes("stop")
  /\ codec' = IF Len(packet) = 3 THEN With(codec, packet[2], packet[3]) ELSE codec
  /\ packet' = << >>
  /\ halted' = ErrorHalt
  /\ UNCHANGED <<environment, clocks, pins, on, timer3, chip, success, calibration>>
-----------------------------------------------------------------------------
\* displayMode is never set back to normal.
ReadCalibrationFromSettings ==
  /\ Executes("readCalibration")
  /\ flash' \in Flash
  /\ settings' = Settings(flash')
  /\ displayMode' = IF BadCalibration(flash') THEN "calibration" ELSE displayMode
  /\ UNCHANGED <<environment, clocks, pins, on, timer3, chip, bus, halted>>

\* The external memory answers if its bus has been set up.
QuickSRAMtest ==
  /\ Executes("sramTest")
  /\ displayMode' = IF "EBI" \in on /\ "sram" \notin dead THEN displayMode
                    ELSE "restart"
  /\ UNCHANGED <<environment, clocks, pins, on, timer3, chip, bus, halted,
                 settings, flash>>

Step ==
  \/ Wait \/ Switch \/ Oscillator \/ PerformanceConfig \/ Ports
  \/ ConfigureTimer \/ DelayMs \/ Send
  \/ StartTransfer \/ TransmitOneByte \/ StopTransfer
  \/ ReadCalibrationFromSettings \/ QuickSRAMtest

Next == Step \/ PLLLocks

\* The processor runs, and the PLL locks sooner or later.
Spec == Init /\ [][Next]_vars
FairSpec == Spec /\ WF_vars(Step) /\ WF_vars(PLLLocks)
-----------------------------------------------------------------------------
(***************************************************************************)
(* The program gets to the display loop, or stops because of the codec's   *)
(* bus, whatever the flash holds and whenever the PLL locks; a converter   *)
(* that never answers is waited for (configureADC, SendPacket).            *)
(***************************************************************************)
Boots == "ADC" \notin dead => <>(Running \/ halted)

(***************************************************************************)
(* The flash always has the wait states the processor's clock needs,       *)
(* whenever the PLL locks, and once it has, every bus runs at what         *)
(* system_config.h says of it, which the timers and transmitters that are  *)
(* set up rely on (SYS_CLK_Initialize, SYS_DEVCON_PerformanceConfig).      *)
(***************************************************************************)
ClocksAsMeant ==
  /\ waitStates >= WaitStates(SystemClock, ecc)
  /\ on \cap {"SPI1", "SPI5", "UART2", "UART4", "I2C2"} # {} /\ source = "SPLL" =>
       /\ SystemClock = SYS_CLK_FREQ
       /\ \A p \in DOMAIN pbDivisor :
            SystemClock \div pbDivisor[p] = SYS_CLK_BUS_PERIPHERAL[p]
       /\ ReferenceClock(SystemClock, RODIV, ROTRIM) = SYS_CLK_BUS_REFERENCE_4

(***************************************************************************)
(* The panel has had its supply for the 100 ms that configureDisplay waits *)
(* before it is lit, and the codec its 3846 cycles out of reset before it  *)
(* is spoken to, by the time that really passes: delayMs counts a timer    *)
(* that depends on the dividers and on the PLL.                            *)
(***************************************************************************)
TimeGiven ==
  /\ Lit(1) => Low("power") /\ age["power"] >= 100000
  /\ "I2C2" \in on => CodecReady

\* Where the program tells a display a setting, in its first n instructions,
\* and that a display holds of each setting the last it was told.
Tellings(d, n) ==
  {i \in 1 .. n : /\ Program[i].op = "send" /\ d \in Program[i].arg[1]
                  /\ Program[i].arg[2] # Zero}
Setting(i) == Program[i].arg[2][1]
HoldsTheLast(d, n) ==
  /\ DOMAIN chip[d].told = {Setting(i) : i \in Tellings(d, n)}
  /\ \A i \in Tellings(d, n) :
       \/ chip[d].told[Setting(i)] = Program[i].arg[2][2]
       \/ \E later \in Tellings(d, n) : later > i /\ Setting(later) = Setting(i)

(***************************************************************************)
(* The panel never shows what its memory holds from before, and when the   *)
(* loop begins both displays have heard all they were told, expect the     *)
(* next byte at the beginning of a frame, and are selected no more; the    *)
(* loop shows the settings unless something was wrong (configureDisplay,   *)
(* copyToDisplay, setDisplayContrast, setDisplayFlip, displayMessage4x16). *)
(***************************************************************************)
DisplaysReady ==
  /\ Lit(1) => chip[1].zeros = FrameBytes
  /\ Running =>
       /\ \A d \in Display :
            /\ HoldsTheLast(d, Len(Program)) /\ chip[d].pos = 0
            /\ High(CS[d]) /\ High(DC[d])
       /\ displayMode = "normal" <=> "sram" \notin dead /\ ~BadCalibration(flash)

(***************************************************************************)
(* When the loop begins the codec has every setting, since any byte it     *)
(* did not acknowledge has stopped the program, with its bus released; and *)
(* it gives no clock (register 81) before the channels that the clock will *)
(* drive are there and their memory is silent (ConfigureCodec, SendPacket, *)
(* setupAudioDMAs).                                                        *)
(***************************************************************************)
CodecAsMeant ==
  /\ Running =>
       /\ DOMAIN codec = {CodecSettings[n][1] : n \in DOMAIN CodecSettings}
       /\ \A n \in DOMAIN CodecSettings :
            codec[CodecSettings[n][1]] = CodecSettings[n][2]
  /\ 81 \in DOMAIN codec =>
       {"SPI3", "SPI4", "SPI6", "DMA", "channels", "silence"} \subseteq on
  /\ halted => "I2C2" \in on /\ packet = << >>

(***************************************************************************)
(* Whatever the flash holds, the calibration used is in range, divides by  *)
(* no zero, and takes each jack's gain and offset from the same input      *)
(* (ReadCalibrationFromSettings).                                          *)
(***************************************************************************)
CalibrationSound ==
  /\ \A i \in Input : settings.inData[i].zeroIn \in ZeroRange
                      /\ settings.inData[i].threeVolt \in ThreeVoltRange
  /\ \A i \in Output : settings.outData[i].zeroOut \in ZeroRange
                       /\ settings.outData[i].halfOut \in HalfOutRange
  /\ \A d \in Half :
       /\ \A i \in 0 .. 2 : Divisor(settings, d, i) # 0
       /\ \A i \in 0 .. 1 : OutputDivisor(settings, d, i) # 0
  /\ \A w \in Input : GainOf(w) = OffsetOf(w)
=============================================================================

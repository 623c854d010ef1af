# A verification project for distingEX

distingEX is the firmware of a Eurorack module: a PIC32MZ running audio
algorithms (here Mutable Instruments' *Peaks* processors) with a small display,
two encoders, two pots, MIDI in and out, the *Select Bus* (MIDI between modules
over one shared line), an I2C slave interface, and settings in flash. This
directory holds TLA+ models of its control logic, the TLC configurations that
check them, and proofs for TLAPS. The code is in C and C++ under `src/`; file
names below are relative to that.

## 1. How the program runs

There is one thread and a few interrupts.

* `displayLoop` (`app.c`) runs for ever. It serves an audio block whenever the
  DMA has finished half of the sample buffer (`serviceAudioSingle`,
  `serviceAudio`), and repaints the display in between.
* An audio block (`serviceAudioInternalSingle`) calls `algorithm_step`, drains
  the three receive rings into their parsers (`FlushMIDIRx`), and hands a byte to
  the MIDI transmitter if `midiOutPending`. `serviceAudioSingle` then calls
  `algorithm_idle`, which may serve blocks itself while it waits for the flash
  controller (`NVMOpWithAudioService`).
* The interrupt handlers of the I2C slave, the two UARTs and the timer may run
  between any two instructions of that. The Select Bus's (priority 4) may interrupt
  MIDI's (priority 1), which does not matter here: each fills its own ring.

What makes it hard: data shared between handlers and the main loop without
locks, a receive ring that releases a slot before it reads it, counters that two
parties update, byte-wise state machines with running status and real-time bytes
anywhere, and an audio service that is called from inside the code that waits
for a flash operation and changes the very data being saved.

## 2. Inventory

| component | code | state | operations | talks to | what makes it correct |
|---|---|---|---|---|---|
| Receive rings (I2C, Select Bus, MIDI) | `app.c`, `i2c.c` | slots, read and write cursor, each | the handler's store or overflow; one round of `FlushMIDIRx` | handlers fill, parsers drain | order, nothing lost unless full, a byte in hand not overwritten |
| MIDI input parser | `midi.c` | state, status, channel, two data bytes, sysex buffer, clock | `ProcessMIDI`, `ProcessStatus`, the sysex and real-time handlers | called for each byte of the MIDI ring | delivers what was sent; recovers after a loss |
| Select Bus parser | `recall.c` | the same kind of machine, save mode, remembered preset | `Recall_ProcessMIDI`, its handlers | called for each byte of the Select Bus ring | saves and loads exactly as asked; recovers |
| MIDI output | `midi.c`, `app.c` | ring, pending flag | `QueueMIDI1..3`, `BlockingQueueMIDI1..3`, `HandleMIDIOut` | callers in the main loop; the transmitter | whole messages in order, all sent, nobody stuck |
| Select Bus output | `i2c.c`, `app.c` | `recallIgnoreBytes` | sending a message; the receive handler's check | the transmitter, its own echo | no echo parsed, few foreign bytes lost |
| I2C slave | `i2c.c` | ring, parser state, message, response | `I2C4SlaveInterruptHandler`, `ProcessI2CIn`, the command handlers | feeds MIDI output and Select Bus output; prepares responses the handler reads | commands executed as sent; reads answered with the last response |
| Front panel and settings | `app.c`, `algorithm.cc` | contacts, pot sums, edit mode, functions, buttons, encoders, parameters | `readAndTriggerADCs`, the sampling in `serviceAudioInternalSingle`, `algorithm_UI`, `SetFunction` | the Peaks processors; asks for a save | one act per press, clicks follow the hand, no jump, focus respected |
| Settings in flash | `algorithm.cc`, `nvm.c`, `app.c` | save request, row buffer, flash page | `algorithm_idle`, `NVMOpWithAudioService`, `algorithm_init` | the panel, the audio service within the wait | no change forgotten, what is in flash is what was set |
| Audio service and DMA | `app.c`, `app.h`, `algorithm.cc` | half-buffer flags, the round, nesting | `CheckServiceAudio`, `serviceAudioSingle`, `serviceAudioInternalSingle` | everything | each half processed once, in phase with the DMA |
| Signal processing | `algorithm.cc` | Peaks processors | `algorithm_step` | the row buffer (its scratch byte), its minimum load | floating point, external |
| Display | `display.c`, `displayHW.c`, `boot_displayHW.c` | frame, blank countdown, on/off | set-up, drawing, the flushing functions, the loop | parsers and panel wake it | framing of commands and data, blanking, a clean start |
| Calibration | `calibrate.c` | calibration words, factors | reading, validity check, computation | converters | ranges, no division by zero, jacks not mixed up |
| I2C master | `i2c.c` | a packet being sent | `SendPacket`, `ConfigureCodec` | codec | all settings acknowledged, or a stop |
| Start-up | `app.c`, `main.c`, `system_init.c` | what is on, pins, delays | initialisation in order | everything | nothing used before it is ready |
| Harmony framework | `system_config/` | oscillator, flash wait states, ports | `SYS_CLK_Initialize`, `SYS_DEVCON_PerformanceConfig`, `SYS_PORTS_Initialize` | start-up | clocks as the program believes them to be |

The behaviours that are hard to test, each at its line and with the properties
aimed at it, are listed in `PROJECT.json` under `hazards`.

## 3. Modules

| module | models | composed from |
|---|---|---|
| `BoundedFifo` | abstract: a bounded first-in first-out line that takes items whole or refuses them | |
| `RxQueue` | a receive ring: handler against `FlushMIDIRx` | implements `BoundedFifo` |
| `Audio` | the audio service against the DMA's double buffer, with time; it is what calls `FlushMIDIRx` | extends `RxQueue` |
| `AudioProofs` | theorems about `RxQueue`; that the service is one of its callers, so that they hold in it; that the service comes back in phase and keeps up | extends `Audio` |
| `MidiOut` | the MIDI output ring, its callers, service and transmitter | implements `BoundedFifo` |
| `MidiOutProofs` | theorems about `MidiOut`, the refinement among them | extends `MidiOut` |
| `SelectBus` | sending on the Select Bus and `recallIgnoreBytes` | |
| `I2CSlave` | interrupt handler, command parser, responses | takes the receive ring for a bounded line |
| `Bridge` | messages from the I2C bus passed on to the MIDI output and the Select Bus | extends `I2CSlave`; takes `MidiOut` for the `BoundedFifo` it implements |
| `BridgeProofs` | theorems about the slave, and that the bridge is one | extends `Bridge` |
| `Display` | display loop, the displays and their SPI transmitters, blanking | |
| `DisplayProofs` | theorems about `Display` | extends `Display` |
| `MidiBytes` | what the bytes of MIDI are | |
| `MidiWire` | the sender and its line: messages, running status, real-time bytes, losses | `MidiBytes` |
| `MidiParser` | the byte-wise state machine that `midi.c` and `recall.c` share in form | `MidiBytes` |
| `MidiReceiver` | what `MidiIn` and `RecallIn` share: the statics of a parser, the sysex buffer's size | extends `MidiWire` |
| `MidiIn` | `midi.c`'s parser, its real-time handler and clock | extends `MidiReceiver`; `MidiParser` |
| `RecallIn` | `recall.c`'s parser, save and load | extends `MidiReceiver`; `MidiParser` |
| `MidiInProofs` | theorems about `MidiIn`, `RecallIn` and `SelectBus` | extends the three |
| `Algorithm` | the settings, `SetFunction`, `algorithm_UI` | |
| `Panel` | hands, contacts, conversions and the sampling that calls `algorithm_UI` | `Algorithm` |
| `PanelProofs` | theorems about `Panel` | extends `Panel` |
| `FlashSave` | audio service, `algorithm_idle`, `algorithm_init`, the controller, power failures | `Algorithm` |
| `FlashSaveProofs` | theorems about `FlashSave` | extends `FlashSave` |
| `Calibration` | pure: what is made of the calibration words | |
| `Clock` | pure: dividers, multiplier, wait states, delays | |
| `StartUp` | the program from reset to the display loop, and the chips it sets up | `Clock`, `Calibration` |
| `StartUpProofs` | theorems about `StartUp` | extends `StartUp` |

`MC<module>.tla` gives the constants values for TLC. Definitions called "Mutant
of ..." are plausible mistakes in the operator below them; each makes one of the
properties fail under its run's configuration and so shows that the property
looks at the code. They are used in nothing else.

### How the modules correspond to the code

**RxQueue.** `RxInterrupt` is the handler: the overflow branch or the store, in
one step, since nothing in the main loop can run in the middle of it.
`FlushMIDIRx` is `Check`, `Publish` and `Fetch`, because the handler can run
between any two of its accesses to shared memory; the source publishes
the new read cursor before it reads the slot. The cursors are not `volatile` in
the source, but every round of the loop calls functions the compiler cannot see
into, so they are read again each round; the order publish-then-fetch is the
source's, and the worse of the two a compiler may choose. `& (size - 1)` is
written as the wrap it is for a power of two. `accepted`, `delivered` and `lost`
are histories. The read cursor starts at -1: until the first byte is taken the
overflow test cannot fire. `BootRx` says how many bytes come before that. `APP_Initialize` enables the UARTs' receive interrupts and then takes at
least some 50 ms of delays until the loop starts; the I2C slave is
configured only near its end. The MIDI ring's 1024 slots are 328 ms of bytes, so
it has slots to spare; the Select Bus ring has 16, full after 5 ms, and
fewer bytes than slots before the first is taken is then an assumption about the
other modules, that they are silent while this one starts. The code does not
make sure of it.

**Audio.** A tick is a fraction of the time the DMA takes for half a buffer; the
loop's pieces of work cost ticks (`busy`) and its decisions none. `Tick` is the
DMA: leaving a half it raises `BIT_4` or `BIT_5` of `DCH5INT` and plays the other
half as it finds it. `CheckServiceAudio` and `HalfDone` begin the two rounds of
`serviceAudioInternalSingle`, `WriteOutput` and `StepDone` are `algorithm_step`'s
write and the end of its loop that waits for the minimum load, `ClearForHalf` is
the clearing of both flags between the rounds. What a half holds is known by its
age in half buffers; a half that was read or written while the DMA was in it is
`Torn`. `HoldUp` makes the loop late by any of a set of delays, at any
point, again while it is late too: interrupt handlers, a display command, a flash
operation; `quiet` counts the half buffers since the whole of it was over. The receive
ring is the one of `RxQueue`, filled by `ByteInterrupt` at the line's speed.
`LoadAssumption` says that the processor can do its work: a block and the rest of
a service together take less than a half.

**MidiOut.** All callers and the service are the main loop, so a call is one step
up to where it spins on the transmitter's full flag. `Offer` is a caller of
`QueueMIDI1`, `2` or `3`; `Insist` one of the `BlockingQueueMIDI` functions, for
a message as a whole or byte by byte as `ProcessI2CMIDICommand` does it;
`MakeRoom` is a round in which the blocking call calls `HandleMIDIOut` itself.
`QueueMIDI2` and `3` write into the ring before they know that all of the
message fits (`Scribbled`), which the model keeps: it is harmless only because
the write position stays. As in `RxQueue`, the read position starts at -1;
`BootQueued` bounds what is queued before the first byte is taken. That holds in
this program because queueing is caused by I2C commands, the I2C ring has 256
entries and so stands for at most about 510 bytes of MIDI in one flush, and the MIDI
queue has more slots than that. Neither `FlushMIDIOut` nor `sendSysExMsg`, which is a loop of `BlockingQueueMIDI1`, is called.

**SelectBus.** `Command`, `Write`, `Load` and `Store` are
`ProcessI2CMIDICommand` for a Select Bus message; the addition
`recallIgnoreBytes += numBytes` is a read, an addition and a write, and the
receive handler (`EchoArrives`, `ForeignArrives`) may come between them. The
transmitter is counted, its content does not matter. One assumption is
about time, and stated in the module: a byte takes 320 microseconds on the line
and the main loop, unless it waits for room, is done with the message in less, so the echo
of a byte whose sending began while the main loop was at it is not back before the loop
waits or is done. The bus is half-duplex: others speak while our line is silent.

**I2CSlave.** `Interrupt` is the handler for one event of the bus: an entry for
the ring, or an answer to a read. `ProcessI2CIn` takes one entry. The states
are the source's (`kWantByte2of4` is `"2of4"`). After the third byte of a
three-byte command the state stays as it is, so each further byte of the transfer
makes another command; `Meant` says so, because that is what the code does and
no document of the repository says otherwise. A response is three stores (bytes,
index, size), and a read may fall between them. Most commands have empty handlers in
this code base; the model records the command and its bytes.

**Bridge.** `Process` is a `ProcessI2CIn` that may begin to pass a message on,
`PassOnMIDI` and `PassOnBus` are a byte of it put into an output that has room;
while it has none nothing else is taken from the I2C ring, and the handler goes
on (`Meanwhile`). The outputs are `BoundedFifo`s, which the run `midi_out` shows
`MidiOut` to implement; the Select Bus's transmitter is one a few bytes deep.

**MidiParser, MidiIn, RecallIn.** A byte is one step, because the main loop runs
the parser to completion. The two parsers have the same form and differ in what
a status byte makes them want, in the real-time bytes (taken out first in
`midi.c`, not in `recall.c`), and in what the messages do; what they have alike as
receivers is in `MidiReceiver`. The sender
(`MidiWire`) sends well-formed messages, with or without running status, cuts
sysex short with another status, puts real-time bytes anywhere, and loses bytes; a `Session` says
which of that a line does, so that one run has a busy line and a lossy one. What a
well-formed message is, `WellFormed` says and `SessionAssumption` demands: a status byte
first and data after it, two or one for a voice message, and the end of a sysex nowhere
but at its end. On the Select Bus what is sent with the status F4 names a slot
(`RecallAssumption`).

**Algorithm, Panel.** `algorithm_UI` is one step, for one sample of buttons,
encoders and pots: the buttons first, then the knobs under the mode the buttons
left. Short and long presses, `edit_mode ^= 1`, `& 3` and `^ 4` on functions, and
the clamps are as in the source. Parameters are a small range with the clamp at
its end, and the encoder's scale and the pot's threshold are constants. `Panel` is
what `serviceAudioInternalSingle` does with the panel: every service takes a
finished conversion into the sum of the last `kNumZsamples`, and every
`kSlowTimeRatio`-th service samples the pins. An encoder stands at one of four
quarters between detents and moves by at most one from one sample to the next,
either way; `Click` is the code's reading of its two contacts.

**Display.** One round of `displayLoop` is a check for audio (`Serve` or
`NothingDue`) and one of `SendByte`, `NotYet`, `TooEarly` and `updateDisplay`.
The panel's display and an external one hang on SPI transmitters of their own
(`SPI1_IS_EXT_DISPLAY` is defined) and take what comes out (`Shift`) as the pins
tell them at that moment: the chip selects and the data/command lines are state.
`APP_Initialize` turns the second transmitter off before the loop starts (under
`if ( 1 )`); the loop still writes to it and asks it whether it is full, and
`Enabled` says which are on: in the run, as in the code, the panel's only. That one
that is off takes nothing and is never full or busy is external. Commands are sent
one by one, with the chip selected around each; no audio is served meanwhile, but
the transmitters work. `Draw` clears the screen byte by byte and then draws each
from the settings as they are then; drawing ORs into what is there, so a byte that was not
cleared keeps what it showed. Audio may be served between any two. `flushDisplayWrite` (which
`sendSysExMsg` begins with), `flushDisplayWriteWithAudioService` and
`allowDisplayWrite` are offered to algorithms, which run in the audio service. The
algorithm here uses none of them; the model lets it. Time is counted in blocks.

**FlashSave.** `pc` is where the main loop is between `serviceAudioSingle`,
`algorithm_idle` and its two waits. `ServeWhileWaiting` is a block served from
within `NVMOpWithAudioService`; it may sample the panel and so change settings
and request a save, and `algorithm_step` may leave a byte in the row buffer. The
flash controller reads the row from RAM at some moment (`Fetch`) and programs it
(`EndWrite`); `EarlyFetch` says that it has done so before the processor serves
the next block, which the code relies on. The row
goes in as a whole. `PowerFails` may happen anywhere and is followed by
`algorithm_init`.

**Clock, Calibration, StartUp.** The start-up code is straight-line, so it is
written as what it is: a sequence of instructions (`Program`), put together by one
operator per function, in the functions' order. Each action carries out one kind
of instruction, and so meets the state the instructions before it have left: a
byte for a display is heard only if the display is out of reset, selected and its
transmitter on, and is a command or data as the pin says then; a delay lasts as
long as timer 3 makes it at the clock the processor has at that moment. The
chips' behaviour is external. Choices are left to the environment: when the PLL
locks, whether the flash has error correction and how many wait states at reset,
which of the converter, the codec and the external memory are dead, which byte is
not acknowledged, whether arbitration is lost, and what the page of settings holds.
At reset there are wait states enough for the fastest clock (`StartUpAssumption`; out of reset the PIC32MZ has seven).
Switching to the crystal takes effect at once, although the code does not wait for
`OSWEN`, and the I2C2 bus is idle when it is first used. Pins' latches and
directions are those of `system_config.h`, for the ports the displays, the supply
and the codec hang on.

`Calibration` keeps the words as 32-bit integers and says what they are read, mended
and divided by. Division is C's. The factors are 64-bit or floating point and
left out.

## 4. Runs

| run | what it asks | what it shows |
|---|---|---|
| `audio` | does the service come back in phase with the DMA after being held up, and is the receive ring under it a bounded line? | yes: a few half buffers after any hold-up every half played is made from the input one half before; only hold-ups lose bytes; every byte accepted is delivered |
| `midi_out` | can a message be torn, reordered or left unsent, or a blocking caller hang? | no |
| `select_bus` | does the echo counting hold although it is done late and not atomically? | no echo is parsed; for each message sent, at most one byte of another device is lost |
| `bridge` | are I2C commands executed as sent, and messages passed on, through overflows, broken-off transfers, early reads and full outputs? | yes, for every transfer the ring took whole; messages go on whole and in order |
| `midi_in` | is every message delivered as sent, does the clock follow, and does the parser recover from lost bytes? | yes, on a line that loses nothing; and on one that does, once two messages of two data bytes come whole with their status |
| `display` | can a frame be torn or shifted, a command fall into one, the display blank early or not wake, or old settings stay on show? | no |
| `recall` | are presets saved and loaded exactly as asked, and after a loss? | yes, with real-time bytes between messages |
| `recall_real_time` | are real-time bytes handled on the Select Bus as `midi.c` says they must be? | no (a finding) |
| `flash_save` | can a change be forgotten or saved twice, a press counted twice? | no; every change is written in the end |
| `flash_restore` | are the settings restored those saved? | not in a shared mode with two different functions (a finding) |
| `panel` | do clicks follow the hand and parameters the pots, without jumps, in the focused processor only? | yes |
| `startup` | is the flash ever too slow or a clock not what the program thinks, a display lit with garbage or out of step, the codec spoken to too early or set up in part, a calibration used out of range? | no; with a live converter the program gets to the loop, or stops because of the codec's bus |

What `startup` also shows of the code, though no document says otherwise: one byte
that is not acknowledged stops the module for good (`ErrorHalt`), and `displayMode`
never returns to normal, so that the message about the memory or the calibration
stays until the power is turned off (`DisplaysReady` states when it is there). The
external display is turned on before anything is written into its memory; that
nothing is shown from before is stated for the panel's only.

### Bounds, and why they are enough

* `audio`: a half of six ticks, steps of a third and two thirds of it (so both
  sides of the minimum load), a byte at most every five ticks, so that the ring is
  full now and then, six
  bytes in a ring of four slots, and one hold-up, of less than a half or of more than two
  buffers, at any point from any position of the DMA. The loads, the
  delays and the ring are small because every combination of the loop's and the
  DMA's position must be met, and is. `Recovery` is eleven half buffers; the proof shows that
  nine are enough. The proofs cover every ring, load and hold-up, and any number of them. Of the ring's
  filling they ask for more time than the run gives it: its ring of four slots can
  fill in fifteen ticks, and four half buffers are 24.
* `midi_out`: five slots (two more than the longest message), a transmitter of
  two bytes and eight bytes offered: the ring wraps, refuses, and a caller has
  to make room more than once.
* `select_bus`: a transmitter three deep, five messages of one to three bytes and
  three bytes of others: the transmitter is full in the middle of a message and
  between messages. At most four decrements are overwritten that no byte of another device
has been lost for yet (`MaxOwed`), and the counter has just values enough for that. The proofs cover every depth from two, and any number of messages.
* `bridge`: a ring of five slots holds less than a transfer of a four-byte
  command, and three transfers (of each kind, and some cut short) show what one
  leaves behind for the next; two bytes read is one more than the shorter response.
  A MIDI output of two bytes and a Select Bus of one make a message of three wait in
  the middle.
* `midi_in` (its busy line), `recall`: three messages, of which the first leaves a state, the
  second meets it and the third shows what is left; the sysex buffer's eight
  bytes can be exceeded by one of the messages; four real-time bytes take the
  clock, with a cycle of two, round more than once and through a Start.
* `midi_in` (its lossy line): five messages and two losses, so two can go wrong
  and three be whole.
* `display`: frames of three bytes and a transmitter of two, so the loop finds it
  full in the middle of a frame, and busy at its end; a frame every
  two blocks and blanking within the third, so the display goes off and on again
  at every step of a frame. Two settings are enough to see an old one.
* `flash_save`: three button actions and one power failure: one action before, one
  during and one after a save, and a failure in any of these. The hold counter stops being
  counted at `MaxHold`, beyond the value at which it acts; encoders and pots,
  which do not ask for saves, are left still (`panel` moves them).
* `panel`: parameters 0..5 with a scale of three, so that the end of the range is
  no multiple of the step, as 65535 is not; sums of two conversions of 0 or 1 with
  a threshold two conversions must make together; a sample every second service. One
  side's hand moves; the two sides' code is the same, and the modes in which
  one side's knobs act on the other's processor are all reached.
* `startup`: displays of four bytes, so that a frame lost or left out in part would be
  seen; pages of settings with one word wrong at each end of each range, in
  inputs on both sides of the order of the jacks. Everything else has its true value.

`CHECK_DEADLOCK FALSE` is given where the environment's bound (messages, bytes,
transfers) lets the system come to rest, the program itself going on waiting; and in
`startup`, which ends where the loop begins or where the program has stopped.

### Fairness

* `Audio`: time passes and the processor goes on with the service, whose steps
  include the drain of the ring. Bytes need not come, nor hold-ups, nor other
  work between two polls.
* `MidiOut`: a blocking caller does nothing but go round its loop; blocks keep
  coming, each calls `HandleMIDIOut` if `midiOutPending`; a UART sends what it
  holds. Nobody need queue anything.
* `Display`: blocks keep coming and the loop goes on, serving them; an SPI
  transmitter sends what it holds. Activity need not come.
* `FlashSave`: blocks keep coming, `algorithm_idle` is called after each, and
  the flash controller finishes what it starts (the code waits for it without a
  timeout). Buttons need not be pressed and the power need not fail.
* `StartUp`: the processor goes on, and the PLL locks. Nothing that is dead answers.

## 5. Proofs

A theorem is stated for every value of the module's constants that its named
assumptions allow. Each module has one inductive invariant, from which its theorems
follow; TLC checked each on the run's instance before it was proved.

**AudioProofs**, the receive ring. For every ring size: the type invariant (`TypeCorrect`, with
no further assumption); and, if fewer bytes than slots arrive before the first
is taken (`BootRx < QueueSize`; for the Select Bus see above), `CountCorrect`, `SlotSafe`, `OrderKept`
(together `RingIsSafe`), `DropsJustified` and `RingImplementsFifo`, the refinement of `BoundedFifo`.
The properties are not inductive as they stand. The inductive invariant adds what each
`pc` knows of `nextRead`, that the count of unread bytes stays below the number
of slots, and that every unread slot holds the byte of `accepted` whose turn it
is, which is what makes a store hit a slot no one is waiting for. The assumption
is needed: with as many bytes as slots before the first is taken, the write
cursor comes back to where an empty ring has it and the ring looks empty, since
the overflow test compares with -1.

`ServiceDrivesRing`: every behaviour of the audio service is a behaviour
of `RxQueue` (a step of the service is a step of the drain, of the handler, or
leaves the ring alone), for every half, load, delay and arrival. With it the ring's
theorems hold inside the service: `ServiceKeepsBytes`, `ServiceImplementsFifo`.

`ComesBackInPhase`: for every half, every load that `LoadAssumption` allows, and
hold-ups of any length, at any point and in any number, every half buffer played
nine or more half buffers after the last hold-up (or the start) was made from the
input taken just before it. The property says nothing of the states in between, so
the invariant `PhaseInv` has to say where in them the service may be. In phase, it is `Early` (round
0, the DMA in the first half) or `Late` (round 1, the DMA in the second), on
schedule, with the ages of inputs and outputs that belong there. Out of phase it is on
one of nine ways back: waiting for a flag, in a step of one round or the other, at a flush, at
the poll with a stale flag, and `Redo`, a round in the wrong half on which the next
follows at once. Each way has a bound on the ticks it
takes, and `Recovers` says that this bound is below `Slack`, what is left of the nine
half buffers. A tick takes one from both; a decision of the loop leads to
a way with a smaller bound. The minimum load of `algorithm_step` enters in `Redo`: two rounds
that follow each other at once and each last over half of a half buffer end after the DMA
has left the half they began in, so that `ClearForHalf` clears the flag it then raised and the service waits
for the right one. `LoadAssumption` enters wherever a step must
end in the half it began in.

`KeepsUp`: in a service that is never held up no byte is lost, if `BootRx <
QueueSize` and the ring takes longer to fill than four half buffers last
(`4 * Half < (QueueSize - 1) * ByteTicks`). The code has room to spare: a half
buffer is 8 frames at 96 kHz, 83 us; a MIDI byte takes 320 us and its ring has
1024 slots, the Select Bus ring 16 slots at the same speed, the I2C ring 256 slots at 22 us a
byte or more. The invariant is a potential: `Left` bounds the ticks to the next flush, and
the bytes in the ring, each counted as the ticks it took, and `Left` are together
no more than four half buffers and one byte (`InTime`), as long as no piece of work is late (`Prompt`). A tick
takes from `Left` what it may add to the line; a flush empties the ring before `Left` is
raised again.

**MidiOutProofs.** For every size of the queue, depth of the transmitter and set of messages,
if fewer bytes are queued before the first is sent than the queue has slots
(`BootQueued < kMidiQueueSize`, argued for above): `NeverForgotten`, that no byte
waits with `midiOutPending` down, and `QueueImplementsFifo`, the refinement of
`BoundedFifo`. The invariant adds that a blocking call queues its message whole or byte
by byte (`InPieces`) and where the write position is before the first byte is sent
(`Boot`); as with the receive ring, a full queue would look empty without it. For the refinement the
line's contents are read off the slots between the positions, so that what
`QueueMIDI2` and `3` scribble beyond the write position is not in it.

**MidiInProofs.** For every session of well-formed messages, however long, every number
of losses, every buffer that holds a command, and every period of the clock.

* `ClockFollows`. The invariant (`ClockInv`) says where the clocks since the last
  Start have brought the counter, and that the flag is up as long as there are none.
* `MessagesDelivered`. The invariant says that the parser is in place in the message on
  the wire (`InPlace`: for a voice message its status, channel, state and first data byte;
  for a sysex the part of it that is kept; for other messages that nothing is wanted), or
  before its first byte where a status is taken for a status, and that the
  calls made followed by those the message owes are those expected (`Owed`). What
  a parser makes of a byte is proved function by function (`StatusTaken`,
  `FirstTaken`, `SecondTaken`, `OnlyTaken`, `DataKept`, `EndTaken`, `DataIgnored`),
  and from these that a byte of a message leads from one place to the next
  (`FirstGoes`, `NextGoes`). A sysex longer than the buffer is told by
  the part kept (`PartTells`), which is what `kMaxSysex > 7` is for.
* `BackAfterTwo`. The invariant (`BackInv`) says how far out of step the parser can be
  when none, one, or two messages of two data bytes have come whole since the loss
  (`NotFar`), and in the middle of one (`OutOfPlace`).
* `TypeCorrect`. The parser waits for data only of a status that has some (`Coherent`).

The same for `recall.c`, on the same lemmas about messages, for any session whose F4 messages
name a slot: `SavedAsAsked`, `RecallInStepAgain`, `RecallTypeCorrect`. The invariant (`RecallInv`)
says that the parser is in place in the message on the wire, or in a line that has
lost bytes how far out of it, that what it has done followed by what the message owes is what was
asked, and that it is in save mode just when the last save-mode controller before said so (`ArmedIn`).

And for the sending side of the Select Bus, with any number of messages and every depth of the transmitter from two up:
`LedgerCorrect`, `EchoesIgnored`, `FewForeignLost`. The inductive invariant (`BusInv`) is
the type, what each `pc` knows of the message (`Control`), that the counter is
ahead of the echoes that can come before it is next raised (`Ahead`), the ledger
itself, that no more than one decrement is lost between the read and the write
(`OneRace`), and that lost decrements are no more than messages (`Races`).
`Ahead` is where the assumption about time enters, and where the depth of two does: a
transmitter that is full has old bytes enough. The counter must not wrap, so
`WidthAssumption` bounds the decrements that have been overwritten and not yet made up for by
a byte of another device that was lost (`MaxOwed`), by the counter's width less the transmitter's
depth and two: 245 for a counter of one byte and a transmitter of eight. Every byte of another device
that comes while some are owed makes up for one, so this is a bound on how long the bus is raced on and
nobody else speaks, not on how much is sent.

**BridgeProofs.** For every set of transfers and every ring size. `BridgeImplementsSlave`:
every behaviour of the bridge is one of the slave, so what is proved of the slave's
steps holds in it. `AnswersRead`: the invariant adds what the response holds, by the
stores still due in preparing it (`Prepared`). `MeantAndDone`: the invariant says of each
transfer that was not cut how much of it is still on the bus, in the ring, and taken, and
that the parser's state and message are what its bytes so far make them
(`InStep`); the start marker puts the parser in step again after a transfer that was cut.
`AllPassedOn`, as long as no transfer was cut: transfers come in order and nothing of a later one is executed
before an earlier one is done with (`InOrder`), and what each output was given, followed by what is
still being passed on, is the bytes of the commands executed (`Owed`). That those are a
beginning of what was asked follows transfer by transfer, by induction on the number of them.

**PanelProofs.** For every number of conversions in a sum, every threshold, range and
scale, and every set of hands: `ClicksFollow`, `CreepFollowed`, `OtherUntouched`,
`NoJump`. What an encoder owes its hand is told by the quarter it stands at
(`Owed`); that twice the sum of the conversions is in range needs that a sum over
a finite set changes by what one summand does, which is proved by induction on the set.
Conversions are assumed to be of the converter's twelve bits.

**FlashSaveProofs.** For every hold time and every number of presses and power failures:
`TypeCorrect` (so that the table of functions is never read beyond its end),
`AlwaysFollow`, `PressesCounted`, `ErasesJustified`; and with `EarlyFetch`, `AllSaved` and
`PowerUpRestored`. The invariant for these two (`UpToDate`) says where the settings are while no
save is asked for: in the flash, in the row buffer, or in what the controller has fetched of it.
`PowerUpRestored` is what the restore does achieve (compare the finding): the mode and the
second function always, and the first one in the focused modes. No run checks it.

**DisplayProofs.** For every size of the frame, depth of the transmitters, refresh and blanking time,
and whichever displays are on: `FramesArriveWhole`, `LitAsBelieved`, `BlankedInTime`. The
invariant says which bytes of the frame have gone out, are in the transmitter, and have arrived
(`Sending`), which commands are outstanding and that the display they are for is the one selected
(`Commanding`), and that the countdown is honest about the time gone by (`CountdownHonest`).

**StartUpProofs.** For displays with a memory of any size, whatever the page of settings
holds, wherever the PLL locks, and whatever is dead or not acknowledged. The program is a
sequence of instructions whose length depends on `FrameBytes`, so its shape is proved
first, function by function in the order of the code (`ClockCode` to `ProgramCode`): there
are a `k` and an `m` (`ProgramShape`) such that the panel gets its supply after `k`
instructions and the codec is taken out of reset after `m`, with everything before, between and after
at its place. `Placed` then says what an instruction can be by where it is, and the
invariant is in terms of `pc`:

* `ClocksMeant` (`ClocksInv`): what the oscillator's registers hold, and that no bus is
  depended on before the dividers and the multiplier are set. `StartUpAssumption` enters
  until the wait states are set.
* `TimeIsGiven` (`TimeInv`): the supply and the codec's reset are left alone from when they are given,
  the panel is told nothing but to stay off until the 100 ms are over, and a
  turn of `delayMs` is a millisecond or more at either clock.
* `CodecMeant` (`OnInv`, `BusInv`): as long as the program has not stopped, every packet before
  this one has been taken whole, and of this one what has been sent of it.
* `CalibrationUsable`: that the words are in range (`InRange`) is kept by every step, as
  they are either the defaults or have passed the checks; no divisor is zero then.
* `DisplaysAreReady`: a *scene* is what the instructions so far have made of
  the displays' pins, of the places the next byte goes to and of the panel's memory, and `Goes` what an
  instruction makes of a scene, if it is heard as it is meant: by a display that is selected, with
  its transmitter on, as the command or data it is, and the panel lit only when clear. Each
  function runs from one scene to another (`PanelRuns` to `SettingsRun`; a
  frame by induction on its bytes, `FrameRuns`), and runs put one after the other are a run of
  the whole (`RunsOn`, `DisplaysCode`). The invariant is that pins and chips are as
  the scene at `pc` has them and that each display holds of each setting the last it was
  told (`SceneInv`), and before the first byte that its pins are out of the way (`DarkInv`).

**What stays with TLC.** Liveness (`EveryByteDelivered`, `AllSent`,
`CallersReturn`, `EveryChangeWritten`, `Wakes`, `ShowsLatest`, `Boots`): the installed
provers have no way to reason about fairness. The two runs that expect a violation are
TLC's too. Every other property of a run is proved. The library's induction theorems
cannot be used, as they take an operator as a parameter; where induction is needed
it is on sets of numbers or of sets instead (`InductionOnNat`, `InductionOnSubsets`), from the
theorem on well-founded relations that takes a set.

## 6. Findings

* `recall.c:154`: `midi.c` handles real-time bytes before its state machine and
  says that they "need to be dealt with immediately"; `recall.c` does not, so
  such a byte inside a Select Bus message is taken for one of its data bytes
  (`recall_real_time`).
* `algorithm.cc:72`: the restore calls `SetFunction` twice, and in a shared mode
  each call sets both functions; settings with two different functions in a
  shared mode come back with the second in both (`flash_restore`).

Two things are assumed rather than found, as nothing in the repository decides them.
`algorithm.cc:208`: the load loop writes `pageBuffer[0]` inside the audio service that
runs while the row in `pageBuffer` is being programmed; `EarlyFetch` says that
the controller has read the row by then, and without it `SavedWhenQuiet` fails.
`calibrate.c:183`: an input's reciprocal does not fit its 32 bits if the
words, each in range, are nearly equal.

## 7. Not modelled

* Peaks and `algorithm_step`'s arithmetic: floating point, and the Peaks sources
  are a submodule that is not here. Of `algorithm_step`, the write to
  `pageBuffer` is in `FlashSave` and the minimum load in `Audio`.
* The calibration factors and their use: floating point and 64-bit integers on samples.
* Glyphs, layout and wording on the display.
* `NVMUnlock` and its callers, `FlushMIDIOut`, the I2C master routines for I2C4
  (`i2cStartTransfer` and on), `SYS_RESET`, clock queries and port functions of the
  framework: nothing calls them. Of `sendSysExMsg`, which nothing calls either,
  `Display` has the flush it begins with.
* Exceptions and failed assertions: they stop the program.
* A flash page of settings of the algorithm written by something other than this firmware, or torn within a
  quad word; and the controller's error bits, which `algorithm_idle` ignores.
* Registers at start-up that nothing modelled depends on (pin remapping, PWM,
  interrupt priorities, caches).

## 8. Plan

Done, in this order: receive ring with its proofs; MIDI and Select Bus parsers;
panel and flash; MIDI output; Select Bus output with its proofs; I2C slave;
display; audio service with the proof that it drives the ring; bridge; the panel's
encoders and pots; clocks, calibration and start-up.

Then the proofs: MIDI output, settings in flash, panel, display, I2C slave and bridge, MIDI
input, Select Bus input, what the bridge passes on, start-up.

Every invariant and action property that a run checks has its theorem. What could
come next: the audio services nested in the display's drawing composed with the DMA's timing, and
liveness with a prover that knows fairness.

------------------------------- MODULE Audio --------------------------------
(***************************************************************************)
(* The audio service: DMA fills and plays a double buffer for ever, the    *)
(* main loop polls DCH5INT, runs algorithm_step on the half the DMA has    *)
(* left, and flushes the receive rings after each step.  Nothing stops the *)
(* DMA: the loop keeps up, or it processes a half too late.                *)
(*                                                                         *)
(* One tick is a fraction of the time a half takes.  Every piece of the    *)
(* loop's work costs ticks (busy); its decisions cost none.  The receive   *)
(* ring is RxQueue, which this gives the caller it wants for.              *)
(***************************************************************************)
EXTENDS RxQueue

CONSTANTS
  Half,        \* ticks the DMA needs for a half buffer
  StepTicks,   \* how long the signal processing of a block may take
  OtherTicks,  \* how long any other work between two polls may take
  ByteTicks,   \* the fewest ticks between two bytes on the wire
  Delays,      \* how long a hold-up (interrupt handlers, flash) may last
  MaxDelays,   \* bound: the number of hold-ups
  Recovery,    \* half buffers after which a hold-up must be forgotten
  Wire         \* bound: the bytes that arrive.  The service and the ring move
               \* them unseen: bytes all different stand for any.

ASSUME TicksAssumption ==
  /\ Half \in Nat \ {0} /\ ByteTicks \in Nat \ {0}
  /\ StepTicks \subseteq 1 .. Half
  /\ OtherTicks \subseteq Nat /\ OtherTicks # {} /\ Delays \subseteq Nat
  /\ MaxDelays \in Nat /\ Recovery \in Nat
  /\ Wire \in Seq(Byte) /\ Len(Wire) >= MaxRx

\* Mutant of CpuLoadOK: no minimum load.
CpuLoadAny(ticks) == ticks >= 0

\* What ends algorithm_step's loop at the bottom: over half of the time a
\* block lasts has gone by.
CpuLoadOK(ticks) == (ticks * 100) \div Half > 50

\* The processor can do the work: whatever a block and the rest of a service
\* cost, the DMA is still in the half they began in.
ASSUME LoadAssumption ==
  \A s \in 0 .. Half, d \in OtherTicks :
    s \in StepTicks \/ ~CpuLoadOK(s - 1) => s + d < Half

VARIABLES
  pos,         \* ticks the DMA has spent in the current double buffer
  int,         \* DCH5INT: "half" is BIT_4, "whole" is BIT_5
  at,          \* where the main loop is in the service
  round,       \* serviceAudioInternalSingle's loop counter i
  busy,        \* ticks of work left before the loop decides anything
  t,           \* algorithm_step: ticks since t0
  block,       \* algorithm_step: the age of the input it has read
  inAge,       \* per half: half buffers since the input there was complete
  outAge,      \* per half: the same of the input its output was made from
  heard,       \* the age of the output the DMA plays now
  sinceByte,   \* ticks since the last byte
  delays,      \* bound: hold-ups so far
  quiet        \* half buffers since the last hold-up; negative while it lasts

audio == <<int, at, round, busy, t, block>>
dma == <<pos, inAge, outAge, heard>>
counts == <<sinceByte, delays, quiet>>
audioVars == <<vars, audio, dma, counts>>

First == 0
Second == 1
Halves == {First, Second}

\* Ages beyond anything the service should produce, and input or output that
\* was read or written while the DMA was in it, are all alike.
Torn == 4
Older(a) == IF a >= Torn - 1 THEN Torn ELSE a + 1

\* The half the DMA is reading and writing.
DmaHalf(p) == IF p < Half THEN First ELSE Second

\* The half algorithm_step is given: i ? 0 : k_framesPerBlock * 2
Ping(i) == IF i = 1 THEN First ELSE Second

(***************************************************************************)
(* displayLoop starts long after setupAudioDMAs cleared the blocks and set *)
(* the DMA going: it may be anywhere, with either flag up.                 *)
(***************************************************************************)
AudioInit ==
  /\ Init
  /\ pos \in 0 .. 2 * Half - 1
  /\ int \in SUBSET {"half", "whole"}
  /\ at = "poll"
  /\ round = 0
  /\ busy = 0
  /\ t = 0
  /\ block = Torn
  /\ inAge = [h \in Halves |-> Torn]
  /\ outAge = [h \in Halves |-> Torn]
  /\ heard = Torn
  /\ sinceByte = 0
  /\ delays = 0
  /\ quiet = 0
-----------------------------------------------------------------------------
\* The main loop has a decision to make: time does not pass before it has.
Urgent ==
  /\ busy = 0
  /\ \/ at = "poll" /\ "whole" \in int
     \/ at = "compute"
     \/ at = "load" /\ CpuLoadOK(t)
     \/ at = "flush"
     \/ at = "wait" /\ "half" \in int

(***************************************************************************)
(* A tick.  The DMA that leaves a half has completed its input, raises the *)
(* flag and begins to play the other half as it finds it.                  *)
(***************************************************************************)
Tick ==
  /\ ~Urgent
  /\ pos' = (pos + 1) % (2 * Half)
  /\ busy' = IF busy > 0 THEN busy - 1 ELSE 0
  /\ t' = IF at \in {"compute", "load"} THEN t + 1 ELSE t
  /\ sinceByte' = IF sinceByte < ByteTicks THEN sinceByte + 1 ELSE sinceByte
  /\ LET left == DmaHalf(pos)
         entered == DmaHalf(pos')
     IN IF left = entered
          THEN UNCHANGED <<int, block, inAge, outAge, heard, quiet>>
          ELSE /\ int' = int \cup {IF entered = Second THEN "half" ELSE "whole"}
               /\ block' = Older(block)
               /\ inAge' = [h \in Halves |->
                              IF h = left THEN 0 ELSE Older(inAge[h])]
               /\ outAge' = [h \in Halves |-> Older(outAge[h])]
               /\ heard' = outAge'[entered]
               /\ quiet' = IF quiet < Recovery THEN quiet + 1 ELSE quiet
  /\ UNCHANGED <<vars, at, round, delays>>

(***************************************************************************)
(* Anything may hold the loop up for longer than it has time for.          *)
(***************************************************************************)
HoldUp ==
  /\ delays < MaxDelays
  /\ \E d \in Delays : busy' = busy + d
  /\ quiet' = -((busy' + Half - 1) \div Half)
  /\ delays' = delays + 1
  /\ UNCHANGED <<vars, dma, int, at, round, t, block, sinceByte>>

\* A byte reaches the ring's interrupt handler.
ByteInterrupt ==
  /\ sinceByte = ByteTicks
  /\ RxInterrupt(Wire[Len(accepted) + lost + 1])
  /\ sinceByte' = 0
  /\ UNCHANGED <<audio, dma, delays, quiet>>
-----------------------------------------------------------------------------
(***************************************************************************)
(* The main loop.  Beginning a step reads the inputs of the half; a half   *)
(* the DMA is in gives some of the old block and some of the new.          *)
(***************************************************************************)
BeginStep(i, flags) ==
  /\ int' = flags
  /\ round' = i
  /\ block' = IF Ping(i) = DmaHalf(pos) THEN Torn ELSE inAge[Ping(i)]
  /\ t' = 0
  /\ at' = "compute"
  /\ \E s \in StepTicks : busy' = s

\* Display, settings and the rest of displayLoop, between two polls.
OtherWork ==
  /\ at = "poll" /\ busy = 0 /\ "whole" \notin int
  /\ \E d \in OtherTicks : busy' = d
  /\ UNCHANGED <<vars, dma, counts, int, at, round, t, block>>

\* CHECK_SERVICE_AUDIO: AUDIO_INTERRUPT is up, CLEAR_AUDIO_INTERRUPT().
CheckServiceAudio ==
  /\ at = "poll" /\ busy = 0 /\ "whole" \in int
  /\ BeginStep(0, {})
  /\ UNCHANGED <<vars, dma, counts>>

\* algorithm_step writes the outputs of the half it was given.
WriteOutput ==
  /\ at = "compute" /\ busy = 0
  /\ outAge' = [outAge EXCEPT ![Ping(round)] =
                  IF Ping(round) = DmaHalf(pos) THEN Torn ELSE block]
  /\ at' = "load"
  /\ UNCHANGED <<vars, counts, pos, inAge, heard, int, round, busy, t, block>>

\* Mutant of StepDone: the receive rings are not flushed.
StepDoneUnflushed ==
  /\ at = "load" /\ busy = 0 /\ CpuLoadOK(t)
  /\ at' = IF round = 0 THEN "wait" ELSE "poll"
  /\ UNCHANGED <<vars, dma, counts, int, round, busy, t, block>>

\* The minimum load is reached and FlushMIDIRx is called.
StepDone ==
  /\ at = "load" /\ busy = 0 /\ CpuLoadOK(t)
  /\ at' = "flush"
  /\ UNCHANGED <<vars, dma, counts, int, round, busy, t, block>>

FlushMIDIRx ==
  /\ at = "flush" /\ busy = 0
  /\ Check \/ Publish \/ Fetch
  /\ UNCHANGED <<audio, dma, counts>>

RingEmpty == pc = "check" /\ Advance(rxRead) = rxWrite

\* The ring is empty after the first round: DCH5INTCLR = BIT_4 | BIT_5.
ClearForHalf ==
  /\ at = "flush" /\ busy = 0 /\ RingEmpty /\ round = 0
  /\ int' = {}
  /\ at' = "wait"
  /\ UNCHANGED <<vars, dma, counts, round, busy, t, block>>

\* "half buffer done"
HalfDone ==
  /\ at = "wait" /\ busy = 0 /\ "half" \in int
  /\ BeginStep(1, int)
  /\ UNCHANGED <<vars, dma, counts>>

\* The second round is over: LEDs, MIDI output, controls, then algorithm_idle.
ServiceDone ==
  /\ at = "flush" /\ busy = 0 /\ RingEmpty /\ round = 1
  /\ at' = "poll"
  /\ \E d \in OtherTicks : busy' = d
  /\ UNCHANGED <<vars, dma, counts, int, round, t, block>>

Loop ==
  \/ OtherWork
  \/ CheckServiceAudio
  \/ WriteOutput
  \/ StepDone
  \/ FlushMIDIRx
  \/ ClearForHalf
  \/ HalfDone
  \/ ServiceDone

AudioNext == Tick \/ HoldUp \/ ByteInterrupt \/ Loop

(***************************************************************************)
(* Time passes and the processor executes its loop.                        *)
(***************************************************************************)
AudioSpec ==
  /\ AudioInit
  /\ [][AudioNext]_audioVars
  /\ WF_audioVars(Tick)
  /\ WF_audioVars(CheckServiceAudio \/ WriteOutput \/ StepDone \/ FlushMIDIRx
                  \/ ClearForHalf \/ HalfDone \/ ServiceDone)
-----------------------------------------------------------------------------
(***************************************************************************)
(* However late a hold-up made the loop, and wherever it found the DMA at  *)
(* start-up, a few half buffers later every half that is played was made   *)
(* from the input taken one half buffer before, undisturbed by the DMA.    *)
(* Algorithm_step's minimum load "to avoid issues with the half-DMA        *)
(* interrupt" is what makes it so: two steps outlast a half, so a stale    *)
(* BIT_5 is cleared together with BIT_4 instead of starting the next       *)
(* service half a buffer out of step, for ever.                            *)
(***************************************************************************)
BackInPhase == quiet >= Recovery => heard = 1

(***************************************************************************)
(* Only a hold-up can cost a received byte: the two flushes of a service   *)
(* are never so far apart that the ring fills.                             *)
(***************************************************************************)
OnlyHoldUpsLoseBytes == delays = 0 => lost = 0
=============================================================================

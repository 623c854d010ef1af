------------------------------- MODULE Clock -------------------------------
(***************************************************************************)
(* The clocks the firmware gives itself, and the ones it believes it has.  *)
(* The crystal drives a PLL, the PLL the processor and, divided, the       *)
(* peripheral buses; timers and transmitters are set up from constants of  *)
(* system_config.h that nobody computes from the dividers.  Frequencies    *)
(* are in kHz.                                                             *)
(***************************************************************************)
EXTENDS Integers

SYS_CLK_CONFIG_PRIMARY_XTAL == 24576
SYS_CLK_FREQ == 251904
SYS_CLK_BUS_PERIPHERAL ==
  [bus \in {1, 2, 3, 4, 5, 7, 8} |->
     CASE bus = 4 -> 125952 [] bus = 7 -> SYS_CLK_FREQ [] OTHER -> 83968]
SYS_CLK_BUS_REFERENCE_4 == 22579

\* The configuration bits: the PLL as the processor comes out of reset.
FPLLIDIV == 2
FPLLMULT == 20
FPLLODIV == 2

\* The PLL, and the reference clock's divider with its fraction in 512ths.
SPLL(mult) == ((SYS_CLK_CONFIG_PRIMARY_XTAL \div FPLLIDIV) * mult) \div FPLLODIV
ReferenceClock(sysclk, rodiv, rotrim) ==
  (sysclk * 256) \div (rodiv * 512 + rotrim)

\* SYS_CLK_Initialize: the dividers of the buses and of REFCLKO4.
PBClockDivisor ==
  [bus \in {1, 2, 3, 4, 5, 7, 8} |->
     CASE bus = 4 -> 2 [] bus = 7 -> 1 [] OTHER -> 3]

\* Mutant of SysPLLMultiplier: the field holds one less than it multiplies by.
SysPLLMultiplierField == 42

SysPLLMultiplier == 41
RODIV == 5
ROTRIM == 296

\* SYS_DEVCON_PerformanceConfig: the wait states of the program flash, with
\* its error correction or without.
WaitStates(sysclk, ecc) ==
  LET none == IF ecc THEN 60000 ELSE 74000
      one  == IF ecc THEN 120000 ELSE 140000
  IN  CASE sysclk <= none -> 0
        [] none < sysclk /\ sysclk <= one -> 1
        [] one < sysclk /\ sysclk <= 200000 -> 2
        [] 200000 < sysclk -> 4

\* Timer 3 counts PBCLK3 divided by its prescaler, its period and one more.
Timer3Prescale == 64
Timer3Period == SYS_CLK_BUS_PERIPHERAL[3] \div Timer3Prescale
TickMicros(pbclk3, prescale, period) ==
  ((period + 1) * prescale * 1000) \div pbclk3
=============================================================================

-------------------------------- MODULE Dmc ----------------------------------
(***************************************************************************)
(* The delta modulation channel of the APU: a timer clocks the output unit *)
(* one bit at a time; after eight bits it takes the next byte of the       *)
(* sample; after the last byte the sample starts again or raises an IRQ.   *)
(* The program writes the channel's registers and $4015 at any cycle.      *)
(* Sample data is always zero in the code, so addresses and data are left  *)
(* out; the sample buffer is filled and emptied within one call.           *)
(***************************************************************************)
EXTENDS Naturals

CONSTANTS
  Periods,  \* the entries of DMC_RATE_TABLE
  Slowest,  \* its first entry, the period after a reset
  Lengths,  \* sample lengths that $4013 can set, in bytes
  Bits      \* bits of a byte

ASSUME DmcAssumption ==
  /\ Periods \subseteq Nat /\ Slowest \in Periods /\ \A p \in Periods : p <= Slowest
  /\ Lengths \subseteq Nat \ {0} /\ Bits \in Nat \ {0}

VARIABLES
  dmc,      \* the Dmc
  target,   \* history: length of the sample that is being fetched
  fetched   \* history: its bytes fetched so far

dmcVars == <<dmc, target, fetched>>

\* Dmc::new
NewDmc ==
  [timer |-> 0, period |-> Slowest, bits |-> Bits, silence |-> TRUE,
   bytes |-> 0, length |-> 0, irqEnabled |-> FALSE, loop |-> FALSE, irq |-> FALSE]

-----------------------------------------------------------------------------
\* restart_sample
Restarted(d) == [d EXCEPT !.bytes = d.length]

\* A byte is fetched: the end of start_output_cycle's memory reader.
Fetched_IrqFirst(d) ==
  LET e == [d EXCEPT !.bytes = @ - 1]
  IN  IF e.bytes > 0 THEN e
      ELSE IF e.irqEnabled THEN [e EXCEPT !.irq = TRUE]
      ELSE IF e.loop THEN Restarted(e)
      ELSE e
Fetched_OneShort(d) ==
  LET e == [d EXCEPT !.bytes = @ - 1]
  IN  IF e.bytes > 0 THEN e
      ELSE IF e.loop THEN [e EXCEPT !.bytes = d.length - 1]
      ELSE IF e.irqEnabled THEN [e EXCEPT !.irq = TRUE]
      ELSE e
Fetched(d) ==
  LET e == [d EXCEPT !.bytes = @ - 1]
  IN  IF e.bytes > 0 THEN e
      ELSE IF e.loop THEN Restarted(e)
      ELSE IF e.irqEnabled THEN [e EXCEPT !.irq = TRUE]
      ELSE e

\* start_output_cycle
Cycled(d) ==
  IF d.bytes > 0 THEN [Fetched(d) EXCEPT !.bits = Bits, !.silence = FALSE]
                 ELSE [d EXCEPT !.bits = Bits, !.silence = TRUE]

\* clock_output_unit
Shifted(d) == IF d.bits = 1 THEN Cycled(d) ELSE [d EXCEPT !.bits = @ - 1]

\* clock_timer
TimerEnds(d) == d.timer = 0
TimerClocked(d) ==
  IF TimerEnds(d) THEN Shifted([d EXCEPT !.timer = d.period]) ELSE [d EXCEPT !.timer = @ - 1]

\* write_flags_and_rate
FlagsWritten_IrqKept(d, irqEnabled, loop, period) ==
  [d EXCEPT !.irqEnabled = irqEnabled, !.loop = loop, !.period = period]
FlagsWritten(d, irqEnabled, loop, period) ==
  [d EXCEPT !.irqEnabled = irqEnabled, !.loop = loop, !.period = period,
            !.irq = @ /\ irqEnabled]

\* set_enabled, then clear_irq_flag
Enabled(d, on) ==
  [d EXCEPT !.bytes = IF ~on THEN 0 ELSE IF @ = 0 THEN d.length ELSE @, !.irq = FALSE]

-----------------------------------------------------------------------------
DmcInit == dmc = NewDmc /\ target = 0 /\ fetched = 0

FetchesNow == TimerEnds(dmc) /\ dmc.bits = 1 /\ dmc.bytes > 0

EndsNow == FetchesNow /\ dmc.bytes = 1

\* Dmc::clock_timer, once a CPU cycle
ClockDmc ==
  /\ dmc' = TimerClocked(dmc)
  /\ IF EndsNow
       THEN target' = (IF dmc.loop THEN dmc.length ELSE 0) /\ fetched' = 0
       ELSE fetched' = (IF FetchesNow THEN fetched + 1 ELSE fetched) /\ UNCHANGED target

\* $4010
WriteFlags(irqEnabled, loop, period) ==
  /\ dmc' = FlagsWritten(dmc, irqEnabled, loop, period)
  /\ UNCHANGED <<target, fetched>>

\* $4013: the length of the next sample
WriteLength(l) ==
  /\ dmc' = [dmc EXCEPT !.length = l]
  /\ UNCHANGED <<target, fetched>>

\* $4015
SwitchDmc(on) ==
  /\ dmc' = Enabled(dmc, on)
  /\ IF on /\ dmc.bytes > 0
       THEN UNCHANGED <<target, fetched>>
       ELSE target' = (IF on THEN dmc.length ELSE 0) /\ fetched' = 0

\* Apu::reset
ResetDmc == dmc' = NewDmc /\ target' = 0 /\ fetched' = 0

DmcNext ==
  \/ ClockDmc \/ ResetDmc
  \/ \E irqEnabled, loop \in BOOLEAN, period \in Periods : WriteFlags(irqEnabled, loop, period)
  \/ \E l \in Lengths : WriteLength(l)
  \/ \E on \in BOOLEAN : SwitchDmc(on)

DmcSpec == DmcInit /\ [][DmcNext]_dmcVars

-----------------------------------------------------------------------------
(* Properties. *)

\* The variables keep their types, the timer within the slowest period.
DmcTypeOK ==
  /\ dmc \in [timer : 0 .. Slowest, period : Periods, bits : 1 .. Bits, silence : BOOLEAN,
              bytes : Nat, length : Lengths \cup {0}, irqEnabled : BOOLEAN,
              loop : BOOLEAN, irq : BOOLEAN]
  /\ target \in Lengths \cup {0} /\ fetched \in Nat

\* An IRQ never stands while a sample is being fetched or while IRQs are disabled: whatever
\* starts a sample or disables IRQs takes the old flag away.
IrqAfterEnd == dmc.irq => dmc.irqEnabled /\ dmc.bytes = 0

\* A sample is fetched whole: the bytes fetched and those to come make up the length it was
\* started with, although the length register may be rewritten, and the channel enabled again,
\* in the middle of it.
SampleWhole == fetched + dmc.bytes = target

\* A looping sample never ends by itself; one that does end raises its IRQ if and only if that
\* is enabled.  The output unit falls silent only when there is no byte left to play.
LoopHasNoGap ==
  [][ClockDmc => /\ dmc.bytes > 0 /\ dmc'.bytes = 0 => ~dmc.loop /\ dmc'.irq = dmc.irqEnabled
                 /\ ~dmc.silence /\ dmc'.silence => dmc.bytes = 0]_dmcVars
=============================================================================

--------------------------------- MODULE Apu ---------------------------------
(***************************************************************************)
(* The two parts of the APU that interrupt the CPU, clocked together: the  *)
(* frame counter and the delta modulation channel.  Both pull one line.    *)
(* A read of $4015 acknowledges the first only, a write to $4015 the       *)
(* second only.  The properties are those of the two parts, and that the   *)
(* frame counter's signals recur.                                          *)
(***************************************************************************)
EXTENDS FrameCounterTimed, Dmc

apuVars == <<timedVars, dmcVars>>

ApuInit == TimedInit /\ DmcInit

\* Apu::clock
ClockApu == TimedClock /\ ClockDmc

\* $4017
WriteFrameCounter == (\E v \in Values : TimedWrite(v)) /\ UNCHANGED dmcVars

\* A read of $4015 leaves the flag of the channel standing.
ReadApuStatus == TimedRead /\ UNCHANGED dmcVars

\* $4010, $4013 and the bit of $4015 that switches the channel
WriteDmc ==
  /\ \/ \E irqEnabled, loop \in BOOLEAN, period \in Periods : WriteFlags(irqEnabled, loop, period)
     \/ \E l \in Lengths : WriteLength(l)
     \/ \E on \in BOOLEAN : SwitchDmc(on)
  /\ UNCHANGED timedVars

\* Apu::reset
ResetApu == TimedReset /\ ResetDmc

ApuNext == ClockApu \/ WriteFrameCounter \/ ReadApuStatus \/ WriteDmc \/ ResetApu

\* run_cpu_tick clocks the APU in every cycle it runs.
ApuSpec == ApuInit /\ [][ApuNext]_apuVars /\ WF_apuVars(ClockApu)

\* Unless the program restarts the sequence over and over, quarter and half frames recur, in
\* either mode: no write, and no delayed one of a reset, leaves the counter where it never
\* comes to them.
SignalsRecur ==
  <>[][ClockApu \/ ReadApuStatus \/ WriteDmc]_apuVars => []<>half /\ []<>(quarter /\ ~half)
=============================================================================

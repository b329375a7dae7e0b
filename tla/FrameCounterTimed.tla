------------------------- MODULE FrameCounterTimed -------------------------
(***************************************************************************)
(* The frame counter with the age of its sequence as a history variable,   *)
(* which shows that it keeps the schedule of FrameSequence.                *)
(***************************************************************************)
EXTENDS FrameCounter, Integers

VARIABLE elapsed  \* cycles since the sequence was restarted, less whole sequences

timedVars == <<vars, elapsed>>

\* The ages that the clocks of a reset leave its sequence with.
ResetAges == {ResetClocks - WriteDelay(c) : c \in BOOLEAN}

Sequence ==
  INSTANCE FrameSequence WITH mode <- fc.mode, inhibit <- fc.inhibit, irq <- fc.irq,
                              Lead <- ResetAges

TimedInit == Init /\ elapsed = ResetClocks - WriteDelay(FALSE)

TimedClock == Clock /\ elapsed' = Sequence!Later(fc.mode, elapsed)

TimedWrite(v) == WriteFrame(v) /\ elapsed' = IF odd THEN -1 ELSE 0

TimedRead == ReadStatus /\ elapsed' = elapsed

TimedReset == Reset /\ elapsed' \in ResetAges /\ elapsed' = fc'.counter

TimedNext == TimedClock \/ (\E v \in Values : TimedWrite(v)) \/ TimedRead \/ TimedReset

\* The frame counter keeps the schedule: signals and IRQ fall on the cycles that the age of
\* its sequence says, through wraps, odd writes, acknowledgements and resets.
KeepsSchedule == Sequence!Spec
=============================================================================

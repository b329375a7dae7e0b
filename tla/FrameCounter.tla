--------------------------- MODULE FrameCounter ----------------------------
(***************************************************************************)
(* The APU's frame counter: a cycle counter that wraps by hand, two modes, *)
(* an IRQ flag, and a write to $4017 that takes effect at once when the    *)
(* program makes it and after a delay when a reset repeats the last one.   *)
(* One action is Apu::clock, a write to $4017, a read of $4015 or          *)
(* Apu::reset; the program may do any of these between two clocks.         *)
(***************************************************************************)
EXTENDS Naturals

CONSTANTS
  Step1, Step2, Step3, Step4, \* cycles of the quarter frames
  IrqFirst, IrqLast,          \* first and last cycle that sets the IRQ flag
  Step5,                      \* cycle at which the 5-step sequence wraps
  CounterMax                  \* u32::MAX

ResetClocks == 9              \* clocks of the frame counter inside Apu::reset

ASSUME FrameAssumption ==
  /\ Step1 \in Nat /\ Step2 \in Nat /\ Step3 \in Nat /\ Step4 \in Nat
  /\ IrqFirst \in Nat /\ IrqLast \in Nat /\ Step5 \in Nat /\ CounterMax \in Nat
  /\ ResetClocks < Step1 /\ Step1 < Step2 /\ Step2 < Step3 /\ Step3 < Step4
  /\ Step4 < IrqFirst /\ IrqFirst <= IrqLast /\ IrqLast < Step5 /\ Step5 < CounterMax

VARIABLES
  fc,            \* the FrameCounter
  last4017,      \* Apu::last_4017_write, which a reset keeps
  odd,           \* apu_cycle is odd
  quarter, half  \* the signals the last call returned

vars == <<fc, last4017, odd, quarter, half>>

Modes == {"four", "five"}
Values == [mode : Modes, inhibit : BOOLEAN]  \* what a byte written to $4017 says

\* The pending write.  Its value means nothing unless it is due.
None == [mode |-> "four", inhibit |-> FALSE, due |-> FALSE]
Due(v) == [mode |-> v.mode, inhibit |-> v.inhibit, due |-> TRUE]

-----------------------------------------------------------------------------
\* A value takes effect with the counter at start: inhibiting the IRQ clears its flag.
Written(f, v, start) ==
  [mode |-> v.mode, inhibit |-> v.inhibit, counter |-> start,
   irq |-> IF v.inhibit THEN FALSE ELSE f.irq, pending |-> f.pending, wait |-> f.wait]

\* process_delayed_write
Delayed_NotTaken(f) ==
  IF ~f.pending.due THEN f
  ELSE IF f.wait = 0 THEN Written(f, f.pending, 0)
  ELSE [f EXCEPT !.wait = @ - 1]
Delayed(f) ==
  IF ~f.pending.due THEN f
  ELSE IF f.wait = 0 THEN [Written(f, f.pending, 0) EXCEPT !.pending = None]
  ELSE [f EXCEPT !.wait = @ - 1]

\* wrapping_add(1)
Successor(n) == IF n = CounterMax THEN 0 ELSE n + 1

Incremented(f) == [f EXCEPT !.counter = Successor(@)]

QuarterCycle(f) == f.counter \in {Step1, Step2, Step3, Step4}

HalfCycle(f) == f.counter \in IF f.mode = "four" THEN {Step2, Step4} ELSE {Step2, Step5}

IrqCycle(f) ==
  f.mode = "four" /\ ~f.inhibit /\ IrqFirst <= f.counter /\ f.counter <= IrqLast

\* The end of clock_four_step and clock_five_step.
PastEnd(f) == f.counter >= IF f.mode = "four" THEN IrqLast + 1 ELSE Step5

Flagged(f) == IF IrqCycle(f) THEN [f EXCEPT !.irq = TRUE] ELSE f

Wrapped(f) == IF PastEnd(f) THEN [Flagged(f) EXCEPT !.counter = 0] ELSE Flagged(f)

\* FrameCounter::clock
Clocked(f) == Wrapped(Incremented(Delayed(f)))

ClockedThrice(f) == Clocked(Clocked(Clocked(f)))

\* queue_delayed_write, on what FrameCounter::new returns
Queued(v, delay) ==
  [mode |-> "four", inhibit |-> FALSE, counter |-> 0, irq |-> FALSE,
   pending |-> Due(v), wait |-> delay]

\* What Apu::reset leaves: the last write again, due in 3 or 4 of the ResetClocks clocks.
WriteDelay(cpuOdd) == IF cpuOdd THEN 3 ELSE 4
AfterReset(v, cpuOdd) ==
  ClockedThrice(ClockedThrice(ClockedThrice(Queued(v, WriteDelay(cpuOdd)))))

-----------------------------------------------------------------------------
\* Power-on writes $00, and main resets the machine before it runs, at cycle 0 of the CPU.
Init ==
  /\ last4017 = [mode |-> "four", inhibit |-> FALSE]
  /\ fc = AfterReset(last4017, FALSE)
  /\ odd = FALSE /\ quarter = FALSE /\ half = FALSE

\* Apu::clock, as far as the frame counter goes.
Clock ==
  LET f == Incremented(Delayed(fc))
  IN  /\ fc' = Wrapped(f)
      /\ quarter' = QuarterCycle(f)
      /\ half' = HalfCycle(f)
      /\ odd' = ~odd
      /\ UNCHANGED last4017

\* Where a write to $4017 starts the sequence: an odd cycle delays it by one.
StartCount_NoJitter == 0
StartCount == IF odd THEN CounterMax ELSE 0

\* write_frame_counter.  Choosing the 5-step mode clocks everything at once.
WriteFrame(v) ==
  /\ last4017' = v
  /\ fc' = Written(fc, v, StartCount)
  /\ quarter' = (v.mode = "five") /\ half' = (v.mode = "five")
  /\ UNCHANGED odd

\* read_status clears the frame IRQ.
ReadStatus ==
  /\ fc' = [fc EXCEPT !.irq = FALSE]
  /\ quarter' = FALSE /\ half' = FALSE
  /\ UNCHANGED <<last4017, odd>>

\* Apu::reset, on any parity of the CPU's cycle counter.
Reset ==
  /\ \E cpuOdd \in BOOLEAN : fc' = AfterReset(last4017, cpuOdd)
  /\ odd' = FALSE /\ quarter' = FALSE /\ half' = FALSE
  /\ UNCHANGED last4017

Next == Clock \/ (\E v \in Values : WriteFrame(v)) \/ ReadStatus \/ Reset

Spec == Init /\ [][Next]_vars

-----------------------------------------------------------------------------
(* Properties. *)

\* The variables keep their types; no write is left pending once a reset is over, and the
\* counter stays in its sequence or waits one cycle before it.
TypeOK ==
  /\ fc \in [mode : Modes, inhibit : BOOLEAN, counter : (0 .. Step5 - 1) \cup {CounterMax},
             irq : BOOLEAN, pending : {None}, wait : {0}]
  /\ fc.mode = "four" /\ fc.counter # CounterMax => fc.counter <= IrqLast
  /\ last4017 \in Values /\ odd \in BOOLEAN /\ quarter \in BOOLEAN /\ half \in BOOLEAN

\* The frame IRQ is never asserted while the last write to $4017 inhibits it, whether that
\* write came from the program, at any cycle of the window, or from a reset that repeats it.
InhibitSilences == last4017.inhibit => ~fc.irq

\* A reset and the delayed write it queues leave the mode and the inhibit bit that the
\* program wrote last.
ResetKeepsMode == fc.mode = last4017.mode /\ fc.inhibit = last4017.inhibit
=============================================================================

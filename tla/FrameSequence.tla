--------------------------- MODULE FrameSequence ---------------------------
(***************************************************************************)
(* What the APU frame counter promises: a schedule.  The signals of a CPU  *)
(* cycle are a function of how long ago the sequence was restarted, by a   *)
(* write to $4017 or a reset, and of the mode chosen then; the frame IRQ   *)
(* is raised in a window at the end of each 4-step sequence and stays up   *)
(* until it is acknowledged or inhibited.                                  *)
(***************************************************************************)
EXTENDS Integers

CONSTANTS
  Step1, Step2, Step3, Step4, \* cycles of the quarter frames
  IrqFirst, IrqLast,          \* cycles of the IRQ window
  Step5,                      \* cycle that ends the 5-step sequence
  Lead                        \* ages the sequence may have after a reset

VARIABLES mode, inhibit, elapsed, irq, quarter, half
vars == <<mode, inhibit, elapsed, irq, quarter, half>>

Modes == {"four", "five"}

\* The cycles of a whole sequence.
Length(m) == IF m = "four" THEN IrqLast + 1 ELSE Step5

\* One cycle later.  The age stays what it is modulo the sequence, and at least one sequence
\* once it has been that: this is all that the signals depend on.
Later(m, t) == IF t + 1 = 2 * Length(m) THEN Length(m) ELSE t + 1

\* How far into its sequence the counter is after t cycles.
Phase(m, t) == t % Length(m)

QuarterAt(m, t) == Phase(m, t) \in {Step1, Step2, Step3, Step4}

HalfAt(m, t) ==
  IF m = "four" THEN Phase(m, t) \in {Step2, Step4}
                ELSE Phase(m, t) = Step2 \/ (t > 0 /\ Phase(m, t) = 0)

IrqAt(m, t) == m = "four" /\ Phase(m, t) \in IrqFirst .. IrqLast

Start(m, i) ==
  /\ mode = m /\ inhibit = i /\ elapsed \in Lead /\ irq = FALSE
  /\ quarter = FALSE /\ half = FALSE

Init == \E m \in Modes, i \in BOOLEAN : Start(m, i)

Tick ==
  /\ elapsed' = Later(mode, elapsed)
  /\ quarter' = QuarterAt(mode, elapsed')
  /\ half' = HalfAt(mode, elapsed')
  /\ irq' = (irq \/ (IrqAt(mode, elapsed') /\ ~inhibit))
  /\ UNCHANGED <<mode, inhibit>>

\* A sequence restarted by a write on an odd cycle is one cycle late.
Restart(m, i) ==
  /\ mode' = m /\ inhibit' = i
  /\ elapsed' \in {-1, 0}
  /\ irq' = (irq /\ ~i)
  /\ quarter' = (m = "five") /\ half' = (m = "five")

Acknowledge ==
  /\ irq' = FALSE /\ quarter' = FALSE /\ half' = FALSE
  /\ UNCHANGED <<mode, inhibit, elapsed>>

\* A reset starts the sequence again in the mode that was chosen last.
Reset ==
  /\ elapsed' \in Lead /\ irq' = FALSE /\ quarter' = FALSE /\ half' = FALSE
  /\ UNCHANGED <<mode, inhibit>>

Next == Tick \/ (\E m \in Modes, i \in BOOLEAN : Restart(m, i)) \/ Acknowledge \/ Reset

Spec == Init /\ [][Next]_vars
=============================================================================

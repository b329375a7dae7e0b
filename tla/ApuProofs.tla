------------------------------ MODULE ApuProofs -------------------------------
(***************************************************************************)
(* For every schedule of the frame counter and all periods, lengths and    *)
(* sizes of bytes of the delta modulation channel: what each promises of   *)
(* its IRQ, that the counter keeps its schedule, and that samples are      *)
(* fetched whole and loops without a gap.  For all tables, steps and       *)
(* widths of a channel that makes a wave: its ranges, and that it keeps no *)
(* note it was switched off from.                                          *)
(***************************************************************************)
EXTENDS Apu, Channel, FiniteSetTheorems, TLAPS

(* The frame counter. *)

\* Between two calls nothing is pending, and the counter is in its sequence or about to
\* start it; the mode and the inhibit bit are those of the last write.
FcType ==
  [mode : Modes, inhibit : BOOLEAN, counter : (0 .. Step5 - 1) \cup {CounterMax},
   irq : BOOLEAN, pending : {None}, wait : {0}]

FcInv ==
  /\ TypeOK
  /\ ResetKeepsMode
  /\ InhibitSilences

\* The counter n cycles into the wait for a delayed write, and n cycles after it.
Waiting(v, n, w) ==
  [mode |-> "four", inhibit |-> FALSE, counter |-> n, irq |-> FALSE, pending |-> Due(v), wait |-> w]
Running(v, n) ==
  [mode |-> v.mode, inhibit |-> v.inhibit, counter |-> n, irq |-> FALSE, pending |-> None, wait |-> 0]

-----------------------------------------------------------------------------
(* A reset: nine clocks, which the delayed write falls into. *)

LEMMA ClockedWaiting ==
  ASSUME NEW v \in Values, NEW n \in 0 .. ResetClocks - 1, NEW w \in Nat, w > 0
  PROVE  Clocked(Waiting(v, n, w)) = Waiting(v, n + 1, w - 1)
<1>1. Delayed(Waiting(v, n, w)) = Waiting(v, n, w - 1)
  <2>1. Waiting(v, n, w).pending.due /\ Waiting(v, n, w).wait = w
    BY DEF Waiting, Due
  <2>2. Delayed(Waiting(v, n, w)) = [Waiting(v, n, w) EXCEPT !.wait = @ - 1]
    BY <2>1 DEF Delayed
  <2>. QED
    BY <2>2 DEF Waiting
<1>0. Successor(n) = n + 1
  BY FrameAssumption DEF Successor, ResetClocks
<1>2. Incremented(Waiting(v, n, w - 1)) = Waiting(v, n + 1, w - 1)
  <2>1. Waiting(v, n, w - 1).counter = n
    BY DEF Waiting
  <2>2. Incremented(Waiting(v, n, w - 1)) = [Waiting(v, n, w - 1) EXCEPT !.counter = n + 1]
    BY <1>0, <2>1 DEF Incremented
  <2>. QED
    BY <2>2 DEF Waiting
<1>3. Wrapped(Waiting(v, n + 1, w - 1)) = Waiting(v, n + 1, w - 1)
  BY FrameAssumption DEF Wrapped, Flagged, PastEnd, IrqCycle, Waiting, ResetClocks
<1>. QED
  BY <1>1, <1>2, <1>3 DEF Clocked

LEMMA ClockedDue ==
  ASSUME NEW v \in Values, NEW n \in Nat
  PROVE  Clocked(Waiting(v, n, 0)) = Running(v, 1)
<1>1. Delayed(Waiting(v, n, 0)) = Running(v, 0)
  BY DEF Delayed, Waiting, Running, Written, Due
<1>0. Successor(0) = 1
  BY FrameAssumption DEF Successor, ResetClocks
<1>2. Incremented(Running(v, 0)) = Running(v, 1)
  <2>1. Running(v, 0).counter = 0
    BY DEF Running
  <2>2. Incremented(Running(v, 0)) = [Running(v, 0) EXCEPT !.counter = 1]
    BY <1>0, <2>1 DEF Incremented
  <2>. QED
    BY <2>2 DEF Running
<1>3. Wrapped(Running(v, 1)) = Running(v, 1)
  BY FrameAssumption DEF Wrapped, Flagged, PastEnd, IrqCycle, Running, ResetClocks
<1>. QED
  BY <1>1, <1>2, <1>3 DEF Clocked

LEMMA ClockedRunning ==
  ASSUME NEW v \in Values, NEW n \in 0 .. ResetClocks - 1
  PROVE  Clocked(Running(v, n)) = Running(v, n + 1)
<1>1. Delayed(Running(v, n)) = Running(v, n)
  BY DEF Delayed, Running, None
<1>0. Successor(n) = n + 1
  BY FrameAssumption DEF Successor, ResetClocks
<1>2. Incremented(Running(v, n)) = Running(v, n + 1)
  <2>1. Running(v, n).counter = n
    BY DEF Running
  <2>2. Incremented(Running(v, n)) = [Running(v, n) EXCEPT !.counter = n + 1]
    BY <1>0, <2>1 DEF Incremented
  <2>. QED
    BY <2>2 DEF Running
<1>3. Wrapped(Running(v, n + 1)) = Running(v, n + 1)
  BY FrameAssumption DEF Wrapped, Flagged, PastEnd, IrqCycle, Running, ResetClocks
<1>. QED
  BY <1>1, <1>2, <1>3 DEF Clocked

LEMMA AfterResetRuns ==
  ASSUME NEW v \in Values, NEW c \in BOOLEAN
  PROVE  AfterReset(v, c) = Running(v, IF c THEN 6 ELSE 5)
<1>. USE DEF ResetClocks
<1>1. Queued(v, WriteDelay(c)) = Waiting(v, 0, WriteDelay(c))
  BY DEF Queued, Waiting
<1>2. CASE c
  <2>1. ClockedThrice(Waiting(v, 0, 3)) = Waiting(v, 3, 0)
    BY ClockedWaiting DEF ClockedThrice
  <2>2. ClockedThrice(Waiting(v, 3, 0)) = Running(v, 3)
    BY ClockedDue, ClockedRunning DEF ClockedThrice
  <2>3. ClockedThrice(Running(v, 3)) = Running(v, 6)
    BY ClockedRunning DEF ClockedThrice
  <2>. QED
    BY <1>1, <1>2, <2>1, <2>2, <2>3 DEF AfterReset, WriteDelay
<1>3. CASE ~c
  <2>1. ClockedThrice(Waiting(v, 0, 4)) = Waiting(v, 3, 1)
    BY ClockedWaiting DEF ClockedThrice
  <2>2. ClockedThrice(Waiting(v, 3, 1)) = Running(v, 2)
    BY ClockedWaiting, ClockedDue, ClockedRunning DEF ClockedThrice
  <2>3. ClockedThrice(Running(v, 2)) = Running(v, 5)
    BY ClockedRunning DEF ClockedThrice
  <2>. QED
    BY <1>1, <1>3, <2>1, <2>2, <2>3 DEF AfterReset, WriteDelay
<1>. QED
  BY <1>2, <1>3

LEMMA RunningInv ==
  ASSUME NEW v \in Values, NEW n \in 0 .. ResetClocks
  PROVE  /\ Running(v, n) \in FcType
         /\ Running(v, n).counter <= IrqLast
         /\ Running(v, n).mode = v.mode /\ Running(v, n).inhibit = v.inhibit
         /\ ~Running(v, n).irq
BY FrameAssumption DEF Running, FcType, Values, ResetClocks

-----------------------------------------------------------------------------
(* Every step keeps the invariant. *)

LEMMA FcInitInv == Init => FcInv
<1>. SUFFICES ASSUME Init PROVE FcInv
  OBVIOUS
<1>1. last4017 \in Values /\ ~last4017.inhibit
  BY DEF Init, Values, Modes
<1>2. fc = Running(last4017, 5)
  BY <1>1, AfterResetRuns DEF Init
<1>3. /\ fc \in FcType /\ fc.counter <= IrqLast
      /\ fc.mode = last4017.mode /\ fc.inhibit = last4017.inhibit
  BY <1>1, <1>2, RunningInv DEF ResetClocks
<1>. QED
  BY <1>1, <1>3 DEF FcInv, TypeOK, FcType, ResetKeepsMode, InhibitSilences, Init

LEMMA FcClockInv == FcInv /\ Clock => FcInv'
<1>. SUFFICES ASSUME FcInv, Clock PROVE FcInv'
  OBVIOUS
<1>1. fc \in FcType
  BY DEF FcInv, TypeOK, FcType
<1>2. fc.mode = "four" /\ fc.counter # CounterMax => fc.counter <= IrqLast
  BY DEF FcInv, TypeOK
<1>3. Delayed(fc) = fc
  BY <1>1 DEF Delayed, FcType, None
<1>. DEFINE f == Incremented(fc)
            g == Flagged(f)
            Type == [mode : Modes, inhibit : BOOLEAN, counter : 0 .. Step5,
                     irq : BOOLEAN, pending : {None}, wait : {0}]
<1>4. f \in Type /\ f.mode = fc.mode /\ f.inhibit = fc.inhibit /\ f.irq = fc.irq
  BY <1>1, FrameAssumption DEF Incremented, Successor, FcType
<1>5. f.mode = "four" => f.counter <= IrqLast + 1
  BY <1>1, <1>2, FrameAssumption DEF Incremented, Successor, FcType
<1>6. fc' = IF PastEnd(f) THEN [g EXCEPT !.counter = 0] ELSE g
  BY <1>3 DEF Clock, Wrapped, PastEnd
<1>. HIDE DEF f
<1>7. /\ g \in Type
      /\ g.mode = fc.mode /\ g.inhibit = fc.inhibit /\ g.counter = f.counter
  BY <1>4 DEF Flagged
<1>8. g.irq => fc.irq \/ ~fc.inhibit
  BY <1>4 DEF Flagged, IrqCycle
<1>. HIDE DEF g
<1>9. /\ fc' \in FcType
      /\ fc'.mode = fc.mode /\ fc'.inhibit = fc.inhibit /\ fc'.irq = g.irq
  <2>1. CASE PastEnd(f)
    BY <1>6, <1>7, <2>1, FrameAssumption DEF FcType
  <2>2. CASE ~PastEnd(f)
    <3>1. f.counter < Step5
      BY <1>4, <1>5, <2>2, FrameAssumption DEF PastEnd
    <3>. QED
      BY <1>6, <1>7, <2>2, <3>1, FrameAssumption DEF FcType
  <2>. QED
    BY <2>1, <2>2
<1>10. fc'.mode = "four" => fc'.counter <= IrqLast
  BY <1>4, <1>5, <1>6, <1>7, <1>9, FrameAssumption DEF PastEnd
<1>11. last4017' = last4017 /\ odd' \in BOOLEAN /\ quarter' \in BOOLEAN /\ half' \in BOOLEAN
  BY DEF Clock, QuarterCycle, HalfCycle, FcInv, TypeOK
<1>12. TypeOK'
  BY <1>9, <1>10, <1>11 DEF FcInv, TypeOK, FcType
<1>. QED
  BY <1>8, <1>9, <1>11, <1>12 DEF FcInv, ResetKeepsMode, InhibitSilences

LEMMA WriteFrameInv == ASSUME NEW v \in Values PROVE FcInv /\ WriteFrame(v) => FcInv'
<1>. SUFFICES ASSUME FcInv, WriteFrame(v) PROVE FcInv'
  OBVIOUS
<1>1. StartCount \in {0, CounterMax}
  BY DEF StartCount
<1>2. fc.irq \in BOOLEAN /\ fc.pending = None /\ fc.wait = 0
  BY DEF FcInv, TypeOK
<1>3. /\ fc'.mode = v.mode /\ fc'.inhibit = v.inhibit
      /\ fc'.counter = StartCount /\ (fc'.irq => ~v.inhibit)
  BY DEF WriteFrame, Written
<1>4. v.mode \in Modes /\ v.inhibit \in BOOLEAN
  BY DEF Values
<1>5. (IF v.inhibit THEN FALSE ELSE fc.irq) \in BOOLEAN
  BY <1>2
<1>6. StartCount \in (0 .. Step5 - 1) \cup {CounterMax}
  BY <1>1, FrameAssumption
<1>7. fc' \in FcType
  BY <1>2, <1>4, <1>5, <1>6 DEF WriteFrame, Written, FcType
<1>8. /\ last4017' = v /\ odd' \in BOOLEAN /\ quarter' \in BOOLEAN /\ half' \in BOOLEAN
  BY DEF WriteFrame, FcInv, TypeOK
<1>9. TypeOK'
  BY <1>1, <1>3, <1>7, <1>8, FrameAssumption DEF TypeOK, FcType
<1>. QED
  BY <1>3, <1>8, <1>9 DEF FcInv, ResetKeepsMode, InhibitSilences

LEMMA ReadStatusInv == FcInv /\ ReadStatus => FcInv'
<1>. SUFFICES ASSUME FcInv, ReadStatus PROVE FcInv'
  OBVIOUS
<1>1. /\ fc' \in FcType /\ fc'.mode = fc.mode /\ fc'.inhibit = fc.inhibit
      /\ fc'.counter = fc.counter /\ ~fc'.irq
  BY DEF ReadStatus, FcInv, TypeOK, FcType
<1>. QED
  BY <1>1 DEF ReadStatus, FcInv, TypeOK, FcType, ResetKeepsMode, InhibitSilences

LEMMA FcResetInv == FcInv /\ Reset => FcInv'
<1>. SUFFICES ASSUME FcInv, Reset PROVE FcInv'
  OBVIOUS
<1>1. last4017 \in Values /\ last4017' = last4017
  BY DEF FcInv, TypeOK, Reset
<1>2. PICK c \in BOOLEAN : fc' = AfterReset(last4017, c)
  BY DEF Reset
<1>3. fc' = Running(last4017, IF c THEN 6 ELSE 5)
  BY <1>1, <1>2, AfterResetRuns
<1>4. (IF c THEN 6 ELSE 5) \in 0 .. ResetClocks
  BY DEF ResetClocks
<1>5. /\ fc' \in FcType /\ fc'.counter <= IrqLast /\ fc'.mode = last4017.mode
      /\ fc'.inhibit = last4017.inhibit /\ ~fc'.irq
  BY <1>1, <1>3, <1>4, RunningInv
<1>. QED
  BY <1>1, <1>5 DEF Reset, FcInv, TypeOK, FcType, ResetKeepsMode, InhibitSilences

LEMMA FcNextInv == FcInv /\ [Next]_vars => FcInv'
<1>. SUFFICES ASSUME FcInv, [Next]_vars PROVE FcInv'
  OBVIOUS
<1>1. CASE Clock
  BY <1>1, FcClockInv
<1>2. CASE \E v \in Values : WriteFrame(v)
  BY <1>2, WriteFrameInv
<1>3. CASE ReadStatus
  BY <1>3, ReadStatusInv
<1>4. CASE Reset
  BY <1>4, FcResetInv
<1>5. CASE UNCHANGED vars
  BY <1>5 DEF FcInv, TypeOK, ResetKeepsMode, InhibitSilences, vars
<1>. QED
  BY <1>1, <1>2, <1>3, <1>4, <1>5 DEF Next

-----------------------------------------------------------------------------
(* The delta modulation channel. *)

DmcType ==
  [timer : 0 .. Slowest, period : Periods, bits : 1 .. Bits, silence : BOOLEAN,
   bytes : Nat, length : Lengths \cup {0}, irqEnabled : BOOLEAN, loop : BOOLEAN, irq : BOOLEAN]

DmcInv == DmcTypeOK /\ IrqAfterEnd /\ SampleWhole

\* What IrqAfterEnd says of a channel.
IrqEnded(d) == d.irq => d.irqEnabled /\ d.bytes = 0

-----------------------------------------------------------------------------
LEMMA ConstantFacts ==
  /\ Slowest \in Nat /\ Slowest \in Periods /\ Bits \in Nat /\ Bits \in 1 .. Bits
  /\ Lengths \cup {0} \subseteq Nat /\ \A p \in Periods : p \in 0 .. Slowest
BY DmcAssumption DEF DmcAssumption

\* Fetching a byte leaves the timer and the program's settings alone and takes one byte away; after
\* the last one a loop starts again, and only a sample that ends raises an enabled IRQ.
LEMMA FetchedOne ==
  ASSUME NEW d \in DmcType, d.bytes > 0, IrqEnded(d)
  PROVE  /\ Fetched(d) \in DmcType
         /\ IrqEnded(Fetched(d))
         /\ d.bytes > 1 => Fetched(d).bytes = d.bytes - 1
         /\ d.bytes = 1 => Fetched(d).bytes = (IF d.loop THEN d.length ELSE 0)
<1> DEFINE e == [d EXCEPT !.bytes = d.bytes - 1]
<1>1. /\ e \in DmcType
      /\ e.bytes = d.bytes - 1 /\ e.length = d.length /\ e.loop = d.loop
      /\ e.irqEnabled = d.irqEnabled /\ e.irq = d.irq
  BY DEF DmcType
<1>2. Fetched(d) = IF e.bytes > 0 THEN e
                   ELSE IF e.loop THEN Restarted(e)
                   ELSE IF e.irqEnabled THEN [e EXCEPT !.irq = TRUE]
                   ELSE e
  BY DEF Fetched
<1> HIDE DEF e
<1>3. d.bytes \in Nat /\ d.irq = FALSE
  BY DEF DmcType, IrqEnded
<1>4. CASE d.bytes > 1
  BY <1>1, <1>2, <1>3, <1>4 DEF IrqEnded
<1>5. CASE d.bytes = 1 /\ d.loop
  <2>1. Fetched(d) = [e EXCEPT !.bytes = e.length]
    BY <1>1, <1>2, <1>5 DEF Restarted
  <2>2. e.length \in Nat
    BY <1>1, ConstantFacts DEF DmcType
  <2>3. /\ [e EXCEPT !.bytes = e.length] \in DmcType
        /\ [e EXCEPT !.bytes = e.length].bytes = e.length
        /\ [e EXCEPT !.bytes = e.length].irq = e.irq
    BY <1>1, <2>2 DEF DmcType
  <2> QED
    BY <1>1, <1>3, <1>5, <2>1, <2>3 DEF IrqEnded
<1>6. CASE d.bytes = 1 /\ ~d.loop /\ d.irqEnabled
  <2>1. Fetched(d) = [e EXCEPT !.irq = TRUE]
    BY <1>1, <1>2, <1>6
  <2>2. /\ [e EXCEPT !.irq = TRUE] \in DmcType
        /\ [e EXCEPT !.irq = TRUE].bytes = e.bytes
        /\ [e EXCEPT !.irq = TRUE].irqEnabled = e.irqEnabled
    BY <1>1 DEF DmcType
  <2>3. e.bytes = 0 /\ e.irqEnabled
    BY <1>1, <1>6
  <2> QED
    BY <1>6, <2>1, <2>2, <2>3 DEF IrqEnded
<1>7. CASE d.bytes = 1 /\ ~d.loop /\ ~d.irqEnabled
  BY <1>1, <1>2, <1>3, <1>7 DEF IrqEnded
<1> QED
  BY <1>3, <1>4, <1>5, <1>6, <1>7

\* A clock of the output unit at the end of a byte.
LEMMA CycledOnce ==
  ASSUME NEW d \in DmcType, IrqEnded(d)
  PROVE  /\ Cycled(d) \in DmcType
         /\ IrqEnded(Cycled(d))
         /\ d.bytes = 0 => Cycled(d).bytes = 0
         /\ d.bytes > 1 => Cycled(d).bytes = d.bytes - 1
         /\ d.bytes = 1 => Cycled(d).bytes = (IF d.loop THEN d.length ELSE 0)
<1>1. d.bytes \in Nat /\ Bits \in 1 .. Bits
  BY ConstantFacts DEF DmcType
<1>2. ASSUME NEW c \in DmcType, IrqEnded(c), NEW s \in BOOLEAN
      PROVE  /\ [c EXCEPT !.bits = Bits, !.silence = s] \in DmcType
             /\ IrqEnded([c EXCEPT !.bits = Bits, !.silence = s])
             /\ [c EXCEPT !.bits = Bits, !.silence = s].bytes = c.bytes
  <2> DEFINE f == [c EXCEPT !.bits = Bits, !.silence = s]
  <2>1. /\ f.timer = c.timer /\ f.period = c.period /\ f.bits = Bits /\ f.silence = s
        /\ f.bytes = c.bytes /\ f.length = c.length /\ f.irqEnabled = c.irqEnabled
        /\ f.loop = c.loop /\ f.irq = c.irq
    BY <1>2 DEF DmcType
  <2>2. f \in DmcType
    BY <1>1, <1>2, <2>1 DEF DmcType
  <2>3. IrqEnded(f)
    BY <1>2, <2>1 DEF IrqEnded
  <2> QED
    BY <2>1, <2>2, <2>3
<1>3. CASE d.bytes > 0
  <2>1. Fetched(d) \in DmcType /\ IrqEnded(Fetched(d))
    BY <1>3, FetchedOne
  <2>2. Cycled(d) = [Fetched(d) EXCEPT !.bits = Bits, !.silence = FALSE]
    BY <1>3 DEF Cycled
  <2>3. Cycled(d) \in DmcType /\ IrqEnded(Cycled(d)) /\ Cycled(d).bytes = Fetched(d).bytes
    BY <1>2, <2>1, <2>2
  <2> QED
    BY <1>1, <1>3, <2>3, FetchedOne
<1>4. CASE d.bytes = 0
  <2>1. Cycled(d) = [d EXCEPT !.bits = Bits, !.silence = TRUE]
    BY <1>4 DEF Cycled
  <2>2. Cycled(d) \in DmcType /\ IrqEnded(Cycled(d)) /\ Cycled(d).bytes = d.bytes
    BY <1>2, <2>1
  <2> QED
    BY <1>1, <1>4, <2>2
<1> QED
  BY <1>1, <1>3, <1>4

\* A clock of the channel fetches a byte when the timer ends with the last bit, and else leaves the
\* bytes to come and the IRQ alone.
LEMMA ClockedOnce ==
  ASSUME NEW d \in DmcType, IrqEnded(d)
  PROVE  /\ TimerClocked(d) \in DmcType
         /\ IrqEnded(TimerClocked(d))
         /\ ~(TimerEnds(d) /\ d.bits = 1 /\ d.bytes > 0) => TimerClocked(d).bytes = d.bytes
         /\ TimerEnds(d) /\ d.bits = 1 /\ d.bytes > 1 => TimerClocked(d).bytes = d.bytes - 1
         /\ TimerEnds(d) /\ d.bits = 1 /\ d.bytes = 1 =>
              TimerClocked(d).bytes = (IF d.loop THEN d.length ELSE 0)
<1>1. CASE ~TimerEnds(d)
  <2>1. TimerClocked(d) = [d EXCEPT !.timer = d.timer - 1]
    BY <1>1 DEF TimerClocked
  <2>2. d.timer - 1 \in 0 .. Slowest
    BY <1>1, ConstantFacts DEF TimerEnds, DmcType
  <2>3. /\ [d EXCEPT !.timer = d.timer - 1] \in DmcType
        /\ [d EXCEPT !.timer = d.timer - 1].bytes = d.bytes
        /\ [d EXCEPT !.timer = d.timer - 1].irq = d.irq
        /\ [d EXCEPT !.timer = d.timer - 1].irqEnabled = d.irqEnabled
    BY <2>2 DEF DmcType
  <2> QED
    BY <1>1, <2>1, <2>3 DEF IrqEnded
<1>2. CASE TimerEnds(d)
  <2> DEFINE e == [d EXCEPT !.timer = d.period]
  <2>1. d.period \in 0 .. Slowest
    BY ConstantFacts DEF DmcType
  <2>2. /\ e \in DmcType
        /\ e.bits = d.bits /\ e.bytes = d.bytes /\ e.loop = d.loop /\ e.length = d.length
        /\ e.irq = d.irq /\ e.irqEnabled = d.irqEnabled
    BY <2>1 DEF DmcType
  <2>3. TimerClocked(d) = Shifted(e)
    BY <1>2 DEF TimerClocked
  <2> HIDE DEF e
  <2>4. IrqEnded(e)
    BY <2>2 DEF IrqEnded
  <2>5. CASE d.bits = 1
    <3>1. TimerClocked(d) = Cycled(e)
      BY <2>2, <2>3, <2>5 DEF Shifted
    <3>2. d.bytes \in Nat
      BY DEF DmcType
    <3> QED
      BY <1>2, <2>2, <2>4, <2>5, <3>1, <3>2, CycledOnce
  <2>6. CASE d.bits # 1
    <3>1. TimerClocked(d) = [e EXCEPT !.bits = e.bits - 1]
      BY <2>2, <2>3, <2>6 DEF Shifted
    <3>2. e.bits - 1 \in 1 .. Bits
      BY <2>2, <2>6, ConstantFacts DEF DmcType
    <3>3. /\ [e EXCEPT !.bits = e.bits - 1] \in DmcType
          /\ [e EXCEPT !.bits = e.bits - 1].bytes = e.bytes
          /\ [e EXCEPT !.bits = e.bits - 1].irq = e.irq
          /\ [e EXCEPT !.bits = e.bits - 1].irqEnabled = e.irqEnabled
      BY <2>2, <3>2 DEF DmcType
    <3> QED
      BY <2>2, <2>4, <2>6, <3>1, <3>3 DEF IrqEnded
  <2> QED
    BY <2>5, <2>6
<1> QED
  BY <1>1, <1>2

-----------------------------------------------------------------------------
LEMMA DmcInitInv == DmcInit => DmcInv
<1> SUFFICES ASSUME DmcInit PROVE DmcInv
  OBVIOUS
<1>1. dmc \in DmcType
  BY ConstantFacts DEF DmcInit, NewDmc, DmcType
<1>2. DmcTypeOK
  BY <1>1 DEF DmcInit, DmcTypeOK, DmcType
<1> QED
  BY <1>2 DEF DmcInit, DmcInv, NewDmc, IrqAfterEnd, SampleWhole

\* A clock keeps the books: a fetched byte moves from those to come to those fetched.
LEMMA DmcClockInv == ASSUME DmcInv, ClockDmc PROVE DmcInv'
<1>1. dmc \in DmcType /\ IrqEnded(dmc) /\ dmc.bytes \in Nat
  BY DEF DmcInv, DmcTypeOK, IrqAfterEnd, IrqEnded, DmcType
<1>2. /\ dmc' = TimerClocked(dmc) /\ dmc' \in DmcType /\ IrqEnded(dmc')
      /\ ~FetchesNow => dmc'.bytes = dmc.bytes
      /\ FetchesNow /\ ~EndsNow => dmc'.bytes = dmc.bytes - 1
      /\ EndsNow => dmc'.bytes = (IF dmc.loop THEN dmc.length ELSE 0)
  BY <1>1, ClockedOnce DEF ClockDmc, FetchesNow, EndsNow
<1>3. /\ dmc.length \in Lengths \cup {0} /\ dmc.length \in Nat
      /\ target \in Lengths \cup {0} /\ target \in Nat /\ fetched \in Nat
      /\ fetched + dmc.bytes = target
  BY <1>1, ConstantFacts DEF DmcInv, DmcTypeOK, SampleWhole, DmcType
<1>4. CASE EndsNow
  <2>1. target' = (IF dmc.loop THEN dmc.length ELSE 0) /\ fetched' = 0
    BY <1>4 DEF ClockDmc
  <2> QED
    BY <1>2, <1>3, <1>4, <2>1 DEF DmcInv, DmcTypeOK, IrqAfterEnd, IrqEnded, SampleWhole, DmcType
<1>5. CASE ~EndsNow
  <2>1. fetched' = (IF FetchesNow THEN fetched + 1 ELSE fetched) /\ target' = target
    BY <1>5 DEF ClockDmc
  <2>2. fetched' \in Nat /\ fetched' + dmc'.bytes = target'
    BY <1>1, <1>2, <1>3, <1>5, <2>1
  <2> QED
    BY <1>2, <1>3, <2>1, <2>2 DEF DmcInv, DmcTypeOK, IrqAfterEnd, IrqEnded, SampleWhole, DmcType
<1> QED
  BY <1>4, <1>5

\* A write of flags and rate: disabling IRQs takes the flag away.
LEMMA FlagsInv ==
  ASSUME DmcInv, NEW irqEnabled \in BOOLEAN, NEW loop \in BOOLEAN, NEW period \in Periods,
         WriteFlags(irqEnabled, loop, period)
  PROVE  DmcInv'
<1>1. /\ dmc' = [dmc EXCEPT !.irqEnabled = irqEnabled, !.loop = loop, !.period = period,
                            !.irq = dmc.irq /\ irqEnabled]
      /\ target' = target /\ fetched' = fetched
  BY DEF WriteFlags, FlagsWritten
<1>2. dmc \in DmcType
  BY DEF DmcInv, DmcTypeOK, DmcType
<1>3. /\ dmc'.timer = dmc.timer /\ dmc'.period = period /\ dmc'.bits = dmc.bits
      /\ dmc'.silence = dmc.silence /\ dmc'.bytes = dmc.bytes /\ dmc'.length = dmc.length
      /\ dmc'.irqEnabled = irqEnabled /\ dmc'.loop = loop /\ dmc'.irq = (dmc.irq /\ irqEnabled)
  BY <1>1, <1>2, Zenon DEF DmcType
<1>4. (dmc.irq /\ irqEnabled) \in BOOLEAN
  BY Zenon
<1>5. dmc' \in DmcType
  BY <1>1, <1>2, <1>4 DEF DmcType
<1> QED
  BY <1>1, <1>3, <1>5 DEF DmcInv, DmcTypeOK, IrqAfterEnd, SampleWhole, DmcType

\* Switching the channel takes the IRQ away, starts a sample or ends one.
LEMMA EnableInv ==
  ASSUME DmcInv, NEW on \in BOOLEAN, SwitchDmc(on)
  PROVE  DmcInv'
<1> DEFINE b == IF ~on THEN 0 ELSE IF dmc.bytes = 0 THEN dmc.length ELSE dmc.bytes
<1>1. dmc' = [dmc EXCEPT !.bytes = b, !.irq = FALSE]
  BY DEF SwitchDmc, Enabled
<1>2. dmc \in DmcType
  BY DEF DmcInv, DmcTypeOK, DmcType
<1>3. dmc.bytes \in Nat /\ dmc.length \in Nat /\ b \in Nat
  BY <1>2, ConstantFacts DEF DmcType
<1>4. dmc' \in DmcType /\ dmc'.bytes = b /\ dmc'.irq = FALSE
  BY <1>1, <1>2, <1>3 DEF DmcType
<1>5. fetched' \in Nat /\ target' \in Lengths \cup {0} /\ fetched' + b = target'
  BY <1>2, <1>3, ConstantFacts DEF SwitchDmc, DmcInv, DmcTypeOK, SampleWhole, DmcType
<1> QED
  BY <1>4, <1>5 DEF DmcInv, DmcTypeOK, IrqAfterEnd, SampleWhole, DmcType

\* Every step preserves the invariant.
LEMMA DmcNextInv == DmcInv /\ [DmcNext]_dmcVars => DmcInv'
<1> SUFFICES ASSUME DmcInv, [DmcNext]_dmcVars PROVE DmcInv'
  OBVIOUS
<1>1. CASE ClockDmc
  BY <1>1, DmcClockInv
<1>2. CASE ResetDmc
  <2>1. dmc' \in DmcType
    BY <1>2, ConstantFacts DEF ResetDmc, NewDmc, DmcType
  <2> QED
    BY <1>2, <2>1 DEF ResetDmc, DmcInv, NewDmc, DmcTypeOK, IrqAfterEnd, SampleWhole, DmcType
<1>3. ASSUME NEW irqEnabled \in BOOLEAN, NEW loop \in BOOLEAN, NEW period \in Periods,
             WriteFlags(irqEnabled, loop, period)
      PROVE  DmcInv'
  BY <1>3, FlagsInv
<1>4. ASSUME NEW l \in Lengths, WriteLength(l)
      PROVE  DmcInv'
  <2>1. /\ dmc' \in DmcType /\ dmc'.bytes = dmc.bytes /\ dmc'.irq = dmc.irq
        /\ dmc'.irqEnabled = dmc.irqEnabled
    BY <1>4 DEF WriteLength, DmcInv, DmcTypeOK, DmcType
  <2> QED
    BY <1>4, <2>1 DEF WriteLength, DmcInv, DmcTypeOK, IrqAfterEnd, SampleWhole, DmcType
<1>5. ASSUME NEW on \in BOOLEAN, SwitchDmc(on)
      PROVE  DmcInv'
  BY <1>5, EnableInv
<1>6. CASE UNCHANGED dmcVars
  BY <1>6 DEF dmcVars, DmcInv, DmcTypeOK, IrqAfterEnd, SampleWhole
<1> QED
  BY <1>1, <1>2, <1>3, <1>4, <1>5, <1>6 DEF DmcNext

(* Loops.  A length once set stays, so that a loop always starts with a byte. *)

LengthSet == dmc.bytes > 0 => dmc.length # 0

\* A clock changes no setting.  The last byte of what does not loop raises an enabled IRQ, and only
\* a byte that is not there makes the channel silent.
LEMMA FetchedKeeps ==
  ASSUME NEW d \in DmcType, d.bytes > 0
  PROVE  /\ Fetched(d).length = d.length /\ Fetched(d).irqEnabled = d.irqEnabled
         /\ Fetched(d) \in DmcType
         /\ d.bytes = 1 /\ ~d.loop => Fetched(d).irq = (d.irq \/ d.irqEnabled)
<1> DEFINE e == [d EXCEPT !.bytes = d.bytes - 1]
<1>1. /\ e \in DmcType
      /\ e.bytes = d.bytes - 1 /\ e.length = d.length /\ e.loop = d.loop
      /\ e.irqEnabled = d.irqEnabled /\ e.irq = d.irq
  BY DEF DmcType
<1>2. Fetched(d) = IF e.bytes > 0 THEN e
                   ELSE IF e.loop THEN [e EXCEPT !.bytes = e.length]
                   ELSE IF e.irqEnabled THEN [e EXCEPT !.irq = TRUE]
                   ELSE e
  BY DEF Fetched, Restarted
<1> HIDE DEF e
<1>3. d.bytes \in Nat /\ e.length \in Nat /\ e.irq \in BOOLEAN /\ e.irqEnabled \in BOOLEAN
  BY <1>1, ConstantFacts DEF DmcType
<1>4. /\ [e EXCEPT !.bytes = e.length] \in DmcType /\ [e EXCEPT !.irq = TRUE] \in DmcType
      /\ [e EXCEPT !.bytes = e.length].length = e.length
      /\ [e EXCEPT !.bytes = e.length].irqEnabled = e.irqEnabled
      /\ [e EXCEPT !.irq = TRUE].length = e.length
      /\ [e EXCEPT !.irq = TRUE].irqEnabled = e.irqEnabled
      /\ [e EXCEPT !.irq = TRUE].irq = TRUE
  BY <1>1, <1>3 DEF DmcType
<1>5. CASE e.bytes > 0
  <2>1. Fetched(d) = e /\ d.bytes # 1
    BY <1>1, <1>2, <1>3, <1>5
  <2> QED
    BY <1>1, <2>1, Zenon
<1>6. CASE ~(e.bytes > 0) /\ e.loop
  BY <1>1, <1>2, <1>4, <1>6
<1>7. CASE ~(e.bytes > 0) /\ ~e.loop /\ e.irqEnabled
  BY <1>1, <1>2, <1>4, <1>7
<1>8. CASE ~(e.bytes > 0) /\ ~e.loop /\ ~e.irqEnabled
  <2>1. Fetched(d) = e
    BY <1>2, <1>8
  <2>2. e.irq = (e.irq \/ e.irqEnabled)
    BY <1>3, <1>8
  <2> QED
    BY <1>1, <2>1, <2>2
<1> QED
  BY <1>5, <1>6, <1>7, <1>8

LEMMA ClockedKeeps ==
  ASSUME NEW d \in DmcType
  PROVE  /\ TimerClocked(d).length = d.length
         /\ TimerEnds(d) /\ d.bits = 1 /\ d.bytes = 1 /\ ~d.loop =>
              TimerClocked(d).irq = (d.irq \/ d.irqEnabled)
         /\ ~d.silence /\ TimerClocked(d).silence => d.bytes = 0
<1>1. CASE ~TimerEnds(d)
  <2>1. TimerClocked(d) = [d EXCEPT !.timer = d.timer - 1]
    BY <1>1 DEF TimerClocked
  <2>2. TimerClocked(d).length = d.length /\ TimerClocked(d).silence = d.silence
    BY <2>1 DEF DmcType
  <2> QED
    BY <1>1, <2>2
<1>2. CASE TimerEnds(d)
  <2> DEFINE e == [d EXCEPT !.timer = d.period]
  <2>1. d.period \in 0 .. Slowest
    BY ConstantFacts DEF DmcType
  <2>2. /\ e \in DmcType
        /\ e.bits = d.bits /\ e.bytes = d.bytes /\ e.loop = d.loop /\ e.length = d.length
        /\ e.irq = d.irq /\ e.irqEnabled = d.irqEnabled /\ e.silence = d.silence
    BY <2>1 DEF DmcType
  <2>3. TimerClocked(d) = Shifted(e)
    BY <1>2 DEF TimerClocked
  <2> HIDE DEF e
  <2>4. d.bytes \in Nat
    BY DEF DmcType
  <2>5. CASE d.bits = 1 /\ d.bytes > 0
    <3>1. TimerClocked(d) = [Fetched(e) EXCEPT !.bits = Bits, !.silence = FALSE]
      BY <2>2, <2>3, <2>5 DEF Shifted, Cycled
    <3>2. /\ Fetched(e).length = d.length /\ Fetched(e) \in DmcType
          /\ d.bytes = 1 /\ ~d.loop => Fetched(e).irq = (d.irq \/ d.irqEnabled)
      BY <2>2, <2>5, FetchedKeeps
    <3>3. /\ TimerClocked(d).length = Fetched(e).length /\ TimerClocked(d).irq = Fetched(e).irq
          /\ TimerClocked(d).silence = FALSE
      BY <3>1, <3>2 DEF DmcType
    <3> QED
      BY <3>2, <3>3
  <2>6. CASE d.bits = 1 /\ d.bytes = 0
    <3>1. TimerClocked(d) = [e EXCEPT !.bits = Bits, !.silence = TRUE]
      BY <2>2, <2>3, <2>6 DEF Shifted, Cycled
    <3>2. TimerClocked(d).length = e.length
      BY <2>2, <3>1 DEF DmcType
    <3> QED
      BY <2>2, <2>6, <3>2
  <2>7. CASE d.bits # 1
    <3>1. TimerClocked(d) = [e EXCEPT !.bits = e.bits - 1]
      BY <2>2, <2>3, <2>7 DEF Shifted
    <3>2. TimerClocked(d).length = e.length /\ TimerClocked(d).silence = e.silence
      BY <2>2, <3>1 DEF DmcType
    <3> QED
      BY <2>2, <2>7, <3>2
  <2> QED
    BY <2>4, <2>5, <2>6, <2>7
<1> QED
  BY <1>1, <1>2

\* What a clock does to a channel that keeps its invariant.
LEMMA ClockLoops ==
  ASSUME DmcInv, LengthSet, ClockDmc
  PROVE  /\ LengthSet'
         /\ dmc.bytes > 0 /\ dmc'.bytes = 0 => ~dmc.loop /\ dmc'.irq = dmc.irqEnabled
         /\ ~dmc.silence /\ dmc'.silence => dmc.bytes = 0
<1>1. /\ dmc \in DmcType /\ IrqEnded(dmc) /\ dmc' = TimerClocked(dmc)
      /\ dmc.bytes \in Nat /\ dmc.irq \in BOOLEAN /\ dmc.irqEnabled \in BOOLEAN
  BY DEF DmcInv, DmcTypeOK, IrqAfterEnd, IrqEnded, DmcType, ClockDmc
<1>2. /\ dmc'.length = dmc.length
      /\ EndsNow /\ ~dmc.loop => dmc'.irq = (dmc.irq \/ dmc.irqEnabled)
      /\ ~dmc.silence /\ dmc'.silence => dmc.bytes = 0
  BY <1>1, ClockedKeeps DEF EndsNow, FetchesNow
<1>3. /\ ~FetchesNow => dmc'.bytes = dmc.bytes
      /\ FetchesNow /\ ~EndsNow => dmc'.bytes = dmc.bytes - 1
      /\ EndsNow => dmc'.bytes = (IF dmc.loop THEN dmc.length ELSE 0)
      /\ FetchesNow => dmc.bytes > 0
      /\ FetchesNow /\ ~EndsNow => dmc.bytes # 1
  BY <1>1, ClockedOnce DEF FetchesNow, EndsNow
<1>4. LengthSet'
  BY <1>1, <1>2, <1>3 DEF LengthSet
<1>5. dmc.bytes > 0 /\ dmc'.bytes = 0 => EndsNow /\ ~dmc.loop
  BY <1>1, <1>3 DEF LengthSet
<1>6. dmc.bytes > 0 => (dmc.irq \/ dmc.irqEnabled) = dmc.irqEnabled
  BY <1>1 DEF IrqEnded
<1> QED
  BY <1>2, <1>4, <1>5, <1>6

LEMMA LengthStays == DmcInv /\ LengthSet /\ [DmcNext]_dmcVars => LengthSet'
<1> SUFFICES ASSUME DmcInv, LengthSet, [DmcNext]_dmcVars PROVE LengthSet'
  OBVIOUS
<1>1. dmc \in DmcType /\ dmc.bytes \in Nat /\ dmc.length \in Nat
  BY ConstantFacts DEF DmcInv, DmcTypeOK, DmcType
<1>2. CASE ResetDmc
  BY <1>2 DEF ResetDmc, NewDmc, LengthSet
<1>3. ASSUME NEW irqEnabled \in BOOLEAN, NEW loop \in BOOLEAN, NEW period \in Periods,
             WriteFlags(irqEnabled, loop, period)
      PROVE  LengthSet'
  <2>1. dmc'.bytes = dmc.bytes /\ dmc'.length = dmc.length
    BY <1>1, <1>3, Zenon DEF WriteFlags, FlagsWritten, DmcType
  <2> QED
    BY <2>1 DEF LengthSet
<1>4. ASSUME NEW l \in Lengths, WriteLength(l)
      PROVE  LengthSet'
  <2>1. dmc'.length = l /\ l # 0
    BY <1>1, <1>4, DmcAssumption DEF WriteLength, DmcType
  <2> QED
    BY <2>1 DEF LengthSet
<1>5. ASSUME NEW on \in BOOLEAN, SwitchDmc(on)
      PROVE  LengthSet'
  <2>1. /\ dmc'.length = dmc.length
        /\ dmc'.bytes = IF ~on THEN 0 ELSE IF dmc.bytes = 0 THEN dmc.length ELSE dmc.bytes
    BY <1>1, <1>5 DEF SwitchDmc, Enabled, DmcType
  <2> QED
    BY <1>1, <2>1 DEF LengthSet
<1>6. CASE UNCHANGED dmcVars
  BY <1>6 DEF dmcVars, LengthSet
<1> QED
  BY <1>2, <1>3, <1>4, <1>5, <1>6, ClockLoops DEF DmcNext
-----------------------------------------------------------------------------
(* The schedule.  The counter is the age of the sequence, but for the whole sequences that the   *)
(* age may have more; a write on an odd cycle parks it where the next clock wraps it to the      *)
(* start.                                                                                        *)

Whole == IF fc.mode = "four" THEN IrqLast + 1 ELSE Step5

Aged ==
  /\ elapsed \in Int /\ -1 <= elapsed /\ elapsed < 2 * Whole
  /\ fc.counter = IF elapsed = -1 THEN CounterMax
                  ELSE IF elapsed < Whole THEN elapsed ELSE elapsed - Whole

\* The phase of an age of less than two sequences.
LEMMA PhaseIs ==
  ASSUME NEW m \in Modes, NEW t \in Nat, t < 2 * Sequence!Length(m)
  PROVE  /\ Sequence!Length(m) \in Nat
         /\ Sequence!Phase(m, t) = IF t < Sequence!Length(m) THEN t ELSE t - Sequence!Length(m)
<1> DEFINE l == Sequence!Length(m)
<1>1. l \in Nat /\ l > 0 /\ t < 2 * l
  BY FrameAssumption DEF Sequence!Length
<1> HIDE DEF l
<1>2. t % l = IF t < l THEN t ELSE t - l
  BY <1>1, Z3
<1> QED
  BY <1>1, <1>2 DEF Sequence!Phase, l

\* A clock: the counter before it wraps is where the schedule looks for the signals.
LEMMA ClockAged == FcInv /\ Aged /\ TimedClock => Sequence!Tick /\ Aged'
<1> SUFFICES ASSUME FcInv, Aged, TimedClock PROVE Sequence!Tick /\ Aged'
  OBVIOUS
<1>1. /\ fc \in FcType /\ fc.mode \in Modes /\ fc.inhibit \in BOOLEAN /\ fc.irq \in BOOLEAN
      /\ fc.counter \in Nat /\ (fc.counter < Step5 \/ fc.counter = CounterMax)
  BY FrameAssumption DEF FcInv, TypeOK, FcType
<1> DEFINE f == Incremented(fc)
           g == Flagged(f)
           n == Successor(fc.counter)
           l == Sequence!Length(fc.mode)
           t == Sequence!Later(fc.mode, elapsed)
<1>2. Delayed(fc) = fc
  BY <1>1 DEF Delayed, FcType, None
<1>3. /\ l = Whole /\ l \in Nat /\ Step4 < l /\ 0 < Step1 /\ l <= Step5 /\ l < CounterMax
      /\ fc.mode = "four" => l = IrqLast + 1
      /\ fc.mode = "five" => l = Step5
  <2>1. CASE fc.mode = "four"
    <3>1. l = IrqLast + 1 /\ l = Whole
      BY <2>1 DEF Sequence!Length, Whole
    <3> QED
      BY <2>1, <3>1, FrameAssumption DEF ResetClocks
  <2>2. CASE fc.mode = "five"
    <3>1. l = Step5 /\ l = Whole
      BY <2>2 DEF Sequence!Length, Whole
    <3> QED
      BY <2>2, <3>1, FrameAssumption DEF ResetClocks
  <2> QED
    BY <1>1, <2>1, <2>2 DEF Modes
<1>4. /\ elapsed \in Int /\ -1 <= elapsed /\ elapsed < 2 * l
      /\ fc.counter = IF elapsed = -1 THEN CounterMax
                      ELSE IF elapsed < l THEN elapsed ELSE elapsed - l
  BY <1>3 DEF Aged
<1>5. elapsed' = t /\ t = IF elapsed + 1 = 2 * l THEN l ELSE elapsed + 1
  BY DEF TimedClock, Sequence!Later
<1>6. n = IF fc.counter = CounterMax THEN 0 ELSE fc.counter + 1
  BY DEF Successor
<1>7. /\ f.counter = n /\ f.mode = fc.mode /\ f.inhibit = fc.inhibit /\ f.irq = fc.irq
      /\ f = [fc EXCEPT !.counter = n] /\ n \in Nat
  BY <1>1, <1>6 DEF Incremented, FcType
<1>8. /\ fc' = IF PastEnd(f) THEN [g EXCEPT !.counter = 0] ELSE g
      /\ quarter' = QuarterCycle(f) /\ half' = HalfCycle(f)
  BY <1>2 DEF TimedClock, Clock, Wrapped
<1> HIDE DEF f, n, l, t
<1>9. /\ g.counter = n /\ g.mode = fc.mode /\ g.inhibit = fc.inhibit
      /\ g.irq = (fc.irq \/ IrqCycle(f))
  <2>1. CASE IrqCycle(f)
    BY <1>1, <1>7, <2>1 DEF Flagged, FcType
  <2>2. CASE ~IrqCycle(f)
    <3>1. g = f
      BY <2>2 DEF Flagged
    <3> QED
      BY <1>1, <1>7, <2>2, <3>1, Zenon
  <2> QED
    BY <2>1, <2>2
<1>10. g \in [mode : Modes, inhibit : BOOLEAN, counter : Nat, irq : BOOLEAN,
              pending : {None}, wait : {0}]
  BY <1>1, <1>7 DEF Flagged, FcType
<1> HIDE DEF g
<1>11. /\ fc'.mode = fc.mode /\ fc'.inhibit = fc.inhibit /\ fc'.irq = (fc.irq \/ IrqCycle(f))
       /\ fc'.counter = IF PastEnd(f) THEN 0 ELSE n
  <2>1. CASE PastEnd(f)
    BY <1>8, <1>9, <1>10, <2>1
  <2>2. CASE ~PastEnd(f)
    BY <1>8, <1>9, <2>2
  <2> QED
    BY <2>1, <2>2
<1>12. t \in Nat /\ t < 2 * l /\ n <= l
  <2>1. l > 0 /\ CounterMax \in Nat /\ CounterMax > l
    BY <1>3, FrameAssumption
  <2>2. t \in Nat /\ t < 2 * l
    BY <1>3, <1>4, <1>5, <2>1
  <2>3. n <= l
    BY <1>3, <1>4, <1>6, <2>1
  <2> QED
    BY <2>2, <2>3
<1>13. PastEnd(f) <=> n = l
  BY <1>1, <1>3, <1>7, <1>12 DEF PastEnd, Modes
<1>14. fc'.counter = IF t < l THEN t ELSE t - l
  BY <1>3, <1>4, <1>5, <1>6, <1>11, <1>12, <1>13
<1>15. Whole' = l /\ t # -1
  BY <1>3, <1>11, <1>12 DEF Whole
<1>16. Aged'
  BY <1>5, <1>12, <1>14, <1>15 DEF Aged
<1> DEFINE p == Sequence!Phase(fc.mode, t)
<1>17. p = IF t < l THEN t ELSE t - l
  BY <1>1, <1>12, PhaseIs DEF l
<1> HIDE DEF p
<1>18. /\ p = IF n = l THEN 0 ELSE n
       /\ n = l => t > 0
  BY <1>3, <1>4, <1>5, <1>6, <1>12, <1>17
<1>19. quarter' = Sequence!QuarterAt(fc.mode, t)
  <2>1. n \in {Step1, Step2, Step3, Step4} <=> p \in {Step1, Step2, Step3, Step4}
    BY <1>3, <1>7, <1>18, FrameAssumption
  <2> QED
    BY <1>7, <1>8, <2>1 DEF QuarterCycle, Sequence!QuarterAt, p
<1>20. half' = Sequence!HalfAt(fc.mode, t)
  <2>1. CASE fc.mode = "four"
    <3>1. n \in {Step2, Step4} <=> p \in {Step2, Step4}
      BY <1>3, <1>7, <1>18, FrameAssumption
    <3> QED
      BY <1>7, <1>8, <2>1, <3>1 DEF HalfCycle, Sequence!HalfAt, p
  <2>2. CASE fc.mode = "five"
    <3>1. n \in {Step2, Step5} <=> (p = Step2 \/ (t > 0 /\ p = 0))
      BY <1>3, <1>4, <1>5, <1>6, <1>7, <1>12, <1>18, <2>2, FrameAssumption
    <3> QED
      BY <1>7, <1>8, <2>2, <3>1 DEF HalfCycle, Sequence!HalfAt, p
  <2> QED
    BY <1>1, <2>1, <2>2 DEF Modes
<1>21. IrqCycle(f) <=> Sequence!IrqAt(fc.mode, t) /\ ~fc.inhibit
  <2>1. CASE fc.mode = "four"
    <3>1. IrqFirst <= n /\ n <= IrqLast <=> p \in IrqFirst .. IrqLast
      BY <1>3, <1>7, <1>12, <1>18, <2>1, FrameAssumption
    <3> QED
      BY <1>7, <2>1, <3>1 DEF IrqCycle, Sequence!IrqAt, p
  <2>2. CASE fc.mode # "four"
    BY <1>7, <2>2 DEF IrqCycle, Sequence!IrqAt
  <2> QED
    BY <2>1, <2>2
<1>22. fc'.irq = (fc.irq \/ (Sequence!IrqAt(fc.mode, t) /\ ~fc.inhibit))
  BY <1>11, <1>21
<1> QED
  BY <1>5, <1>11, <1>16, <1>19, <1>20, <1>22 DEF Sequence!Tick, t

\* A reset leaves the age that its clocks have given the sequence.
LEMMA ResetAged ==
  ASSUME NEW v \in Values, NEW c \in BOOLEAN
  PROVE  /\ AfterReset(v, c).mode = v.mode /\ AfterReset(v, c).inhibit = v.inhibit
         /\ AfterReset(v, c).irq = FALSE
         /\ AfterReset(v, c).counter = ResetClocks - WriteDelay(c)
<1>1. AfterReset(v, c) = Running(v, IF c THEN 6 ELSE 5)
  BY AfterResetRuns
<1>2. ResetClocks - WriteDelay(c) = IF c THEN 6 ELSE 5
  BY DEF ResetClocks, WriteDelay
<1> QED
  BY <1>1, <1>2 DEF Running

LEMMA AgesFacts ==
  \A a \in ResetAges : a \in Nat /\ a < Step5 /\ a < IrqLast + 1 /\ a # CounterMax
<1>1. \A c \in BOOLEAN : ResetClocks - WriteDelay(c) \in {5, 6}
  BY DEF ResetClocks, WriteDelay
<1>2. ResetAges \subseteq {5, 6}
  BY <1>1 DEF ResetAges
<1> QED
  BY <1>2, FrameAssumption DEF ResetClocks

LEMMA TimedInitAged == TimedInit => Sequence!Init /\ Aged
<1> SUFFICES ASSUME TimedInit PROVE Sequence!Init /\ Aged
  OBVIOUS
<1>1. /\ last4017 \in Values /\ last4017.mode = "four" /\ last4017.inhibit = FALSE
      /\ fc = AfterReset(last4017, FALSE) /\ quarter = FALSE /\ half = FALSE
      /\ elapsed = ResetClocks - WriteDelay(FALSE)
  BY DEF TimedInit, Init, Values, Modes
<1>2. /\ fc.mode = "four" /\ fc.inhibit = FALSE /\ fc.irq = FALSE
      /\ fc.counter = elapsed /\ elapsed \in ResetAges
  BY <1>1, ResetAged DEF ResetAges
<1>3. Aged
  BY <1>2, AgesFacts, FrameAssumption DEF Aged, Whole
<1> QED
  BY <1>1, <1>2, <1>3 DEF Sequence!Init, Sequence!Start, Sequence!Modes

LEMMA TimedWriteAged ==
  ASSUME FcInv, Aged, NEW v \in Values, TimedWrite(v)
  PROVE  Sequence!Restart(v.mode, v.inhibit) /\ Aged'
<1>1. /\ fc'.mode = v.mode /\ fc'.inhibit = v.inhibit /\ fc'.counter = StartCount
      /\ fc'.irq = (IF v.inhibit THEN FALSE ELSE fc.irq)
      /\ quarter' = (v.mode = "five") /\ half' = (v.mode = "five")
      /\ elapsed' = IF odd THEN -1 ELSE 0
  BY DEF TimedWrite, WriteFrame, Written
<1>2. v.inhibit \in BOOLEAN /\ fc.irq \in BOOLEAN
  BY DEF Values, FcInv, TypeOK
<1>3. fc'.irq = (fc.irq /\ ~v.inhibit)
  BY <1>1, <1>2
<1>4. PICK w \in Nat : w > 0 /\ Whole' = w
  <2>1. Whole' = IrqLast + 1 \/ Whole' = Step5
    BY DEF Whole
  <2> QED
    BY <2>1, FrameAssumption DEF ResetClocks
<1>5. Aged'
  <2>1. CASE odd
    <3>1. fc'.counter = CounterMax /\ elapsed' = -1
      BY <1>1, <2>1 DEF StartCount
    <3> QED
      BY <1>4, <3>1 DEF Aged
  <2>2. CASE ~odd
    <3>1. fc'.counter = 0 /\ elapsed' = 0
      BY <1>1, <2>2 DEF StartCount
    <3> QED
      BY <1>4, <3>1 DEF Aged
  <2> QED
    BY <2>1, <2>2
<1> QED
  BY <1>1, <1>3, <1>5 DEF Sequence!Restart

LEMMA TimedReadAged == FcInv /\ Aged /\ TimedRead => Sequence!Acknowledge /\ Aged'
<1> SUFFICES ASSUME FcInv, Aged, TimedRead PROVE Sequence!Acknowledge /\ Aged'
  OBVIOUS
<1>1. /\ fc'.mode = fc.mode /\ fc'.inhibit = fc.inhibit /\ fc'.counter = fc.counter
      /\ fc'.irq = FALSE /\ quarter' = FALSE /\ half' = FALSE /\ elapsed' = elapsed
  BY DEF TimedRead, ReadStatus, FcInv, TypeOK
<1> QED
  BY <1>1 DEF Sequence!Acknowledge, Aged, Whole

LEMMA TimedResetAged == FcInv /\ TimedReset => Sequence!Reset /\ Aged'
<1> SUFFICES ASSUME FcInv, TimedReset PROVE Sequence!Reset /\ Aged'
  OBVIOUS
<1>1. /\ last4017 \in Values /\ elapsed' \in ResetAges /\ elapsed' = fc'.counter
      /\ quarter' = FALSE /\ half' = FALSE
      /\ \E c \in BOOLEAN : fc' = AfterReset(last4017, c)
  BY DEF FcInv, TypeOK, TimedReset, Reset
<1>2. fc'.mode = last4017.mode /\ fc'.inhibit = last4017.inhibit /\ fc'.irq = FALSE
  BY <1>1, ResetAged
<1>5. fc'.mode = fc.mode /\ fc'.inhibit = fc.inhibit
  BY <1>2 DEF FcInv, ResetKeepsMode
<1>3. Whole' \in Nat /\ (Whole' = Step5 \/ Whole' = IrqLast + 1)
  BY FrameAssumption DEF Whole
<1>4. Aged'
  <2>1. elapsed' \in Nat /\ elapsed' < Whole'
    BY <1>1, <1>3, AgesFacts
  <2> QED
    BY <1>1, <1>3, <2>1 DEF Aged
<1> QED
  BY <1>1, <1>2, <1>4, <1>5 DEF Sequence!Reset

LEMMA TimedNextAged ==
  FcInv /\ Aged /\ [TimedNext]_timedVars => [Sequence!Next]_Sequence!vars /\ Aged'
<1> SUFFICES ASSUME FcInv, Aged, [TimedNext]_timedVars
             PROVE  [Sequence!Next]_Sequence!vars /\ Aged'
  OBVIOUS
<1>1. CASE \E v \in Values : TimedWrite(v)
  <2>1. PICK v \in Values : TimedWrite(v)
    BY <1>1
  <2>2. v.mode \in Sequence!Modes /\ v.inhibit \in BOOLEAN
    BY DEF Values, Modes, Sequence!Modes
  <2> QED
    BY <2>1, <2>2, TimedWriteAged DEF Sequence!Next
<1>2. CASE UNCHANGED timedVars
  BY <1>2 DEF timedVars, vars, Sequence!vars, Aged, Whole
<1> QED
  BY <1>1, <1>2, ClockAged, TimedReadAged, TimedResetAged DEF TimedNext, Sequence!Next

-----------------------------------------------------------------------------
(* The two parts side by side. *)

ApuInv == FcInv /\ Aged /\ DmcInv /\ LengthSet

LEMMA ApuInitInv == ApuInit => ApuInv
<1>1. ApuInit => Init /\ TimedInit /\ DmcInit
  BY DEF ApuInit, TimedInit
<1>2. DmcInit => LengthSet
  BY DEF DmcInit, NewDmc, LengthSet
<1> QED
  BY <1>1, <1>2, FcInitInv, TimedInitAged, DmcInitInv DEF ApuInv

\* A step of the APU is a step, or none, of each of its parts.
LEMMA ApuSteps == [ApuNext]_apuVars => [TimedNext]_timedVars /\ [Next]_vars /\ [DmcNext]_dmcVars
<1>1. ClockApu => TimedNext /\ Next /\ DmcNext
  BY DEF ClockApu, TimedClock, TimedNext, Next, DmcNext
<1>2. WriteFrameCounter => TimedNext /\ Next /\ UNCHANGED dmcVars
  BY DEF WriteFrameCounter, TimedWrite, TimedNext, Next
<1>3. ReadApuStatus => TimedNext /\ Next /\ UNCHANGED dmcVars
  BY DEF ReadApuStatus, TimedRead, TimedNext, Next
<1>4. WriteDmc => UNCHANGED timedVars /\ UNCHANGED vars /\ DmcNext
  BY DEF WriteDmc, DmcNext, timedVars
<1>5. ResetApu => TimedNext /\ Next /\ DmcNext
  BY DEF ResetApu, TimedReset, TimedNext, Next, DmcNext
<1>6. UNCHANGED apuVars => UNCHANGED timedVars /\ UNCHANGED vars /\ UNCHANGED dmcVars
  BY DEF apuVars, timedVars
<1> QED
  BY <1>1, <1>2, <1>3, <1>4, <1>5, <1>6 DEF ApuNext

LEMMA ApuNextInv == ApuInv /\ [ApuNext]_apuVars => ApuInv'
BY ApuSteps, FcNextInv, TimedNextAged, DmcNextInv, LengthStays DEF ApuInv

THEOREM Invariance == ApuSpec => []ApuInv
BY ApuInitInv, ApuNextInv, PTL DEF ApuSpec

\* The counter never leaves its sequence, no delayed write outlives a reset; the channel's timer
\* stays within the slowest period and its bit counter within a byte.
THEOREM TypeCorrectness == ApuSpec => [](TypeOK /\ DmcTypeOK)
<1>1. ApuInv => TypeOK /\ DmcTypeOK
  BY DEF ApuInv, FcInv, DmcInv
<1> QED
  BY <1>1, Invariance, PTL

\* An inhibited frame counter asserts no IRQ, through writes at any cycle and resets.
THEOREM InhibitedIsSilent == ApuSpec => []InhibitSilences
<1>1. ApuInv => InhibitSilences
  BY DEF ApuInv, FcInv
<1> QED
  BY <1>1, Invariance, PTL

\* Whatever the parity of the reset, the delayed write brings the program's mode back.
THEOREM ModeSurvivesReset == ApuSpec => []ResetKeepsMode
<1>1. ApuInv => ResetKeepsMode
  BY DEF ApuInv, FcInv
<1> QED
  BY <1>1, Invariance, PTL

\* The frame counter implements its schedule: signals and IRQ fall on the cycles that the age of
\* the sequence says, whatever the lengths of the two sequences.
THEOREM ImplementsSchedule == ApuSpec => KeepsSchedule
<1>1. ApuInit => Sequence!Init
  BY TimedInitAged DEF ApuInit
<1>2. ApuInv /\ [ApuNext]_apuVars => [Sequence!Next]_Sequence!vars
  BY ApuSteps, TimedNextAged DEF ApuInv
<1> QED
  BY <1>1, <1>2, Invariance, PTL DEF ApuSpec, KeepsSchedule, Sequence!Spec

\* The delta channel's IRQ stands only after the end of a sample and while IRQs are enabled.
THEOREM IrqOnlyAfterEnd == ApuSpec => []IrqAfterEnd
<1>1. ApuInv => IrqAfterEnd
  BY DEF ApuInv, DmcInv
<1> QED
  BY <1>1, Invariance, PTL

\* Bytes fetched and bytes to come make up the length a sample was started with.
THEOREM SamplesWhole == ApuSpec => []SampleWhole
<1>1. ApuInv => SampleWhole
  BY DEF ApuInv, DmcInv
<1> QED
  BY <1>1, Invariance, PTL

\* A looping sample never ends by itself, one that ends raises its IRQ exactly if that is enabled,
\* and the output falls silent only when no byte is left.
THEOREM LoopsGapless == ApuSpec => LoopHasNoGap
<1>1. ApuInv /\ [ApuNext]_apuVars =>
        [ClockDmc => /\ dmc.bytes > 0 /\ dmc'.bytes = 0 => ~dmc.loop /\ dmc'.irq = dmc.irqEnabled
                     /\ ~dmc.silence /\ dmc'.silence => dmc.bytes = 0]_dmcVars
  BY ClockLoops DEF ApuInv
<1> QED
  BY <1>1, Invariance, PTL DEF ApuSpec, LoopHasNoGap

-----------------------------------------------------------------------------
(***************************************************************************)
(* A channel that makes a wave.  Its periods stay within 11 bits whatever  *)
(* sweeps do, its levels within those the mixer's tables have, and its     *)
(* shift register never comes to zero, which it would never leave.         *)
(***************************************************************************)
GateType == [enabled : BOOLEAN, halt : BOOLEAN, length : 0 .. ByteSize - 1]

ControlType ==
  [high : SUBSET (0 .. Steps - 1), loop : BOOLEAN, constant : BOOLEAN, volume : 0 .. Loudest]
EnvelopeType ==
  [control : ControlType, start : BOOLEAN, divider : 0 .. Loudest, decay : 0 .. Loudest]

SweepControlType == [enabled : BOOLEAN, period : Nat, negate : BOOLEAN, shift : Nat]
SweepType == [control : SweepControlType, reload : BOOLEAN, divider : Nat]

LinearType == [counter : Nat, value : Nat, reload : BOOLEAN]

TimerPeriods(k) == IF k = "noise" THEN NoisePeriods ELSE 0 .. PeriodMax
TimerPositions(k) ==
  IF k \in Pulses THEN 0 .. Steps - 1 ELSE IF k = "triangle" THEN 0 .. TriangleSteps - 1 ELSE {0}
TimerType(k) == [period : TimerPeriods(k), counter : Nat, position : TimerPositions(k)]

NoiseType == [mode : BOOLEAN, bits : Nat \ {0}]

ChannelTypeOK ==
  /\ kind \in Kinds
  /\ gate \in GateType /\ envelope \in EnvelopeType /\ linear \in LinearType
  /\ timer \in TimerType(kind) /\ sweep \in SweepType /\ noise \in NoiseType

ChannelInv == ChannelTypeOK /\ NoStaleNote

\* Powers of two, by the number of subsets.
LEMMA PowerOfTwo ==
  ASSUME NEW n \in Nat
  PROVE  2 ^ n \in Nat \ {0} /\ (n > 0 => 2 ^ n > 1)
<1> DEFINE S == 1 .. n
<1>1. IsFiniteSet(S) /\ Cardinality(S) = n
  BY FS_Interval
<1>2. IsFiniteSet(SUBSET S) /\ Cardinality(SUBSET S) = 2 ^ n
  BY <1>1, FS_SUBSET
<1>3. Cardinality(SUBSET S) \in Nat
  BY <1>2, FS_CardinalityType
<1>4. SUBSET S # {}
  OBVIOUS
<1>5. Cardinality(SUBSET S) # 0
  BY <1>2, <1>4, FS_EmptySet
<1>6. ASSUME n > 0, Cardinality(SUBSET S) = 1 PROVE FALSE
  <2>1. PICK x : SUBSET S = {x}
    BY <1>2, <1>6, FS_Singleton
  <2>2. {} \in SUBSET S /\ {1} \in SUBSET S
    BY <1>6
  <2>3. {} = x /\ {1} = x
    BY <2>1, <2>2
  <2>. QED
    BY <2>3
<1>. QED
  BY <1>2, <1>3, <1>5, <1>6

\* Quotient and remainder of a period by the size of its low register.
LEMMA Halves ==
  ASSUME NEW n \in Nat, NEW a \in Nat \ {0}
  PROVE  /\ n \div a \in Nat /\ n % a \in 0 .. a - 1 /\ n \div a <= n
         /\ n = (n \div a) * a + (n % a)
<1>1. n \div a \in Int /\ n % a \in 0 .. a - 1 /\ n = a * (n \div a) + (n % a)
  BY Z3
<1> DEFINE q == n \div a
           r == n % a
<1>2. q \in Int /\ r \in 0 .. a - 1 /\ n = a * q + r
  BY <1>1
<1> HIDE DEF q, r
<1>3. q >= 0
  <2>1. SUFFICES ASSUME q <= -1 PROVE FALSE
    BY <1>2
  <2>2. a * q <= -a
    BY <1>2, <2>1, Z3
  <2>. QED
    BY <1>2, <2>2
<1>4. q <= a * q /\ a * q = q * a
  BY <1>2, <1>3, Z3
<1>. QED
  BY <1>2, <1>3, <1>4 DEF q, r

LEMMA PeriodMaxType ==
  ASSUME ChannelAssumption
  PROVE  PeriodMax \in Int /\ LowSize * HighSize \in Nat \ {0}
<1>1. LowSize \in Nat \ {0} /\ HighSize \in Nat \ {0}
  BY DEF ChannelAssumption
<1>2. LowSize * HighSize \in Nat \ {0}
  BY <1>1, Z3
<1>. QED
  BY <1>2 DEF PeriodMax

\* What a write of either part of the period leaves in 11 bits.
LEMMA PartsWritten ==
  ASSUME ChannelAssumption, NEW p \in 0 .. PeriodMax
  PROVE  /\ \A low \in 0 .. LowSize - 1 : (p \div LowSize) * LowSize + low \in 0 .. PeriodMax
         /\ \A high \in 0 .. HighSize - 1 : (p % LowSize) + high * LowSize \in 0 .. PeriodMax
<1>1. LowSize \in Nat \ {0} /\ HighSize \in Nat \ {0} /\ LowSize * HighSize \in Nat \ {0}
  BY PeriodMaxType DEF ChannelAssumption
<1>2. p \in Nat /\ p < LowSize * HighSize
  BY <1>1 DEF PeriodMax
<1>3. /\ p \div LowSize \in Nat /\ p % LowSize \in 0 .. LowSize - 1
      /\ p = (p \div LowSize) * LowSize + (p % LowSize)
  BY <1>1, <1>2, Halves
<1> DEFINE q == p \div LowSize
           r == p % LowSize
<1>4. q \in Nat /\ r \in 0 .. LowSize - 1 /\ p = q * LowSize + r
  BY <1>3
<1> HIDE DEF q, r
<1>5. \A high \in 0 .. HighSize - 1 :
        high * LowSize \in Nat /\ high * LowSize + LowSize <= LowSize * HighSize
  <2>1. SUFFICES ASSUME NEW high \in 0 .. HighSize - 1
                 PROVE  high * LowSize \in Nat /\ high * LowSize + LowSize <= LowSize * HighSize
    OBVIOUS
  <2>2. high * LowSize + LowSize = (high + 1) * LowSize
    BY <1>1, Z3
  <2>3. (high + 1) * LowSize <= HighSize * LowSize /\ HighSize * LowSize = LowSize * HighSize
    BY <1>1, Z3
  <2>4. high * LowSize \in Nat
    BY <1>1, Z3
  <2>. QED
    BY <1>1, <2>2, <2>3, <2>4
<1>6. q <= HighSize - 1
  <2>1. SUFFICES ASSUME q >= HighSize PROVE FALSE
    BY <1>1, <1>4
  <2>2. q * LowSize >= HighSize * LowSize /\ HighSize * LowSize = LowSize * HighSize
    BY <1>1, <1>4, <2>1, Z3
  <2>. QED
    BY <1>1, <1>2, <1>4, <2>2
<1>7. ASSUME NEW low \in 0 .. LowSize - 1 PROVE q * LowSize + low \in 0 .. PeriodMax
  <2>1. q * LowSize \in Nat /\ q * LowSize + LowSize <= LowSize * HighSize
    BY <1>1, <1>4, <1>5, <1>6
  <2>. QED
    BY <1>1, <2>1 DEF PeriodMax
<1>8. ASSUME NEW high \in 0 .. HighSize - 1 PROVE r + high * LowSize \in 0 .. PeriodMax
  <2>1. high * LowSize \in Nat /\ high * LowSize + LowSize <= LowSize * HighSize
    BY <1>5
  <2>. QED
    BY <1>1, <1>4, <2>1 DEF PeriodMax
<1>. QED
  BY <1>7, <1>8 DEF q, r

LEMMA CountedKeeps ==
  ASSUME NEW g \in GateType
  PROVE  /\ Counted(g) \in GateType /\ Counted(g).enabled = g.enabled
         /\ g.length = 0 => Counted(g).length = 0
<1>1. g.length \in 0 .. ByteSize - 1
  BY DEF GateType
<1>2. Less(g.length) \in 0 .. ByteSize - 1
  BY <1>1 DEF Less, ByteSize
<1>3. CASE g.halt \/ g.length = 0
  BY <1>3 DEF Counted
<1>4. CASE ~(g.halt \/ g.length = 0)
  BY <1>2, <1>4 DEF Counted, GateType
<1>. QED
  BY <1>3, <1>4

LEMMA EnvelopedType ==
  ASSUME ChannelAssumption, NEW e \in EnvelopeType
  PROVE  Enveloped(e) \in EnvelopeType
<1>1. Loudest \in 1 .. ByteSize - 1
  BY DEF ChannelAssumption
<1>2. /\ e.control \in ControlType /\ e.start \in BOOLEAN
      /\ e.divider \in 0 .. Loudest /\ e.decay \in 0 .. Loudest
  BY DEF EnvelopeType
<1>3. e.control.volume \in 0 .. Loudest
  BY <1>2 DEF ControlType
<1>4. Decayed(e) \in 0 .. Loudest
  BY <1>1, <1>2 DEF Decayed, Less, ByteSize
<1>5. CASE e.start
  <2>1. Enveloped(e) = [control |-> e.control, start |-> FALSE,
                        divider |-> e.control.volume, decay |-> Loudest]
    BY <1>5 DEF Enveloped, EnvelopeType
  <2>2. Loudest \in 0 .. Loudest
    BY <1>1
  <2>. QED
    BY <1>2, <1>3, <2>1, <2>2 DEF EnvelopeType
<1>6. CASE ~e.start /\ e.divider = 0
  BY <1>3, <1>4, <1>6 DEF Enveloped, EnvelopeType
<1>7. CASE ~e.start /\ e.divider # 0
  <2>1. e.divider - 1 \in 0 .. Loudest
    BY <1>1, <1>2, <1>7
  <2>. QED
    BY <1>7, <2>1 DEF Enveloped, EnvelopeType
<1>. QED
  BY <1>2, <1>5, <1>6, <1>7

LEMMA LinedType ==
  ASSUME NEW l \in LinearType, NEW control \in BOOLEAN
  PROVE  Lined(l, control) \in LinearType
<1> DEFINE n == IF l.reload THEN l.value ELSE IF l.counter > 0 THEN l.counter - 1 ELSE l.counter
<1>1. l.counter \in Nat /\ l.value \in Nat /\ l.reload \in BOOLEAN
  BY DEF LinearType
<1>2. n \in Nat
  BY <1>1
<1>3. Lined(l, control) = [l EXCEPT !.counter = n, !.reload = l.reload /\ control]
  BY Zenon DEF Lined
<1> HIDE DEF n
<1>4. \A r \in BOOLEAN : [l EXCEPT !.counter = n, !.reload = r] \in LinearType
  BY <1>1, <1>2 DEF LinearType
<1>5. (l.reload /\ control) \in BOOLEAN
  OBVIOUS
<1>. QED
  BY <1>3, <1>4, <1>5, Zenon

LEMMA DividedType ==
  ASSUME NEW s \in SweepType
  PROVE  Divided(s) \in SweepType
<1>1. s.control \in SweepControlType /\ s.control.period \in Nat /\ s.divider \in Nat
  BY DEF SweepType, SweepControlType
<1>2. CASE s.divider = 0 \/ s.reload
  BY <1>1, <1>2 DEF Divided, SweepType
<1>3. CASE ~(s.divider = 0 \/ s.reload)
  <2>1. s.divider - 1 \in Nat
    BY <1>1, <1>3
  <2>. QED
    BY <1>3, <2>1 DEF Divided, SweepType
<1>. QED
  BY <1>2, <1>3

\* The target of a sweep is a word, so one that passes the test is a period.
LEMMA TargetType ==
  ASSUME ChannelAssumption, NEW k, NEW p \in 0 .. PeriodMax, NEW c \in SweepControlType
  PROVE  Target(k, p, c) \in Nat
<1>1. PeriodMax \in Int /\ LowSize * HighSize \in Nat \ {0}
  BY PeriodMaxType
<1>2. WordSize \in Nat \ {0} /\ p \in Nat
  BY <1>1 DEF ChannelAssumption, PeriodMax
<1>3. c.shift \in Nat
  BY DEF SweepControlType
<1>4. 2 ^ c.shift \in Nat \ {0}
  BY <1>3, PowerOfTwo
<1> DEFINE change == p \div 2 ^ c.shift
<1>5. change \in Nat
  BY <1>2, <1>4, Halves
<1> HIDE DEF change
<1>6. \A n \in Int : n % WordSize \in Nat
  BY <1>2
<1>7. p + change \in Int /\ p + WordSize - change - 1 \in Int /\ p + WordSize - change - 0 \in Int
  BY <1>2, <1>5
<1>8. Target(k, p, c) =
        IF ~c.negate THEN (p + change) % WordSize
        ELSE (p + WordSize - change - (IF k = "pulse1" THEN 1 ELSE 0)) % WordSize
  BY DEF Target, change
<1>. QED
  BY <1>6, <1>7, <1>8

LEMMA SweptType ==
  ASSUME ChannelAssumption, NEW k \in Pulses, NEW t \in TimerType(k), NEW s \in SweepType
  PROVE  Swept(k, t, s) \in TimerType(k)
<1>1. t.period \in 0 .. PeriodMax /\ s.control \in SweepControlType
  BY DEF TimerType, TimerPeriods, SweepType, Pulses
<1> DEFINE p == Target(k, t.period, s.control)
<1>2. p \in Nat
  BY <1>1, TargetType
<1>3. CASE Swept(k, t, s) = t
  BY <1>3
<1>4. CASE Swept(k, t, s) # t
  <2>1. InRange(k, t.period, s.control) /\ Swept(k, t, s) = [t EXCEPT !.period = p, !.counter = p]
    BY <1>4 DEF Swept
  <2>2. p <= PeriodMax
    BY <2>1 DEF InRange
  <2>3. PeriodMax \in Int
    BY PeriodMaxType
  <2>4. p \in 0 .. PeriodMax
    BY <1>2, <2>2, <2>3
  <2> HIDE DEF p
  <2>5. TimerPeriods(k) = 0 .. PeriodMax
    BY DEF TimerPeriods, Pulses
  <2>. QED
    BY <1>2, <2>1, <2>4, <2>5 DEF TimerType
<1>. QED
  BY <1>3, <1>4

LEMMA TickedType ==
  ASSUME ChannelAssumption, NEW k \in Kinds, NEW t \in TimerType(k)
  PROVE  Ticked(k, t) \in TimerType(k)
<1>1. Steps \in Nat \ {0} /\ Loudest \in Nat \ {0} /\ NoisePeriods \subseteq Nat
  BY DEF ChannelAssumption, ByteSize
<1>2. t.period \in TimerPeriods(k) /\ t.counter \in Nat /\ t.position \in TimerPositions(k)
  BY DEF TimerType
<1>3. TimerPeriods(k) \subseteq Nat
  <2>1. PeriodMax \in Int
    BY PeriodMaxType
  <2>. QED
    BY <1>1, <2>1 DEF TimerPeriods
<1>4. Advanced(k, t.position) \in TimerPositions(k)
  <2>1. CASE k \in Pulses
    BY <1>1, <1>2, <2>1 DEF Advanced, TimerPositions
  <2>2. CASE k = "triangle"
    BY <1>1, <1>2, <2>2 DEF Advanced, TimerPositions, Pulses, TriangleSteps
  <2>3. CASE k \notin Pulses /\ k # "triangle"
    BY <1>2, <2>3 DEF Advanced, TimerPositions
  <2>. QED
    BY <2>1, <2>2, <2>3
<1>5. CASE Ended(t)
  <2>1. Ticked(k, t) = [t EXCEPT !.counter = t.period, !.position = Advanced(k, t.position)]
    BY <1>5 DEF Ticked
  <2>2. t.period \in Nat
    BY <1>2, <1>3
  <2>. QED
    BY <1>2, <1>4, <2>1, <2>2 DEF TimerType
<1>6. CASE ~Ended(t)
  <2>1. Ticked(k, t) = [t EXCEPT !.counter = t.counter - 1] /\ t.counter - 1 \in Nat
    BY <1>2, <1>6 DEF Ticked, Ended
  <2>. QED
    BY <1>2, <2>1 DEF TimerType
<1>. QED
  BY <1>5, <1>6

\* A shift never empties the register: its last one comes back in.
LEMMA NoiseShiftedType ==
  ASSUME ChannelAssumption, NEW n \in Nat \ {0}, NEW mode \in BOOLEAN
  PROVE  NoiseShifted(n, mode) \in Nat \ {0}
<1> DEFINE i == IF mode THEN Tap ELSE 1
           top == 2 ^ (Width - 1)
           fed == (Bit(n, 0) + Bit(n, i)) % 2
<1>1. Width - 1 \in Nat /\ i \in Nat \ {0}
  BY DEF ChannelAssumption
<1>2. top \in Nat \ {0} /\ 2 ^ i \in Nat /\ 2 ^ i > 1 /\ 2 ^ 0 = 1
  BY <1>1, PowerOfTwo
<1> DEFINE b == 2 ^ i
<1>3. Bit(n, 0) = n % 2 /\ Bit(n, i) = (n \div b) % 2
  BY <1>2 DEF Bit
<1>4. NoiseShifted(n, mode) = (n \div 2) + fed * top
  BY DEF NoiseShifted
<1>5. fed = ((n % 2) + ((n \div b) % 2)) % 2
  BY <1>3
<1>. b \in Nat \ {0} /\ b > 1
  BY <1>2
<1> HIDE DEF top, b, i
<1>6. n \div b \in Nat /\ n \div 2 \in Nat /\ n % 2 \in 0 .. 1
  <2>1. n \div b \in Nat
    BY Halves
  <2>. QED
    BY <2>1
<1>7. fed \in 0 .. 1
  BY <1>5, <1>6
<1>8. fed * top \in Nat /\ (fed = 1 => fed * top = top)
  BY <1>2, <1>7
<1>9. n = 1 => fed = 1
  <2>1. SUFFICES ASSUME n = 1 PROVE fed = 1
    OBVIOUS
  <2>2. n % 2 = 1
    BY <2>1
  <2>3. n \div b = 0
    <3>1. 1 \div b \in Nat /\ 1 = (1 \div b) * b + (1 % b) /\ 1 % b \in 0 .. b - 1
      BY Halves
    <3>2. CASE 1 \div b = 0
      BY <2>1, <3>2
    <3>3. CASE 1 \div b # 0
      <4>1. (1 \div b) * b >= b
        BY <3>1, <3>3, Z3
      <4>. QED
        BY <3>1, <4>1
    <3>. QED
      BY <3>2, <3>3
  <2>. QED
    BY <1>5, <2>2, <2>3
<1>10. n # 1 => n \div 2 > 0
  OBVIOUS
<1>. QED
  BY <1>2, <1>4, <1>6, <1>7, <1>8, <1>9, <1>10

-----------------------------------------------------------------------------
(* The steps of a channel. *)

LEMMA NewTypes ==
  ASSUME ChannelAssumption
  PROVE  /\ NewGate \in GateType /\ NewEnvelope \in EnvelopeType /\ NewSweep \in SweepType
         /\ NewLinear \in LinearType /\ NewNoise \in NoiseType
         /\ \A k \in Kinds : NewTimer(k) \in TimerType(k)
<1>1. /\ Steps \in Nat \ {0} /\ Loudest \in Nat \ {0} /\ FirstPeriod \in NoisePeriods
      /\ NoisePeriods \subseteq Nat
  BY DEF ChannelAssumption, ByteSize
<1>2. NewGate \in GateType
  BY DEF NewGate, GateType, ByteSize
<1>3. NewEnvelope \in EnvelopeType
  <2>1. [high |-> {Steps - 1}, loop |-> FALSE, constant |-> FALSE, volume |-> 0] \in ControlType
    BY <1>1 DEF ControlType
  <2>2. 0 \in 0 .. Loudest
    BY <1>1
  <2>. QED
    BY <2>1, <2>2 DEF NewEnvelope, EnvelopeType
<1>4. NewSweep \in SweepType
  BY DEF NewSweep, SweepType, SweepControlType
<1>5. NewLinear \in LinearType /\ NewNoise \in NoiseType
  BY DEF NewLinear, LinearType, NewNoise, NoiseType
<1>6. ASSUME NEW k \in Kinds PROVE NewTimer(k) \in TimerType(k)
  <2>1. PeriodMax \in Nat
    BY PeriodMaxType DEF PeriodMax
  <2>2. 0 \in TimerPositions(k)
    BY <1>1 DEF TimerPositions, TriangleSteps
  <2>3. (IF k = "noise" THEN FirstPeriod ELSE 0) \in TimerPeriods(k)
    BY <1>1, <2>1 DEF TimerPeriods
  <2>. QED
    BY <2>2, <2>3 DEF NewTimer, TimerType
<1>. QED
  BY <1>2, <1>3, <1>4, <1>5, <1>6

LEMMA ChannelInitInv == ChannelInit => ChannelInv
BY ChannelAssumption, NewTypes DEF ChannelInit, ChannelInv, ChannelTypeOK, NoStaleNote, NewGate

LEMMA ClockKeeps ==
  ASSUME ChannelInv, NEW q \in BOOLEAN, NEW h \in BOOLEAN, NEW even \in BOOLEAN,
         ClockChannel(q, h, even)
  PROVE  ChannelInv'
<1>1. /\ kind \in Kinds /\ gate \in GateType /\ envelope \in EnvelopeType /\ linear \in LinearType
      /\ timer \in TimerType(kind) /\ sweep \in SweepType /\ noise \in NoiseType
  BY DEF ChannelInv, ChannelTypeOK
<1>2. kind' = kind
  BY DEF ClockChannel
<1>3. envelope' \in EnvelopeType
  <2>1. envelope' = envelope \/ envelope' = Enveloped(envelope)
    BY DEF ClockChannel, Quarter
  <2>. QED
    BY <1>1, <2>1, ChannelAssumption, EnvelopedType
<1>4. linear' \in LinearType
  <2>1. linear' = linear \/ linear' = Lined(linear, gate.halt)
    BY DEF ClockChannel, Quarter
  <2>2. gate.halt \in BOOLEAN
    BY <1>1 DEF GateType
  <2>. QED
    BY <1>1, <2>1, <2>2, LinedType
<1>5. sweep' \in SweepType
  <2>1. sweep' = sweep \/ sweep' = Divided(sweep)
    BY DEF ClockChannel, Half
  <2>. QED
    BY <1>1, <2>1, DividedType
<1>6. gate' \in GateType /\ gate'.enabled = gate.enabled /\ (gate.length = 0 => gate'.length = 0)
  <2>1. gate' = gate \/ gate' = Counted(gate)
    BY DEF ClockChannel, Half
  <2>. QED
    BY <1>1, <2>1, CountedKeeps
<1> DEFINE t == IF h THEN HalfTimer ELSE timer
<1>7. t \in TimerType(kind)
  <2>1. kind \in Pulses => Swept(kind, timer, sweep) \in TimerType(kind)
    BY <1>1, ChannelAssumption, SweptType
  <2>. QED
    BY <1>1, <2>1 DEF HalfTimer
<1>8. timer' = (IF even THEN Ticked(kind, t) ELSE t)
  BY DEF ClockChannel
<1>9. timer' \in TimerType(kind)
  <2> HIDE DEF t
  <2>. QED
    BY <1>1, <1>7, <1>8, ChannelAssumption, TickedType
<1>10. noise' \in NoiseType
  <2>1. noise.mode \in BOOLEAN /\ noise.bits \in Nat \ {0}
    BY <1>1 DEF NoiseType
  <2>2. NoiseShifted(noise.bits, noise.mode) \in Nat \ {0}
    BY <2>1, ChannelAssumption, NoiseShiftedType
  <2>3. noise' = noise \/ noise' = [noise EXCEPT !.bits = NoiseShifted(noise.bits, noise.mode)]
    BY Zenon DEF ClockChannel
  <2>. QED
    BY <1>1, <2>2, <2>3 DEF NoiseType
<1>. QED
  BY <1>1, <1>2, <1>3, <1>4, <1>5, <1>6, <1>9, <1>10 DEF ChannelInv, ChannelTypeOK, NoStaleNote

LEMMA ResetKeeps ==
  ASSUME ChannelInv, ResetChannel
  PROVE  ChannelInv'
<1>1. /\ kind \in Kinds /\ gate \in GateType /\ envelope \in EnvelopeType /\ linear \in LinearType
      /\ timer \in TimerType(kind) /\ sweep \in SweepType /\ noise \in NoiseType
  BY DEF ChannelInv, ChannelTypeOK
<1>2. CASE kind = "triangle"
  <2>1. gate' \in GateType /\ kind' = kind
    BY <1>1, <1>2 DEF ResetChannel, GateType
  <2>. QED
    BY <1>1, <1>2, <2>1 DEF ResetChannel, ChannelInv, ChannelTypeOK, NoStaleNote
<1>3. CASE kind # "triangle"
  <2>1. /\ kind' = kind /\ gate' = NewGate /\ timer' = NewTimer(kind) /\ envelope' = NewEnvelope
        /\ sweep' = NewSweep /\ noise' = NewNoise /\ linear' = linear
    BY <1>3 DEF ResetChannel
  <2>2. gate'.length = 0
    BY <2>1 DEF NewGate
  <2>. QED
    BY <1>1, <2>1, <2>2, ChannelAssumption, NewTypes DEF ChannelInv, ChannelTypeOK, NoStaleNote
<1>. QED
  BY <1>2, <1>3

LEMMA WriteKeeps ==
  ASSUME ChannelInv, Write
  PROVE  ChannelInv'
<1>1. /\ kind \in Kinds /\ gate \in GateType /\ envelope \in EnvelopeType /\ linear \in LinearType
      /\ timer \in TimerType(kind) /\ sweep \in SweepType /\ noise \in NoiseType
  BY DEF ChannelInv, ChannelTypeOK
<1>2. kind # "triangle" /\ ~gate.enabled => gate.length = 0
  BY DEF ChannelInv, NoStaleNote
<1>3. /\ gate.enabled \in BOOLEAN /\ gate.halt \in BOOLEAN /\ gate.length \in 0 .. ByteSize - 1
  BY <1>1 DEF GateType
<1>4. ASSUME NEW on \in BOOLEAN, WriteEnable(on) PROVE ChannelInv'
  <2> DEFINE l == IF on THEN gate.length ELSE 0
             g == [gate EXCEPT !.enabled = on, !.length = l]
  <2>1. gate' = g
    BY <1>4, Zenon DEF WriteEnable, Switched
  <2>2. l \in 0 .. ByteSize - 1 /\ (~on => l = 0)
    BY <1>3 DEF ByteSize
  <2> HIDE DEF l
  <2>3. g \in GateType
    BY <1>1, <2>2 DEF GateType
  <2>4. g.enabled = on /\ g.length = l
    BY <1>1, Zenon DEF GateType
  <2> HIDE DEF g
  <2>5. UNCHANGED <<kind, timer, envelope, sweep, linear, noise>>
    BY <1>4 DEF WriteEnable
  <2>6. ChannelTypeOK'
    BY <1>1, <2>1, <2>3, <2>5 DEF ChannelTypeOK
  <2>7. NoStaleNote'
    BY <2>1, <2>2, <2>4, Zenon DEF NoStaleNote
  <2>. QED
    BY <2>6, <2>7 DEF ChannelInv
<1>5. ASSUME NEW c \in Controls, WriteControl(c) PROVE ChannelInv'
  <2>1. c \in ControlType
    BY <1>5, ChannelAssumption DEF ChannelAssumption, ControlType
  <2>2. c.loop \in BOOLEAN
    BY <2>1 DEF ControlType
  <2>3. gate' \in GateType /\ gate'.enabled = gate.enabled /\ gate'.length = gate.length
    BY <1>1, <1>5, <2>2 DEF WriteControl, GateType
  <2>4. envelope' \in EnvelopeType
    BY <1>1, <1>5, <2>1 DEF WriteControl, EnvelopeType
  <2>. QED
    BY <1>1, <1>2, <1>5, <2>3, <2>4 DEF WriteControl, ChannelInv, ChannelTypeOK, NoStaleNote
<1>6. ASSUME NEW c \in Sweeps, WriteSweep(c) PROVE ChannelInv'
  <2>1. c \in SweepControlType
    BY <1>6, ChannelAssumption DEF ChannelAssumption, SweepControlType
  <2>2. sweep' \in SweepType
    BY <1>1, <1>6, <2>1 DEF WriteSweep, SweepType
  <2>. QED
    BY <1>1, <1>2, <1>6, <2>2 DEF WriteSweep, ChannelInv, ChannelTypeOK, NoStaleNote
<1>7. ASSUME NEW control \in BOOLEAN, NEW value \in Reloads, WriteLinear(control, value)
      PROVE  ChannelInv'
  <2>1. value \in Nat
    BY ChannelAssumption DEF ChannelAssumption
  <2>2. linear' \in LinearType
    BY <1>1, <1>7, <2>1 DEF WriteLinear, LinearType
  <2>3. gate' \in GateType /\ kind = "triangle"
    BY <1>1, <1>7 DEF WriteLinear, GateType
  <2>. QED
    BY <1>1, <1>7, <2>2, <2>3 DEF WriteLinear, ChannelInv, ChannelTypeOK, NoStaleNote
<1>8. ASSUME kind # "noise", timer.period \in 0 .. PeriodMax, NEW p \in 0 .. PeriodMax,
             timer' = [timer EXCEPT !.period = p]
      PROVE  timer' \in TimerType(kind)
  <2>1. TimerPeriods(kind) = 0 .. PeriodMax
    BY <1>8 DEF TimerPeriods
  <2>. QED
    BY <1>1, <1>8, <2>1 DEF TimerType
<1>9. kind # "noise" => timer.period \in 0 .. PeriodMax
  BY <1>1 DEF TimerType, TimerPeriods
<1>10. ASSUME NEW low \in 0 .. LowSize - 1, WriteLow(low) PROVE ChannelInv'
  <2>1. timer.period \in 0 .. PeriodMax /\ kind # "noise"
    BY <1>9, <1>10 DEF WriteLow
  <2>2. (timer.period \div LowSize) * LowSize + low \in 0 .. PeriodMax
    BY <2>1, ChannelAssumption, PartsWritten
  <2>3. timer' = [timer EXCEPT !.period = (timer.period \div LowSize) * LowSize + low]
    BY <1>10, Zenon DEF WriteLow
  <2>4. timer' \in TimerType(kind)
    BY <1>8, <2>1, <2>2, <2>3
  <2>. QED
    BY <1>1, <1>2, <1>10, <2>4 DEF WriteLow, ChannelInv, ChannelTypeOK, NoStaleNote
<1>11. ASSUME NEW mode \in BOOLEAN, NEW p \in NoisePeriods, WritePeriod(mode, p) PROVE ChannelInv'
  <2>1. TimerPeriods(kind) = NoisePeriods
    BY <1>11 DEF WritePeriod, TimerPeriods
  <2>2. timer' \in TimerType(kind)
    BY <1>1, <1>11, <2>1 DEF WritePeriod, TimerType
  <2>3. noise' \in NoiseType
    BY <1>1, <1>11 DEF WritePeriod, NoiseType
  <2>. QED
    BY <1>1, <1>2, <1>11, <2>2, <2>3 DEF WritePeriod, ChannelInv, ChannelTypeOK, NoStaleNote
<1>12. ASSUME NEW l \in LengthTable, NEW high \in 0 .. HighSize - 1, WriteHigh(l, high)
       PROVE  ChannelInv'
  <2>1. l \in 0 .. ByteSize - 1
    BY ChannelAssumption DEF ChannelAssumption, ByteSize
  <2>2. /\ gate' \in GateType /\ gate'.enabled = gate.enabled
        /\ ~gate.enabled => gate'.length = gate.length
    <3>1. gate' = Loaded(gate, l)
      BY <1>12 DEF WriteHigh
    <3>. QED
      BY <1>1, <2>1, <3>1 DEF Loaded, GateType
  <2>3. timer' \in TimerType(kind)
    <3>1. CASE kind = "noise"
      BY <1>1, <1>12, <3>1 DEF WriteHigh
    <3>2. CASE kind # "noise"
      <4>1. (timer.period % LowSize) + high * LowSize \in 0 .. PeriodMax
        BY <1>9, <3>2, ChannelAssumption, PartsWritten
      <4>2. timer' = [timer EXCEPT !.period = (timer.period % LowSize) + high * LowSize]
        BY <1>12, <3>2, Zenon DEF WriteHigh
      <4>. QED
        BY <1>8, <1>9, <3>2, <4>1, <4>2
    <3>. QED
      BY <3>1, <3>2
  <2>4. envelope' \in EnvelopeType
    BY <1>1, <1>12 DEF WriteHigh, EnvelopeType
  <2>5. linear' \in LinearType
    BY <1>1, <1>12 DEF WriteHigh, LinearType
  <2>6. kind' = kind /\ sweep' = sweep /\ noise' = noise
    BY <1>12 DEF WriteHigh
  <2>. QED
    BY <1>1, <1>2, <2>2, <2>3, <2>4, <2>5, <2>6 DEF ChannelInv, ChannelTypeOK, NoStaleNote
<1>. QED
  BY <1>4, <1>5, <1>6, <1>7, <1>10, <1>11, <1>12 DEF Write

LEMMA ChannelNextInv == ChannelInv /\ [ChannelNext]_channelVars => ChannelInv'
<1>1. CASE UNCHANGED channelVars
  BY <1>1 DEF channelVars, ChannelInv, ChannelTypeOK, NoStaleNote
<1>2. ASSUME ChannelInv, ChannelNext PROVE ChannelInv'
  BY <1>2, ClockKeeps, ResetKeeps, WriteKeeps DEF ChannelNext, Runs
<1>. QED
  BY <1>1, <1>2

\* Whatever the program writes and wherever sweeps and resets fall: the period of a pulse and of
\* the triangle stays within 11 bits, also where a negated sweep wraps in 16, the length within
\* a byte, and the shift register of the noise is never zero, from which it would not move.
THEOREM ChannelTypes == ChannelSpec => []ChannelTypeOK
<1>1. ChannelInv => ChannelTypeOK
  BY DEF ChannelInv
<1>. QED
  BY <1>1, ChannelInitInv, ChannelNextInv, PTL DEF ChannelSpec

\* No load of the length counter, no clock and no reset leaves a note behind a switch in $4015.
THEOREM NoNoteResumes == ChannelSpec => []NoStaleNote
<1>1. ChannelInv => NoStaleNote
  BY DEF ChannelInv
<1>. QED
  BY <1>1, ChannelInitInv, ChannelNextInv, PTL DEF ChannelSpec

\* What a channel puts out is a level, so that the mixer finds the sum of levels in its tables,
\* beyond whose end it would fall silent.
THEOREM OutputIsLevel == ChannelSpec => [](Output \in 0 .. Loudest)
<1>1. ASSUME ChannelInv PROVE Output \in 0 .. Loudest
  <2>1. /\ kind \in Kinds /\ envelope \in EnvelopeType /\ timer.position \in TimerPositions(kind)
        /\ Loudest \in Nat
    BY <1>1, ChannelAssumption DEF ChannelInv, ChannelTypeOK, TimerType, ChannelAssumption, ByteSize
  <2>2. Volume \in 0 .. Loudest
    BY <2>1 DEF Volume, EnvelopeType, ControlType
  <2>3. CASE kind \in Pulses
    <3>1. Output = PulseOutput
      BY <2>3 DEF Output, Pulses
    <3>. QED
      BY <2>1, <2>2, <3>1 DEF PulseOutput
  <2>4. CASE kind = "noise"
    <3>1. Output = NoiseOutput
      BY <2>4 DEF Output, Pulses
    <3>. QED
      BY <2>1, <2>2, <3>1 DEF NoiseOutput
  <2>5. CASE kind = "triangle"
    <3>1. Output = TriangleOutput
      BY <2>5 DEF Output, Pulses
    <3>2. timer.position \in 0 .. 2 * (Loudest + 1) - 1
      BY <2>1, <2>5 DEF TimerPositions, TriangleSteps, Pulses
    <3>. QED
      BY <2>1, <3>1, <3>2 DEF TriangleOutput, TriangleLevel
  <2>. QED
    BY <2>1, <2>3, <2>4, <2>5 DEF Kinds
<1>. QED
  BY <1>1, ChannelInitInv, ChannelNextInv, PTL DEF ChannelSpec
=============================================================================

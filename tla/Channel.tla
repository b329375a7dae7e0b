------------------------------- MODULE Channel -------------------------------
(***************************************************************************)
(* One channel of the APU that makes a wave: a pulse, the triangle or the  *)
(* noise.  The channels share nothing but the signals of the frame counter *)
(* and the registers $4015 and $4017, so one stands for all of them, and   *)
(* its kind says which it is.  A channel is made of units that several     *)
(* kinds have: a gate (length counter), a timer with a sequencer, an       *)
(* envelope, a sweep, a linear counter, a shift register.  The program     *)
(* writes the registers between any two cycles.                            *)
(***************************************************************************)
EXTENDS Naturals

CONSTANTS
  LengthTable, \* the entries of LENGTH_COUNTER_TABLE
  LowSize,     \* 2^8: the period's low register
  HighSize,    \* 2^3: its high register
  Audible,     \* 8: a pulse of a shorter period is muted
  WordSize,    \* 2^16
  Controls,    \* values of $4000 and $400C
  Sweeps,      \* values of $4001
  Reloads,     \* reload values of the linear counter
  NoisePeriods,\* entries of NOISE_PERIOD_TABLE
  FirstPeriod, \* the first of them
  Loudest,     \* 15
  Steps,       \* 8: length of a duty sequence
  Width, Tap   \* 15: bits of the shift register, 6: the bit fed back in the short mode

ByteSize == 256
PeriodMax == LowSize * HighSize - 1

ASSUME ChannelAssumption ==
  /\ LengthTable \subseteq 1 .. ByteSize - 1 /\ Reloads \subseteq Nat
  /\ LowSize \in Nat \ {0} /\ HighSize \in Nat \ {0} /\ Audible \in Nat /\ Steps \in Nat \ {0}
  /\ WordSize \in Nat /\ 2 * PeriodMax < WordSize
  /\ Loudest \in 1 .. ByteSize - 1 /\ NoisePeriods \subseteq Nat /\ FirstPeriod \in NoisePeriods
  /\ Width \in Nat /\ Tap \in 1 .. Width - 1
  /\ Controls \subseteq [high : SUBSET (0 .. Steps - 1), loop : BOOLEAN, constant : BOOLEAN,
                         volume : 0 .. Loudest]
  /\ Sweeps \subseteq [enabled : BOOLEAN, period : Nat, negate : BOOLEAN, shift : Nat]

VARIABLES
  kind,      \* which channel this is
  gate,      \* enabled by $4015, halt, length
  timer,     \* period, counter, position of the sequencer
  envelope,  \* a value of Controls, start, divider, decay
  sweep,     \* a value of Sweeps, reload, divider
  linear,    \* counter, value, reload
  noise      \* mode, bits of the shift register

channelVars == <<kind, gate, timer, envelope, sweep, linear, noise>>

Pulses == {"pulse1", "pulse2"}
Kinds == Pulses \cup {"triangle", "noise"}

-----------------------------------------------------------------------------
(* The units. *)

\* A byte less one, as the release build computes it.
Less(n) == (n + ByteSize - 1) % ByteSize

\* clock_length_counter
Counted(g) == IF g.halt \/ g.length = 0 THEN g ELSE [g EXCEPT !.length = Less(@)]

\* A load of the length counter, which a disabled channel ignores.
Loaded(g, l) == IF g.enabled THEN [g EXCEPT !.length = l] ELSE g

\* The part of write_enable that concerns one channel.
Switched_NotCleared(g, on) == [g EXCEPT !.enabled = on]
Switched(g, on) == [g EXCEPT !.enabled = on, !.length = IF on THEN @ ELSE 0]

\* The decay level at the end of the envelope's divider.
Decayed_LoopsAlways(e) == IF e.decay > 0 THEN e.decay - 1 ELSE Loudest
Decayed(e) ==
  IF e.decay > 0 THEN Less(e.decay) ELSE IF e.control.loop THEN Loudest ELSE e.decay

\* clock_envelope
Enveloped(e) ==
  IF e.start
    THEN [e EXCEPT !.start = FALSE, !.decay = Loudest, !.divider = e.control.volume]
  ELSE IF e.divider = 0
    THEN [e EXCEPT !.divider = e.control.volume, !.decay = Decayed(e)]
  ELSE [e EXCEPT !.divider = @ - 1]

\* clock_linear_counter_with_reload
Lined(l, control) ==
  [l EXCEPT !.counter = IF l.reload THEN l.value ELSE IF @ > 0 THEN @ - 1 ELSE @,
            !.reload = @ /\ control]

\* get_sweep_target_period: ones' complement for the first pulse, two's for the second, in
\* 16 bits that wrap.
Target(k, p, s) ==
  LET change == p \div 2 ^ s.shift
  IN  IF ~s.negate THEN (p + change) % WordSize
      ELSE (p + WordSize - change - (IF k = "pulse1" THEN 1 ELSE 0)) % WordSize

\* The condition on the period under which a sweep moves it.
InRange_AnyTarget(k, p, s) == p >= Audible
InRange(k, p, s) == p >= Audible /\ Target(k, p, s) <= PeriodMax

\* clock_sweep: the divider, and the timer.
Divided(s) ==
  IF s.divider = 0 \/ s.reload THEN [s EXCEPT !.divider = s.control.period, !.reload = FALSE]
                               ELSE [s EXCEPT !.divider = @ - 1]

Swept(k, t, s) ==
  IF /\ s.divider = 0 /\ ~s.reload
     /\ s.control.enabled /\ s.control.shift # 0 /\ InRange(k, t.period, s.control)
    THEN LET p == Target(k, t.period, s.control)
         IN  [t EXCEPT !.period = p, !.counter = p]
    ELSE t

TriangleSteps == 2 * (Loudest + 1)

\* clock_sequencer: a pulse counts down, the triangle up; noise has no sequencer.
Advanced(k, position) ==
  IF k \in Pulses THEN (position + Steps - 1) % Steps
  ELSE IF k = "triangle" THEN (position + 1) % TriangleSteps
  ELSE position

\* clock_timer
Ended(t) == t.counter = 0
Ticked(k, t) ==
  IF Ended(t) THEN [t EXCEPT !.counter = t.period, !.position = Advanced(k, @)]
              ELSE [t EXCEPT !.counter = @ - 1]

\* clock_shift_register
Bit(n, i) == (n \div 2 ^ i) % 2
NoiseShifted_LateFeedback(n, mode) ==
  LET m == n \div 2
  IN  m + ((Bit(m, 0) + Bit(m, IF mode THEN Tap ELSE 1)) % 2) * 2 ^ (Width - 1)
NoiseShifted(n, mode) ==
  (n \div 2) + ((Bit(n, 0) + Bit(n, IF mode THEN Tap ELSE 1)) % 2) * 2 ^ (Width - 1)

-----------------------------------------------------------------------------
(* The channel. *)

NewGate == [enabled |-> FALSE, halt |-> FALSE, length |-> 0]

NewTimer(k) ==
  [period |-> IF k = "noise" THEN FirstPeriod ELSE 0, counter |-> 0, position |-> 0]

NewEnvelope ==
  [control |-> [high |-> {Steps - 1}, loop |-> FALSE, constant |-> FALSE, volume |-> 0],
   start |-> FALSE, divider |-> 0, decay |-> 0]

NewSweep ==
  [control |-> [enabled |-> FALSE, period |-> 0, negate |-> FALSE, shift |-> 0],
   reload |-> FALSE, divider |-> 0]

NewLinear == [counter |-> 0, value |-> 0, reload |-> FALSE]

NewNoise == [mode |-> FALSE, bits |-> 1]

ChannelInit ==
  /\ kind \in Kinds
  /\ gate = NewGate /\ timer = NewTimer(kind) /\ envelope = NewEnvelope
  /\ sweep = NewSweep /\ linear = NewLinear /\ noise = NewNoise

\* What a quarter frame clocks in this channel, and a half frame.
Quarter ==
  /\ envelope' = IF kind = "triangle" THEN envelope ELSE Enveloped(envelope)
  /\ linear' = IF kind = "triangle" THEN Lined(linear, gate.halt) ELSE linear

HalfTimer == IF kind \in Pulses THEN Swept(kind, timer, sweep) ELSE timer

Half ==
  /\ gate' = Counted(gate)
  /\ sweep' = IF kind \in Pulses THEN Divided(sweep) ELSE sweep

\* Apu::clock: what the signals q and h of the frame counter clock, then the timers on even
\* cycles.  A write to $4017 that sets the 5-step mode gives both signals and clocks no timer.
ClockChannel(q, h, even) ==
  LET t == IF h THEN HalfTimer ELSE timer
  IN  /\ IF q THEN Quarter ELSE UNCHANGED <<envelope, linear>>
      /\ IF h THEN Half ELSE UNCHANGED <<gate, sweep>>
      /\ timer' = IF even THEN Ticked(kind, t) ELSE t
      /\ noise' = IF kind = "noise" /\ even /\ Ended(t)
                    THEN [noise EXCEPT !.bits = NoiseShifted(@, noise.mode)] ELSE noise
      /\ UNCHANGED kind

\* Apu::reset makes a pulse and the noise anew; the triangle is only barred from loading.
ResetChannel ==
  /\ IF kind = "triangle"
       THEN /\ gate' = [gate EXCEPT !.enabled = FALSE]
            /\ UNCHANGED <<timer, envelope, sweep, noise>>
       ELSE /\ gate' = NewGate /\ timer' = NewTimer(kind) /\ envelope' = NewEnvelope
            /\ sweep' = NewSweep /\ noise' = NewNoise
  /\ UNCHANGED <<kind, linear>>

\* $4015
WriteEnable(on) ==
  /\ gate' = Switched(gate, on)
  /\ UNCHANGED <<kind, timer, envelope, sweep, linear, noise>>

\* $4000, $4004, $400C: one bit is the loop of the envelope and the halt of the gate.
WriteControl(c) ==
  /\ kind # "triangle"
  /\ envelope' = [envelope EXCEPT !.control = c]
  /\ gate' = [gate EXCEPT !.halt = c.loop]
  /\ UNCHANGED <<kind, timer, sweep, linear, noise>>

\* $4001, $4005
WriteSweep(c) ==
  /\ kind \in Pulses
  /\ sweep' = [sweep EXCEPT !.control = c, !.reload = TRUE]
  /\ UNCHANGED <<kind, gate, timer, envelope, linear, noise>>

\* $4008
WriteLinear(control, value) ==
  /\ kind = "triangle"
  /\ gate' = [gate EXCEPT !.halt = control]
  /\ linear' = [linear EXCEPT !.value = value]
  /\ UNCHANGED <<kind, timer, envelope, sweep, noise>>

\* $4002, $4006, $400A
WriteLow(low) ==
  /\ kind # "noise"
  /\ timer' = [timer EXCEPT !.period = (@ \div LowSize) * LowSize + low]
  /\ UNCHANGED <<kind, gate, envelope, sweep, linear, noise>>

\* $400E
WritePeriod(mode, p) ==
  /\ kind = "noise"
  /\ timer' = [timer EXCEPT !.period = p]
  /\ noise' = [noise EXCEPT !.mode = mode]
  /\ UNCHANGED <<kind, gate, envelope, sweep, linear>>

\* $4003, $4007, $400B, $400F: the length, the high bits of the period but for the noise, and
\* a start of the envelope or a reload of the linear counter.
WriteHigh(l, high) ==
  /\ gate' = Loaded(gate, l)
  /\ timer' = IF kind = "noise" THEN timer
              ELSE [timer EXCEPT !.period = (@ % LowSize) + high * LowSize]
  /\ envelope' = IF kind = "triangle" THEN envelope ELSE [envelope EXCEPT !.start = TRUE]
  /\ linear' = IF kind = "triangle" THEN [linear EXCEPT !.reload = TRUE] ELSE linear
  /\ UNCHANGED <<kind, sweep, noise>>

Write ==
  \/ \E on \in BOOLEAN : WriteEnable(on)
  \/ \E c \in Controls : WriteControl(c)
  \/ \E c \in Sweeps : WriteSweep(c)
  \/ \E control \in BOOLEAN, value \in Reloads : WriteLinear(control, value)
  \/ \E low \in 0 .. LowSize - 1 : WriteLow(low)
  \/ \E mode \in BOOLEAN, p \in NoisePeriods : WritePeriod(mode, p)
  \/ \E l \in LengthTable, high \in 0 .. HighSize - 1 : WriteHigh(l, high)

Runs == \E q, h, even \in BOOLEAN : ClockChannel(q, h, even)

ChannelNext == Runs \/ ResetChannel \/ Write

ChannelSpec == ChannelInit /\ [][ChannelNext]_channelVars

\* run_cpu_tick clocks the APU in every cycle it runs, and both signals of the frame counter
\* recur in either mode.
ChannelFairSpec ==
  /\ ChannelSpec
  /\ WF_channelVars(\E h, even \in BOOLEAN : ClockChannel(TRUE, h, even))
  /\ WF_channelVars(\E q, even \in BOOLEAN : ClockChannel(q, TRUE, even))
  /\ WF_channelVars(\E q, h \in BOOLEAN : ClockChannel(q, h, TRUE))

-----------------------------------------------------------------------------
(* What the channel puts out. *)

Volume ==
  IF envelope.control.constant THEN envelope.control.volume ELSE envelope.decay

TriangleLevel ==
  IF timer.position <= Loudest THEN Loudest - timer.position
                               ELSE timer.position - (Loudest + 1)

\* output, of each kind
PulseOutput ==
  IF /\ timer.position \in envelope.control.high /\ gate.enabled /\ gate.length > 0
     /\ InRange(kind, timer.period, sweep.control)
    THEN Volume ELSE 0

NoiseOutput ==
  IF gate.enabled /\ gate.length > 0 /\ Bit(noise.bits, 0) = 0 THEN Volume ELSE 0

\* The triangle alone does not ask whether it is enabled.
TriangleOutput == IF linear.counter > 0 /\ gate.length > 0 THEN TriangleLevel ELSE 0

Output ==
  CASE kind \in Pulses -> PulseOutput
    [] kind = "noise" -> NoiseOutput
    [] kind = "triangle" -> TriangleOutput

-----------------------------------------------------------------------------
(* Properties. *)

\* A pulse or a noise that $4015 has switched off, or a reset, holds no note that enabling it
\* again would resume, whatever is loaded or clocked in between.
NoStaleNote == kind # "triangle" /\ ~gate.enabled => gate.length = 0

\* The program lets the channel run.
Rests == <>[][Runs]_channelVars

\* Then a note that does not loop ends, whatever state the last write or reset found it in: its
\* length runs out, and so do the envelope and the linear counter, the triangle that a reset
\* has barred from loading included.  The envelope of one that loops starts anew forever.
NotesEnd ==
  Rests =>
    /\ <>[](~gate.halt) =>
         <>[](gate.length = 0 /\ envelope.decay = 0 /\ linear.counter = 0 /\ Output = 0)
    /\ <>[](envelope.control.loop) => []<>(envelope.decay = Loudest)

\* A sweep left alone settles on a period, up or down and in either complement: it never runs
\* out of the 11 bits and around.
SweepSettles == Rests => <>[][timer'.period = timer.period]_timer

\* The shift register never locks up: from any state that switching modes leaves it in, the
\* long mode comes back to its first.
NoiseRecurs == Rests /\ <>[](~noise.mode) => []<>(noise.bits = 1)
=============================================================================

------------------------------ MODULE AudioPipe -------------------------------
(***************************************************************************)
(* The path of a sample between two threads.  The main thread runs a tick  *)
(* of the machine, in which the APU mixes a sample whenever its            *)
(* accumulator is full, into a slot that holds one; after the tick the     *)
(* event loop takes the sample out and offers it to a bounded channel.     *)
(* SDL's thread fills its output from the channel whenever it likes.       *)
(* Samples are numbered as they are mixed.                                 *)
(***************************************************************************)
EXTENDS Naturals, Sequences, SequencesExt

CONSTANTS
  Unit,        \* what a CPU cycle adds to the accumulator
  PerSample,   \* cycles_per_sample, in the same measure
  TickMax,     \* the longest tick but a DMA: an instruction with its interrupts
  DmaMax,      \* the longest tick with a DMA
  Capacity,    \* BUFFER_SIZE
  MaxSamples   \* bound: no tick starts once so many samples are mixed

ASSUME AudioAssumption ==
  /\ Unit \in Nat \ {0} /\ PerSample \in Nat /\ TickMax \in Nat /\ DmaMax \in Nat
  /\ TickMax < PerSample /\ TickMax <= DmaMax /\ Unit <= TickMax
  /\ Capacity \in Nat \ {0} /\ MaxSamples \in Nat

None == 0

VARIABLES
  pc,          \* the main thread: between ticks, in one, draining, with a sample in hand
  dma,         \* whether the tick runs a DMA
  spent,       \* length of the tick so far
  acc,         \* sample_accumulator
  pending,     \* pending_sample
  hand,        \* the sample taken out of it
  queue,       \* the channel
  mixed,       \* history: number of the newest sample
  played,      \* history: number of the sample played last
  overwritten  \* history: samples overwritten in this tick

apu == <<acc, pending, mixed, overwritten>>
main == <<pc, dma, spent, hand>>
vars == <<main, apu, queue, played>>

Init ==
  /\ pc = "idle" /\ dma = FALSE /\ spent = 0 /\ hand = None
  /\ acc = 0 /\ pending = None /\ mixed = 0 /\ overwritten = 0
  /\ queue = <<>> /\ played = None

-----------------------------------------------------------------------------
\* run_cpu_tick begins, with the transfer of an OAM page or with an instruction.
StartTick ==
  /\ pc = "idle" /\ mixed < MaxSamples
  /\ pc' = "tick" /\ spent' = 0 /\ overwritten' = 0
  /\ dma' \in BOOLEAN
  /\ UNCHANGED <<hand, acc, pending, mixed, queue, played>>

\* The tail of Apu::clock
Mixes == acc + Unit >= PerSample

LeftOver_NotTaken == acc + Unit
LeftOver == acc + Unit - PerSample

Clock ==
  /\ pc = "tick" /\ spent + Unit <= (IF dma THEN DmaMax ELSE TickMax)
  /\ spent' = spent + Unit
  /\ IF Mixes
       THEN /\ acc' = LeftOver /\ mixed' = mixed + 1 /\ pending' = mixed'
            /\ overwritten' = IF pending = None THEN overwritten ELSE overwritten + 1
       ELSE acc' = acc + Unit /\ UNCHANGED <<pending, mixed, overwritten>>
  /\ UNCHANGED <<pc, dma, hand, queue, played>>

EndTick ==
  /\ pc = "tick" /\ spent > 0
  /\ pc' = "drain"
  /\ UNCHANGED <<dma, spent, hand, apu, queue, played>>

\* while sample_ready: get_sample
GetSample_Copied == pending' = pending
GetSample == pending' = None

Drain ==
  /\ pc = "drain"
  /\ IF pending # None
       THEN pc' = "send" /\ hand' = pending /\ GetSample
       ELSE pc' = "idle" /\ UNCHANGED <<hand, pending>>
  /\ UNCHANGED <<dma, spent, acc, mixed, overwritten, queue, played>>

\* queue_sample: try_send gives a full channel up rather than wait for it.
Queued_Waits == Len(queue) < Capacity /\ queue' = Append(queue, hand)
Queued == queue' = IF Len(queue) < Capacity THEN Append(queue, hand) ELSE queue

Send ==
  /\ pc = "send" /\ pc' = "drain" /\ hand' = None
  /\ Queued
  /\ UNCHANGED <<dma, spent, apu, played>>

\* F1, between two ticks.  The channel keeps what was queued.
Reset ==
  /\ pc = "idle"
  /\ acc' = 0 /\ pending' = None
  /\ UNCHANGED <<main, mixed, overwritten, queue, played>>

\* One slot of the audio callback's output; an empty channel leaves silence.
Callback ==
  /\ queue # <<>>
  /\ played' = Head(queue) /\ queue' = Tail(queue)
  /\ UNCHANGED <<main, apu>>

Main == StartTick \/ Clock \/ EndTick \/ Drain \/ Send

Next == Main \/ Reset \/ Callback

Spec == Init /\ [][Next]_vars

\* The main thread runs.  The audio thread need not.
FairSpec == Spec /\ WF_vars(Main)

-----------------------------------------------------------------------------
(* Properties. *)

\* The APU's slot of one sample is enough for an instruction and the interrupts after it; only
\* the transfer of an OAM page overwrites samples, as many as its length holds less the one that
\* is kept.  A reset between two ticks finds the slot empty and takes no sample away.
SlotSuffices ==
  /\ overwritten > 0 => dma /\ overwritten * PerSample < DmaMax
  /\ pc = "idle" => pending = None

\* The channel never makes the machine wait, even if the audio thread stops for good.
NeverWaits == pc = "send" ~> pc = "idle"

\* Samples are played in the order they were mixed and none twice; only the newest is ever lost.
WithSome(s, x) == IF x = None THEN s ELSE Append(s, x)

Fifo == INSTANCE LossyFifo WITH buffer <- WithSome(WithSome(queue, hand), pending)

LosesNewestOnly == Fifo!Spec
=============================================================================

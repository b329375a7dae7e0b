--------------------------- MODULE AudioPipeProofs ----------------------------
(***************************************************************************)
(* For every length of tick, size of channel and rate of samples: the slot *)
(* of one sample suffices for whatever is not an OAM transfer, and the     *)
(* path of a sample implements LossyFifo.                                  *)
(***************************************************************************)
EXTENDS AudioPipe, SequenceTheorems, TLAPS

Samples == Nat \ {None}

\* The types, the remainder in the accumulator included.
TypeOK ==
  /\ pc \in {"idle", "tick", "drain", "send"} /\ dma \in BOOLEAN
  /\ spent \in Nat /\ acc \in 0 .. PerSample - 1
  /\ pending \in Nat /\ hand \in Nat /\ mixed \in Nat /\ played \in Nat /\ overwritten \in Nat
  /\ queue \in Seq(Nat)

\* Where a sample may be: between ticks nowhere but in the channel, and never in the slot and
\* in the loop's hand at once.
OneAtATime ==
  /\ pc \in {"idle", "send"} => pending = None
  /\ hand # None <=> pc = "send"

\* The samples mixed in this tick.
Mixed == overwritten + (IF pending = None THEN 0 ELSE 1)

\* The accumulator keeps the books: what is in it, and in the samples of this tick, was either
\* there before or spent in this tick.
Balanced ==
  pc = "tick" =>
    /\ acc + PerSample * Mixed < PerSample + spent
    /\ spent <= IF dma THEN DmaMax ELSE TickMax
    /\ overwritten > 0 => pending # None

IInv == TypeOK /\ OneAtATime /\ Balanced /\ SlotSuffices

-----------------------------------------------------------------------------
LEMMA ConstantFacts ==
  /\ Unit \in Nat /\ PerSample \in Nat /\ TickMax \in Nat /\ DmaMax \in Nat
  /\ 0 < Unit /\ Unit < PerSample /\ TickMax < PerSample /\ TickMax <= DmaMax /\ Capacity \in Nat
BY AudioAssumption

\* One sample more, and what no sample and one sample come to.
LEMMA OneMore ==
  /\ \A n \in Nat : PerSample * n \in Nat /\ PerSample * (n + 1) = PerSample * n + PerSample
  /\ \A n \in Nat : n > 0 => PerSample * n >= PerSample
  /\ \A n \in Nat : n * PerSample = PerSample * n
BY ConstantFacts, Z3

LEMMA InitInv == Init => IInv
<1> SUFFICES ASSUME Init PROVE IInv
  OBVIOUS
<1>1. /\ pc = "idle" /\ dma = FALSE /\ spent = 0 /\ acc = 0 /\ pending = 0 /\ hand = 0
      /\ mixed = 0 /\ played = 0 /\ overwritten = 0
  BY Zenon DEF Init, None
<1>2. queue \in Seq(Nat)
  BY EmptySeq, Zenon DEF Init
<1>3. acc \in 0 .. PerSample - 1
  BY <1>1, ConstantFacts
<1>4. TypeOK
  BY <1>1, <1>2, <1>3 DEF TypeOK
<1> QED
  BY <1>1, <1>4 DEF IInv, OneAtATime, Balanced, SlotSuffices, None

LEMMA StartTickInv == IInv /\ StartTick => IInv'
<1> SUFFICES ASSUME IInv, StartTick PROVE IInv'
  OBVIOUS
<1>1. pending = None /\ pending' = None /\ overwritten' = 0 /\ acc' = acc /\ spent' = 0 /\ Mixed' = 0
  BY DEF IInv, OneAtATime, StartTick, Mixed
<1>2. TypeOK'
  BY DEF IInv, TypeOK, StartTick
<1>3. OneAtATime'
  BY <1>1 DEF IInv, OneAtATime, StartTick
<1>4. Balanced'
  <2>1. acc' + PerSample * 0 < PerSample + 0
    BY <1>1, ConstantFacts DEF IInv, TypeOK
  <2>2. dma' \in BOOLEAN
    BY DEF StartTick
  <2> QED
    BY <1>1, <2>1, <2>2, ConstantFacts DEF Balanced
<1>5. SlotSuffices'
  BY <1>1 DEF SlotSuffices, StartTick
<1> QED
  BY <1>2, <1>3, <1>4, <1>5 DEF IInv

\* A cycle that mixes moves PerSample from the accumulator into one sample more.
LEMMA ClockInv == IInv /\ Clock => IInv'
<1> SUFFICES ASSUME IInv, Clock PROVE IInv'
  OBVIOUS
<1>1. /\ pc = "tick" /\ pc' = "tick" /\ hand = None /\ hand' = None /\ dma' = dma /\ dma \in BOOLEAN
      /\ spent \in Nat /\ spent' = spent + Unit /\ overwritten \in Nat /\ pending \in Nat
      /\ mixed \in Nat /\ acc \in Nat /\ acc < PerSample
  BY ConstantFacts DEF IInv, TypeOK, OneAtATime, Clock
<1>2. /\ acc + PerSample * Mixed < PerSample + spent
      /\ overwritten > 0 => pending # None
      /\ spent' <= IF dma THEN DmaMax ELSE TickMax
  BY <1>1 DEF IInv, Balanced, Clock
<1>3. Mixed \in Nat /\ PerSample * Mixed \in Nat
  BY <1>1, OneMore DEF Mixed
<1>4. CASE Mixes
  <2>1. /\ acc' = acc + Unit - PerSample /\ mixed' = mixed + 1 /\ pending' = mixed'
        /\ overwritten' = IF pending = None THEN overwritten ELSE overwritten + 1
    BY <1>4 DEF Clock, LeftOver
  <2>2. acc' \in 0 .. PerSample - 1
    BY <1>1, <1>4, <2>1, ConstantFacts DEF Mixes
  <2>3. pending' # None /\ pending' \in Nat /\ overwritten' \in Nat /\ overwritten' = Mixed
    BY <1>1, <1>2, <2>1 DEF Mixed, None
  <2>4. Mixed' = Mixed + 1
    BY <2>3 DEF Mixed
  <2>5. PerSample * Mixed' = PerSample * Mixed + PerSample
    BY <1>3, <2>4, OneMore
  <2>6. acc' + PerSample * Mixed' < PerSample + spent'
    BY <1>1, <1>2, <1>3, <2>1, <2>5, ConstantFacts
  <2>7. PerSample * overwritten' < spent'
    BY <1>1, <1>2, <1>3, <1>4, <2>1, <2>3, ConstantFacts DEF Mixes
  <2>8. overwritten' > 0 => dma /\ overwritten' * PerSample < DmaMax
    <3>1. PerSample * overwritten' < IF dma THEN DmaMax ELSE TickMax
      BY <1>1, <1>2, <1>3, <2>3, <2>7, ConstantFacts
    <3>2. overwritten' > 0 => PerSample * overwritten' >= PerSample
      BY <2>3, OneMore
    <3>3. overwritten' * PerSample = PerSample * overwritten'
      BY <2>3, OneMore
    <3>4. PerSample * overwritten' \in Nat
      BY <1>3, <2>3
    <3> QED
      BY <3>1, <3>2, <3>3, <3>4, ConstantFacts
  <2> QED
    BY <1>1, <1>2, <2>1, <2>2, <2>3, <2>6, <2>8, ConstantFacts
       DEF IInv, TypeOK, OneAtATime, Balanced, SlotSuffices, Clock
<1>5. CASE ~Mixes
  <2>1. /\ acc' = acc + Unit
        /\ pending' = pending /\ mixed' = mixed /\ overwritten' = overwritten /\ Mixed' = Mixed
    BY <1>5 DEF Clock, Mixed
  <2>2. acc' \in 0 .. PerSample - 1
    BY <1>1, <1>5, <2>1, ConstantFacts DEF Mixes
  <2>3. acc' + PerSample * Mixed' < PerSample + spent'
    BY <1>1, <1>2, <1>3, <2>1, ConstantFacts
  <2> QED
    BY <1>1, <1>2, <2>1, <2>2, <2>3, ConstantFacts
       DEF IInv, TypeOK, OneAtATime, Balanced, SlotSuffices, Clock
<1> QED
  BY <1>4, <1>5

\* The other steps touch neither the accumulator nor the history of the tick.
LEMMA DrainInv == IInv /\ (EndTick \/ Drain) => IInv'
<1>1. IInv /\ EndTick => IInv'
  BY DEF IInv, TypeOK, OneAtATime, Balanced, SlotSuffices, EndTick, apu
<1>2. IInv /\ Drain => IInv'
  BY DEF IInv, TypeOK, OneAtATime, Balanced, SlotSuffices, Drain, GetSample, None
<1> QED
  BY <1>1, <1>2

LEMMA SendInv == IInv /\ Send => IInv'
<1> SUFFICES ASSUME IInv, Send PROVE IInv'
  OBVIOUS
<1>1. Append(queue, hand) \in Seq(Nat)
  BY AppendProperties DEF IInv, TypeOK
<1>2. queue' \in Seq(Nat)
  BY <1>1 DEF Send, Queued, IInv, TypeOK
<1> QED
  BY <1>2 DEF IInv, TypeOK, OneAtATime, Balanced, SlotSuffices, Send, apu, None

LEMMA ResetInv == IInv /\ Reset => IInv'
BY ConstantFacts DEF IInv, TypeOK, OneAtATime, Balanced, SlotSuffices, Reset, main, None

LEMMA CallbackInv == IInv /\ Callback => IInv'
<1> SUFFICES ASSUME IInv, Callback PROVE IInv'
  OBVIOUS
<1>1. Head(queue) \in Nat /\ Tail(queue) \in Seq(Nat)
  BY HeadTailProperties DEF IInv, TypeOK, Callback
<1> QED
  BY <1>1 DEF IInv, TypeOK, OneAtATime, Balanced, SlotSuffices, Mixed, Callback, main, apu

LEMMA NextInv == IInv /\ [Next]_vars => IInv'
<1> SUFFICES ASSUME IInv, [Next]_vars PROVE IInv'
  OBVIOUS
<1>1. CASE UNCHANGED vars
  BY <1>1 DEF IInv, TypeOK, OneAtATime, Balanced, SlotSuffices, Mixed, vars, main, apu
<1> QED
  BY <1>1, StartTickInv, ClockInv, DrainInv, SendInv, ResetInv, CallbackInv DEF Next, Main

THEOREM Invariance == Spec => []IInv
BY InitInv, NextInv, PTL DEF Spec

\* The slot of one sample suffices for an instruction with its interrupts; a transfer of an OAM
\* page alone overwrites samples, and no more of them than its length holds.
THEOREM SlotIsEnough == Spec => []SlotSuffices
<1>1. IInv => SlotSuffices
  BY DEF IInv
<1> QED
  BY <1>1, Invariance, PTL

-----------------------------------------------------------------------------
(* The path implements LossyFifo, with the channel, the loop's hand and the *)
(* slot, in this order, for its buffer.                                     *)

Buffer == WithSome(WithSome(queue, hand), pending)

\* At most one sample is behind the channel.
LEMMA BufferIs ==
  ASSUME IInv
  PROVE  /\ pc # "send" => Buffer = WithSome(queue, pending)
         /\ pc = "send" => Buffer = Append(queue, hand) /\ hand # None
         /\ queue \in Seq(Nat)
BY DEF IInv, TypeOK, OneAtATime, Buffer, WithSome

\* What the abstract steps see of a buffer that ends in x.
LEMMA LastOut ==
  ASSUME NEW s \in Seq(Nat), NEW x \in Nat
  PROVE  Append(s, x) # <<>> /\ Front(Append(s, x)) = s
<1>1. /\ Append(s, x) \in Seq(Nat) /\ Append(s, x) # <<>> /\ Len(Append(s, x)) = Len(s) + 1
      /\ \A i \in 1 .. Len(s) : Append(s, x)[i] = s[i]
      /\ Len(s) \in Nat
  BY AppendProperties, LenProperties
<1>2. Front(Append(s, x)) = SubSeq(Append(s, x), 1, Len(s))
  BY <1>1 DEF Front
<1>3. \A i \in 1 .. Len(s) : Append(s, x)[i] \in Nat
  BY <1>1, ElementOfSeq
<1>4. /\ SubSeq(Append(s, x), 1, Len(s)) \in Seq(Nat)
      /\ Len(SubSeq(Append(s, x), 1, Len(s))) = Len(s)
      /\ \A i \in 1 .. Len(s) : SubSeq(Append(s, x), 1, Len(s))[i] = s[i]
  BY <1>1, <1>3, SubSeqProperties
<1> QED
  BY <1>1, <1>2, <1>4, SeqEqual

LEMMA FifoInit == Init => Fifo!Init
BY DEF Init, Fifo!Init, WithSome, None

\* A mixed sample is put behind the others, or replaces the one in the slot.
LEMMA FifoClock == IInv /\ IInv' /\ Clock => [Fifo!Next]_Fifo!vars
<1> SUFFICES ASSUME IInv, IInv', Clock PROVE [Fifo!Next]_Fifo!vars
  OBVIOUS
<1>1. /\ Buffer = WithSome(queue, pending) /\ Buffer' = WithSome(queue, pending')
      /\ queue \in Seq(Nat) /\ pending \in Nat /\ played' = played
  BY BufferIs DEF IInv, TypeOK, OneAtATime, Clock, Buffer, WithSome
<1>2. CASE Mixes
  <2>1. mixed' = mixed + 1 /\ pending' = mixed' /\ mixed' # None /\ Buffer' = Append(queue, mixed')
    BY <1>1, <1>2 DEF Clock, IInv, TypeOK, None, WithSome
  <2>2. CASE pending = None
    <3>1. Fifo!Put
      BY <1>1, <2>1, <2>2 DEF Fifo!Put, Buffer, WithSome
    <3> QED
      BY <3>1 DEF Fifo!Next
  <2>3. CASE pending # None
    <3>1. Buffer = Append(queue, pending) /\ Buffer # <<>> /\ Front(Buffer) = queue
      BY <1>1, <2>3, LastOut DEF WithSome
    <3>2. Fifo!Replace
      BY <1>1, <2>1, <3>1 DEF Fifo!Replace, Fifo!Front, Front, Buffer
    <3> QED
      BY <3>1, <3>2 DEF Fifo!Next, Buffer
  <2> QED
    BY <2>2, <2>3
<1>3. CASE ~Mixes
  BY <1>1, <1>3 DEF Clock, Fifo!vars, Buffer
<1> QED
  BY <1>2, <1>3

\* Taken out of the slot a sample keeps its place; a full channel drops it.
LEMMA FifoDrain == IInv /\ IInv' /\ Drain => [Fifo!Next]_Fifo!vars
<1> SUFFICES ASSUME IInv, IInv', Drain PROVE UNCHANGED Fifo!vars
  OBVIOUS
<1>1. Buffer' = Buffer /\ mixed' = mixed /\ played' = played
  BY DEF IInv, OneAtATime, Drain, GetSample, Buffer, WithSome
<1> QED
  BY <1>1 DEF Fifo!vars, Buffer

LEMMA FifoSend == IInv /\ IInv' /\ Send => [Fifo!Next]_Fifo!vars
<1> SUFFICES ASSUME IInv, IInv', Send PROVE [Fifo!Next]_Fifo!vars
  OBVIOUS
<1>1. /\ Buffer = Append(queue, hand) /\ queue \in Seq(Nat) /\ hand \in Nat
      /\ pending = None /\ pending' = None /\ hand' = None
      /\ mixed' = mixed /\ played' = played
  BY BufferIs DEF IInv, TypeOK, OneAtATime, Send, apu
<1>2. Buffer' = queue'
  BY <1>1 DEF Buffer, WithSome
<1>3. CASE Len(queue) < Capacity
  BY <1>1, <1>2, <1>3 DEF Send, Queued, Fifo!vars, Buffer
<1>4. CASE ~(Len(queue) < Capacity)
  <2>1. Buffer # <<>> /\ Front(Buffer) = queue /\ Buffer' = queue
    BY <1>1, <1>2, <1>4, LastOut DEF Send, Queued
  <2>2. Fifo!Drop
    BY <1>1, <2>1 DEF Fifo!Drop, Fifo!Front, Front, Buffer
  <2> QED
    BY <2>1, <2>2 DEF Fifo!Next, Buffer
<1> QED
  BY <1>3, <1>4

\* What the audio thread plays is the head of the whole path.
LEMMA HeadOut ==
  ASSUME NEW s \in Seq(Nat), s # <<>>, NEW x \in Nat
  PROVE  /\ WithSome(s, x) # <<>> /\ Head(WithSome(s, x)) = Head(s)
         /\ Tail(WithSome(s, x)) = WithSome(Tail(s), x)
         /\ WithSome(s, x) \in Seq(Nat)
BY AppendProperties, HeadTailAppend DEF WithSome

LEMMA FifoCallback == IInv /\ Callback => [Fifo!Next]_Fifo!vars
<1> SUFFICES ASSUME IInv, Callback PROVE [Fifo!Next]_Fifo!vars
  OBVIOUS
<1>1. /\ queue \in Seq(Nat) /\ queue # <<>> /\ hand \in Nat /\ pending \in Nat
      /\ hand' = hand /\ pending' = pending /\ queue' = Tail(queue) /\ played' = Head(queue)
      /\ mixed' = mixed
  BY DEF IInv, TypeOK, Callback, main, apu
<1>. DEFINE inner == WithSome(queue, hand)
<1>2. /\ inner # <<>> /\ Head(inner) = Head(queue) /\ Tail(inner) = WithSome(Tail(queue), hand)
      /\ inner \in Seq(Nat)
  BY <1>1, HeadOut
<1>3. Buffer = WithSome(inner, pending) /\ Buffer' = WithSome(Tail(inner), pending)
  BY <1>1, <1>2 DEF Buffer
<1> HIDE DEF inner
<1>4. Buffer # <<>> /\ Head(Buffer) = Head(queue) /\ Tail(Buffer) = Buffer'
  BY <1>1, <1>2, <1>3, HeadOut
<1>5. Fifo!Get
  BY <1>1, <1>4 DEF Fifo!Get, Buffer
<1> QED
  BY <1>4, <1>5 DEF Fifo!Next, Buffer

LEMMA FifoNext == IInv /\ IInv' /\ [Next]_vars => [Fifo!Next]_Fifo!vars
<1> SUFFICES ASSUME IInv, IInv', [Next]_vars PROVE [Fifo!Next]_Fifo!vars
  OBVIOUS
<1>1. CASE StartTick
  BY <1>1 DEF StartTick, Fifo!vars
<1>2. CASE EndTick
  BY <1>2 DEF EndTick, apu, Fifo!vars
<1>3. CASE Reset
  BY <1>3 DEF Reset, main, Fifo!vars, IInv, OneAtATime
<1>4. CASE UNCHANGED vars
  BY <1>4 DEF vars, main, apu, Fifo!vars
<1> QED
  BY <1>1, <1>2, <1>3, <1>4, FifoClock, FifoDrain, FifoSend, FifoCallback DEF Next, Main

\* Samples come out in the order they were mixed and none twice, and only the newest is ever
\* lost: to a newer one in the slot, or to a full channel.
THEOREM ImplementsFifo == Spec => LosesNewestOnly
<1>1. Init => Fifo!Init
  BY FifoInit
<1>2. IInv /\ IInv' /\ [Next]_vars => [Fifo!Next]_Fifo!vars
  BY FifoNext
<1> QED
  BY <1>1, <1>2, Invariance, PTL DEF Spec, LosesNewestOnly, Fifo!Spec
=============================================================================
